---------------------------- MODULE KVNodeProofs ----------------------------
(***************************************************************************)
(* What TLAPS proves of KVNode, for every finite set of nodes, every set of *)
(* payloads and every bound.  The type invariant and the lock discipline    *)
(* hold of nodes that crash and restart (CrashSpec); the facts about votes  *)
(* and terms need nodes that stay up (Spec), because a restarted node has   *)
(* forgotten its term.                                                      *)
(***************************************************************************)
EXTENDS KVNode, FiniteSetTheorems, TLAPS

-----------------------------------------------------------------------------
(* Types. *)

\* What heartbeat_follower leaves behind has the right types.
LEMMA HeartbeatFollowerType ==
    ASSUME TypeOK, NEW f \in Node, NEW m,
           m.from \in Node, m.term \in Nat, m.payload \in Entry,
           HeartbeatFollower(f, m)
    PROVE  /\ term' \in [Node -> Nat]
           /\ status' \in [Node -> {"FOLLOWER", "CANDIDATE", "LEADER"}]
           /\ leader' \in [Node -> Node \cup {None}]
           /\ timer' \in [Node -> BOOLEAN]
           /\ commitIdx' \in [Node -> Nat]
           /\ log' \in [Node -> Seq(Entry)]
           /\ staged' \in [Node -> Entry]
<1>1. /\ term' \in [Node -> Nat]
      /\ leader' \in [Node -> Node \cup {None}]
  BY DEF TypeOK, HeartbeatFollower, NewTerm
<1>2. status' \in [Node -> {"FOLLOWER", "CANDIDATE", "LEADER"}]
  BY DEF TypeOK, HeartbeatFollower
<1>3. timer' \in [Node -> BOOLEAN]
  BY DEF TypeOK, HeartbeatFollower
<1>4. /\ commitIdx' \in [Node -> Nat]
      /\ log' \in [Node -> Seq(Entry)]
      /\ staged' \in [Node -> Entry]
  <2>1. CASE Stages(f, m) /\ staged' = [staged EXCEPT ![f] = m.payload]
             /\ UNCHANGED <<commitIdx, log>>
    BY <2>1 DEF TypeOK
  <2>2. CASE Commit(f, IF staged[f] = None THEN m.payload ELSE staged[f])
    BY <2>2 DEF TypeOK, Commit, Entry
  <2>3. CASE UNCHANGED store
    BY <2>3 DEF TypeOK, store
  <2>4. QED
    BY <2>1, <2>2, <2>3 DEF HeartbeatFollower, FollowerStore
<1>5. QED
  BY <1>1, <1>2, <1>3, <1>4

\* The threads and messages the actions build are of the declared kinds.
LEMMA NewRecordTypes ==
    ASSUME TypeOK
    PROVE  /\ \A n \in Node : NewAsks(n) \subseteq Ask
           /\ \A n \in Node : NewBeats(n) \subseteq Beat
           /\ \A q \in Put, act \in {"log", "commit"} : NewSpread(q, act) \in Spread
           /\ \A b \in Beat : Looping(b) \in Beat
<1>1. ASSUME NEW n \in Node PROVE NewAsks(n) \subseteq Ask
  BY DEF TypeOK, NewAsks, Ask, Fellow
<1>2. ASSUME NEW n \in Node PROVE NewBeats(n) \subseteq Beat
  BY DEF TypeOK, NewBeats, Beat, Fellow
<1>3. ASSUME NEW q \in Put, NEW act \in {"log", "commit"} PROVE NewSpread(q, act) \in Spread
  BY DEF TypeOK, NewSpread, Spread, Put, Fellow
<1>4. ASSUME NEW b \in Beat PROVE Looping(b) \in Beat
  BY DEF TypeOK, Looping, Beat
<1>5. QED
  BY <1>1, <1>2, <1>3, <1>4

\* A message each sender builds meets the assumptions of HeartbeatFollowerType.
LEMMA MessageTypes ==
    ASSUME NoneAssumption
    PROVE  /\ \A b \in Beat : /\ BeatMsg(b).from \in Node /\ BeatMsg(b).term \in Nat
                              /\ BeatMsg(b).payload \in Entry
                              /\ CatchUpMsg(b).from \in Node /\ CatchUpMsg(b).term \in Nat
                              /\ CatchUpMsg(b).payload \in Entry
           /\ \A s \in Spread : /\ SpreadMsg(s).from \in Node /\ SpreadMsg(s).term \in Nat
                                /\ SpreadMsg(s).payload \in Entry
BY DEF BeatMsg, CatchUpMsg, SpreadMsg, Beat, Spread, Entry

\* A freshly started system has the types.
LEMMA InitType == Init => TypeOK
BY NoneAssumption DEF Init, TypeOK, Entry

\* The steps of an election keep the types.
LEMMA ElectionType == TypeOK /\ ElectionNext => TypeOK'
<1> SUFFICES ASSUME TypeOK, ElectionNext PROVE TypeOK'
  OBVIOUS
<1>0. \A a \in asks : /\ term[a.voter] \in Nat
                      /\ \A r \in Nat, ph \in {"ask", "yes", "no"} :
                           [a EXCEPT !.ph = ph, !.rterm = r] \in Ask
  BY DEF TypeOK, Ask
<1>1. ASSUME NEW n \in Node, StartElection(n) PROVE TypeOK'
  <2>1. asks' \subseteq Ask
    BY <1>1, NewRecordTypes DEF StartElection, TypeOK
  <2>2. QED
    BY <1>1, <2>1 DEF StartElection, TypeOK, store
<1>2. ASSUME NEW n \in Node, TimerEnds(n) PROVE TypeOK'
  BY <1>2 DEF TimerEnds, TypeOK, store, threads
<1>3. ASSUME NEW a \in asks, GrantVote(a) PROVE TypeOK'
  <2>1. asks' \subseteq Ask
    BY <1>3 DEF GrantVote, TypeOK, Ask
  <2>2. a.voter \in Node /\ a.cand \in Node /\ a.term \in Nat
    BY DEF TypeOK, Ask
  <2>3. term' \in [Node -> Nat] /\ ballots' \subseteq Node \X Nat \X Node
    <3>1. /\ term' = [term EXCEPT ![a.voter] = a.term]
          /\ ballots' = ballots \cup {<<a.voter, a.term, a.cand>>}
      BY <1>3 DEF GrantVote
    <3>2. term \in [Node -> Nat] /\ ballots \subseteq Node \X Nat \X Node
      BY DEF TypeOK
    <3>3. <<a.voter, a.term, a.cand>> \in Node \X Nat \X Node
      BY <2>2
    <3>4. term' \in [Node -> Nat]
      BY <2>2, <3>1, <3>2
    <3>5. ballots' \subseteq Node \X Nat \X Node
      BY <3>1, <3>2, <3>3
    <3>6. QED
      BY <3>4, <3>5
  <2>4. UNCHANGED <<status, voteCount, leader, timer, store, locked, beats, puts, spreads, reply, restarts>>
    BY <1>3 DEF GrantVote
  <2>5. QED
    BY <2>1, <2>3, <2>4 DEF TypeOK, store
<1>4. ASSUME NEW a \in asks, DeclineVote(a) PROVE TypeOK'
  <2>1. asks' \subseteq Ask
    BY <1>4, <1>0 DEF DeclineVote, TypeOK
  <2>2. UNCHANGED <<election, store, locked, beats, puts, spreads, reply, ballots, restarts>>
    BY <1>4 DEF DeclineVote
  <2>3. QED
    BY <2>1, <2>2 DEF TypeOK, election, store
<1>5. ASSUME NEW a \in asks, AnswerLost(a) PROVE TypeOK'
  <2>1. asks' \subseteq Ask
    BY <1>5, <1>0 DEF AnswerLost, TypeOK
  <2>2. QED
    BY <1>5, <2>1 DEF AnswerLost, TypeOK, election, store
<1>6. ASSUME NEW a \in asks, CountVote(a) PROVE TypeOK'
  <2>1. UNCHANGED <<term, status, leader, timer, store, locked, beats, puts, spreads, reply, ballots, restarts>>
    BY <1>6 DEF CountVote
  <2>2. a.cand \in Node
    BY DEF TypeOK, Ask
  <2>3. voteCount' \in [Node -> Nat] /\ asks' \subseteq Ask
    BY <1>6, <2>2 DEF CountVote, TypeOK
  <2>4. QED
    BY <2>1, <2>3 DEF TypeOK, store
<1>7. ASSUME NEW a \in asks, WinElection(a) PROVE TypeOK'
  <2> DEFINE n == a.cand
  <2>1. n \in Node
    BY DEF TypeOK, Ask
  <2>2. beats' \subseteq Beat /\ puts' \subseteq Put
    <3>1. CASE staged[n] = None
      BY <1>7, <2>1, <3>1, NewRecordTypes DEF WinElection, StartHeartBeat, TypeOK
    <3>2. CASE staged[n] # None
      BY <1>7, <2>1, <3>2 DEF WinElection, StartHeartBeat, TypeOK, Put, Entry
    <3>3. QED
      BY <3>1, <3>2
  <2>3. asks' \subseteq Ask /\ spreads' \subseteq Spread
    BY <1>7 DEF WinElection, TypeOK
  <2>4. QED
    BY <1>7, <2>1, <2>2, <2>3 DEF WinElection, TypeOK, store
<1>8. ASSUME NEW a \in asks, VoteDeclined(a) PROVE TypeOK'
  BY <1>8 DEF VoteDeclined, TypeOK, Ask, store
<1>9. QED
  BY <1>1, <1>2, <1>3, <1>4, <1>5, <1>6, <1>7, <1>8 DEF ElectionNext

\* The steps of the heartbeat threads keep the types.
LEMMA BeatType == TypeOK /\ BeatNext => TypeOK'
<1> SUFFICES ASSUME TypeOK, NEW b \in beats,
                    \/ SendFirst(b) \/ SendSecond(b) \/ SyncEnds(b) \/ SendBeat(b)
                    \/ BeatReply(b) \/ BeatReplyLost(b) \/ BeatEnds(b)
             PROVE  TypeOK'
  BY DEF BeatNext
<1>1. b \in Beat /\ b.from \in Node /\ b.to \in Node /\ b.rep \in Nat /\ b.term \in Nat
  BY DEF TypeOK, Beat
<1>2. /\ Looping(b) \in Beat
      /\ \A r \in Nat, ph \in {"first", "second", "loop", "reply"} :
           [b EXCEPT !.ph = ph, !.rep = r] \in Beat
  BY <1>1, NewRecordTypes DEF Beat
<1>3. CASE SendFirst(b)
  <2>1. beats' \subseteq Beat
    BY <1>1, <1>2, <1>3 DEF SendFirst, TypeOK
  <2>2. HeartbeatFollower(b.to, BeatMsg(b))
    BY <1>3 DEF SendFirst
  <2>3. QED
    BY <1>1, <1>3, <2>1, <2>2, HeartbeatFollowerType, MessageTypes, NoneAssumption
       DEF SendFirst, SameBeats, TypeOK
<1>4. CASE SendSecond(b)
  <2>1. beats' \subseteq Beat
    BY <1>1, <1>2, <1>4 DEF SendSecond, TypeOK
  <2>2. HeartbeatFollower(b.to, CatchUpMsg(b))
    BY <1>4 DEF SendSecond
  <2>3. QED
    BY <1>1, <1>4, <2>1, <2>2, HeartbeatFollowerType, MessageTypes, NoneAssumption
       DEF SendSecond, SameBeats, TypeOK
<1>5. CASE SyncEnds(b)
  BY <1>2, <1>5 DEF SyncEnds, SameBeats, TypeOK, store
<1>6. CASE SendBeat(b)
  <2>1. beats' \subseteq Beat
    BY <1>1, <1>2, <1>6 DEF SendBeat, TypeOK
  <2>2. HeartbeatFollower(b.to, BeatMsg(b))
    BY <1>6 DEF SendBeat
  <2>3. QED
    BY <1>1, <1>6, <2>1, <2>2, HeartbeatFollowerType, MessageTypes, NoneAssumption
       DEF SendBeat, SameBeats, TypeOK
<1>7. CASE BeatReply(b)
  <2>1. beats' \subseteq Beat
    BY <1>2, <1>7 DEF BeatReply, TypeOK
  <2>2. QED
    BY <1>1, <1>7, <2>1 DEF BeatReply, SameBeats, TypeOK, store
<1>8. CASE BeatReplyLost(b)
  BY <1>2, <1>8 DEF BeatReplyLost, SameBeats, TypeOK, store
<1>9. CASE BeatEnds(b)
  BY <1>9 DEF BeatEnds, SameBeats, TypeOK, store
<1>10. QED
  BY <1>3, <1>4, <1>5, <1>6, <1>7, <1>8, <1>9

\* A step of a handle_put call or a spread_update thread keeps the types.
LEMMA PutType == TypeOK /\ PutNext => TypeOK'
<1> SUFFICES ASSUME TypeOK, PutNext PROVE TypeOK'
  OBVIOUS
<1>1. ASSUME NEW n \in Node, NEW p \in Payload, ClientPut(n, p) PROVE TypeOK'
  <2>1. puts' \subseteq Put
    BY <1>1 DEF ClientPut, TypeOK, Put
  <2>2. QED
    BY <1>1, <2>1 DEF ClientPut, TypeOK, election, store
<1>2. ASSUME NEW q \in puts, PutStep(q) PROVE TypeOK'
  <2>1. q \in Put /\ q.node \in Node /\ q.payload \in Payload /\ q.born \in Nat
    BY DEF TypeOK, Put
  <2>2. \A act \in {"log", "commit"} : NewSpread(q, act) \in Spread
    BY <2>1, NewRecordTypes
  <2>3. CASE PutStart(q)
    <3>1. puts' \subseteq Put
      BY <2>1, <2>3 DEF PutStart, TypeOK, Put
    <3>2. spreads' \subseteq Spread
      BY <2>2, <2>3 DEF PutStart, TypeOK
    <3>3. staged' \in [Node -> Entry]
      BY <2>1, <2>3 DEF PutStart, TypeOK, Entry
    <3>4. QED
      BY <2>1, <2>3, <3>1, <3>2, <3>3 DEF PutStart, TypeOK, election
  <2>4. ASSUME NEW code \in {"ok", "fail"}, Answer(q, code),
               term' = term, log' \in [Node -> Seq(Entry)]
        PROVE  /\ beats' \subseteq Beat
               /\ reply' \in [Payload -> {"new", "open", "ok", "fail"}]
    <3>1. NewBeats(q.node)' \subseteq Beat
      BY <2>1, <2>4 DEF TypeOK, NewBeats, Beat, Fellow
    <3>2. QED
      BY <2>1, <2>4, <3>1 DEF Answer, TypeOK
  <2>5. ASSUME NEW e \in Entry, Commit(q.node, e)
        PROVE  /\ commitIdx' \in [Node -> Nat]
               /\ log' \in [Node -> Seq(Entry)]
               /\ staged' \in [Node -> Entry]
    BY <2>1, <2>5 DEF Commit, TypeOK, Entry
  <2>6. CASE PutCommit(q)
    <3>1. /\ Commit(q.node, staged[q.node]) /\ staged[q.node] \in Entry
          /\ Answer(q, "ok") /\ term' = term
      BY <2>1, <2>6 DEF PutCommit, TypeOK, election
    <3>2. spreads' \subseteq Spread /\ puts' \subseteq Put
      BY <2>2, <2>6 DEF PutCommit, TypeOK
    <3>3. log' \in [Node -> Seq(Entry)]
      BY <3>1, <2>5
    <3>4. beats' \subseteq Beat /\ reply' \in [Payload -> {"new", "open", "ok", "fail"}]
      BY <3>1, <3>3, <2>4
    <3>5. QED
      BY <2>5, <2>6, <3>1, <3>2, <3>4 DEF PutCommit, TypeOK, election
  <2>7. CASE PutRaises(q)
    <3>1. Commit(q.node, None) /\ None \in Entry
      BY <2>7 DEF PutRaises, Entry
    <3>2. QED
      BY <2>1, <2>5, <2>7, <3>1 DEF PutRaises, TypeOK, election
  <2>8. CASE PutRejected(q)
    <3>1. Answer(q, "fail") /\ term' = term /\ log' \in [Node -> Seq(Entry)]
      BY <2>8 DEF PutRejected, TypeOK, election, store
    <3>2. beats' \subseteq Beat /\ reply' \in [Payload -> {"new", "open", "ok", "fail"}]
      BY <3>1, <2>4
    <3>3. QED
      BY <2>1, <2>8, <3>2 DEF PutRejected, TypeOK, election, store
  <2>9. QED
    BY <1>2, <2>3, <2>6, <2>7, <2>8 DEF PutStep
<1>3. ASSUME NEW s \in spreads, SpreadStep(s) PROVE TypeOK'
  <2>1. s \in Spread
    BY DEF TypeOK
  <2>2. PICK f \in Node : SpreadDelivered(s, f) \/ SpreadLost(s, f)
    BY <1>3 DEF SpreadStep
  <2>3. SpreadNext(s, f)
    BY <2>2 DEF SpreadDelivered, SpreadLost
  <2>4. /\ spreads' \subseteq Spread
        /\ locked' \in [Node -> BOOLEAN]
    <3>1. [s EXCEPT !.todo = @ \ {f}] \in Spread /\ s.from \in Node
      BY <2>1 DEF Spread
    <3>2. spreads' \subseteq Spread
      BY <2>3, <3>1 DEF SpreadNext, TypeOK
    <3>3. locked' \in [Node -> BOOLEAN]
      BY <2>3, <3>1 DEF SpreadNext, TypeOK
    <3>4. QED
      BY <3>2, <3>3
  <2>5. CASE SpreadDelivered(s, f)
    <3>1. Confirms(s, f) \subseteq Put
      <4>1. \A q \in puts : q \in Put /\ [q EXCEPT !.ok = @ \cup {f}] \in Put
        BY <2>2 DEF TypeOK, Put
      <4>2. QED
        BY <4>1 DEF Confirms
    <3>2. puts' \subseteq Put
      BY <2>5, <3>1 DEF SpreadDelivered, TypeOK
    <3>3. HeartbeatFollower(f, SpreadMsg(s))
      BY <2>5 DEF SpreadDelivered
    <3>4. QED
      BY <2>1, <2>3, <2>4, <3>2, <3>3, HeartbeatFollowerType, MessageTypes, NoneAssumption
         DEF SpreadNext, TypeOK
  <2>6. CASE SpreadLost(s, f)
    BY <2>3, <2>4, <2>6 DEF SpreadLost, SpreadNext, TypeOK, store
  <2>7. QED
    BY <2>2, <2>5, <2>6
<1>4. QED
  BY <1>1, <1>2, <1>3 DEF PutNext

\* A restarted node has the types of a new one.
LEMMA RestartType == ASSUME NEW n \in Node PROVE TypeOK /\ Restart(n) => TypeOK'
<1> SUFFICES ASSUME TypeOK, Restart(n) PROVE TypeOK'
  OBVIOUS
<1>1. /\ term' \in [Node -> Nat]
      /\ status' \in [Node -> {"FOLLOWER", "CANDIDATE", "LEADER"}]
      /\ voteCount' \in [Node -> Nat]
      /\ leader' \in [Node -> Node \cup {None}]
  <2>1. term' \in [Node -> Nat] /\ voteCount' \in [Node -> Nat]
    BY DEF Restart, TypeOK
  <2>2. status' \in [Node -> {"FOLLOWER", "CANDIDATE", "LEADER"}]
    BY DEF Restart, TypeOK
  <2>3. leader' \in [Node -> Node \cup {None}]
    BY DEF Restart, TypeOK
  <2>4. QED
    BY <2>1, <2>2, <2>3
<1>a. timer' \in [Node -> BOOLEAN] /\ locked' \in [Node -> BOOLEAN]
  BY DEF Restart, TypeOK
<1>b. restarts' \in Nat /\ ballots' \subseteq Node \X Nat \X Node
  BY DEF Restart, TypeOK
<1>2. /\ commitIdx' \in [Node -> Nat]
      /\ log' \in [Node -> Seq(Entry)]
      /\ staged' \in [Node -> Entry]
  BY DEF Restart, TypeOK, Entry
<1>3. asks' \subseteq Ask /\ beats' \subseteq Beat /\ puts' \subseteq Put /\ spreads' \subseteq Spread
  BY DEF Restart, TypeOK
<1>4. reply' \in [Payload -> {"new", "open", "ok", "fail"}]
  BY DEF Restart, TypeOK
<1>5. QED
  BY <1>1, <1>a, <1>b, <1>2, <1>3, <1>4 DEF TypeOK

\* THE TYPES: every reachable state has them, crashes included.
THEOREM TypeCorrect == CrashSpec => []TypeOK
<1>1. Init => TypeOK
  BY InitType
<1>2. TypeOK /\ [Next \/ Crash]_vars => TypeOK'
  <2>1. TypeOK /\ UNCHANGED vars => TypeOK'
    BY DEF TypeOK, vars, election, store, threads
  <2>2. QED
    BY <2>1, ElectionType, BeatType, PutType, RestartType DEF Next, Crash
<1>3. QED
  BY <1>1, <1>2, PTL DEF CrashSpec

-----------------------------------------------------------------------------
(* Terms and votes of nodes that stay up. *)

\* heartbeat_follower moves no node back to an earlier term.
LEMMA HeartbeatFollowerTerm ==
    ASSUME TypeOK, NEW f \in Node, NEW m, m.term \in Nat, HeartbeatFollower(f, m)
    PROVE  \A n \in Node : term[n] <= term'[n]
BY DEF HeartbeatFollower, NewTerm, Accepts, TypeOK

\* No step moves a node back to an earlier term.
LEMMA TermStep == TypeOK /\ [Next]_vars => \A n \in Node : term[n] <= term'[n]
<1> SUFFICES ASSUME TypeOK, [Next]_vars PROVE \A n \in Node : term[n] <= term'[n]
  OBVIOUS
<1>1. term \in [Node -> Nat]
  BY DEF TypeOK
<1>2. CASE ElectionNext
  <2>1. ASSUME NEW n \in Node, StartElection(n) PROVE \A m \in Node : term[m] <= term'[m]
    BY <1>1, <2>1 DEF StartElection
  <2>2. ASSUME NEW a \in asks, GrantVote(a) PROVE \A m \in Node : term[m] <= term'[m]
    BY <1>1, <2>2 DEF GrantVote, WouldGrant, TypeOK, Ask
  <2>3. ASSUME NEW a \in asks, VoteDeclined(a) PROVE \A m \in Node : term[m] <= term'[m]
    BY <1>1, <2>3 DEF VoteDeclined, TypeOK, Ask
  <2>4. ASSUME term' = term PROVE \A m \in Node : term[m] <= term'[m]
    BY <1>1, <2>4
  <2>5. QED
    BY <1>2, <2>1, <2>2, <2>3, <2>4 DEF ElectionNext, TimerEnds, DeclineVote, AnswerLost,
       CountVote, WinElection, election
<1>3. CASE BeatNext
  <2>1. PICK b \in beats : \/ SendFirst(b) \/ SendSecond(b) \/ SyncEnds(b) \/ SendBeat(b)
                           \/ BeatReply(b) \/ BeatReplyLost(b) \/ BeatEnds(b)
    BY <1>3 DEF BeatNext
  <2>2. b \in Beat /\ b.to \in Node /\ BeatMsg(b).term \in Nat /\ CatchUpMsg(b).term \in Nat
    BY MessageTypes, NoneAssumption DEF TypeOK, Beat
  <2>3. CASE SendFirst(b) \/ SendSecond(b) \/ SendBeat(b)
    BY <2>2, <2>3, HeartbeatFollowerTerm DEF SendFirst, SendSecond, SendBeat
  <2>4. CASE BeatReply(b)
    BY <1>1, <2>2, <2>4 DEF BeatReply, Beat
  <2>5. CASE SyncEnds(b) \/ BeatReplyLost(b) \/ BeatEnds(b)
    BY <1>1, <2>5 DEF SyncEnds, BeatReplyLost, BeatEnds
  <2>6. QED
    BY <2>1, <2>3, <2>4, <2>5
<1>4. CASE PutNext
  <2>1. CASE \E n \in Node, p \in Payload : ClientPut(n, p)
    BY <1>1, <2>1 DEF ClientPut, election
  <2>2. CASE \E q \in puts : PutStep(q)
    BY <1>1, <2>2 DEF PutStep, PutStart, PutCommit, PutRaises, PutRejected, election
  <2>3. CASE \E s \in spreads : SpreadStep(s)
    <3>1. PICK s \in spreads, f \in Node : SpreadDelivered(s, f) \/ SpreadLost(s, f)
      BY <2>3 DEF SpreadStep
    <3>2. SpreadMsg(s).term \in Nat
      BY MessageTypes, NoneAssumption DEF TypeOK
    <3>3. CASE SpreadDelivered(s, f)
      BY <3>2, <3>3, HeartbeatFollowerTerm DEF SpreadDelivered
    <3>4. CASE SpreadLost(s, f)
      BY <1>1, <3>4 DEF SpreadLost
    <3>5. QED
      BY <3>1, <3>3, <3>4
  <2>4. QED
    BY <1>4, <2>1, <2>2, <2>3 DEF PutNext
<1>5. CASE UNCHANGED vars
  BY <1>1, <1>5 DEF vars, election
<1>6. QED
  BY <1>2, <1>3, <1>4, <1>5 DEF Next

\* Type correctness of nodes that stay up is the special case without crashes.
LEMMA SpecType == Spec => []TypeOK
<1>1. [Next]_vars => [Next \/ Crash]_vars
  OBVIOUS
<1>2. QED
  BY <1>1, TypeCorrect, PTL DEF Spec, CrashSpec

\* TERMS: a node that stays up never moves back to an earlier term.
THEOREM TermsGrow == Spec => TermNeverDecreases
<1>1. TypeOK /\ [Next]_vars => [\A n \in Node : term[n] <= term'[n]]_vars
  BY TermStep
<1>2. QED
  BY <1>1, SpecType, PTL DEF Spec, TermNeverDecreases

\* Votes are given by startElection, to itself, and by decide_vote only.
LEMMA BallotStep ==
    ASSUME [Next]_vars
    PROVE  \/ \E n \in Node : StartElection(n)
           \/ \E a \in asks : GrantVote(a)
           \/ ballots' = ballots
<1>1. CASE ElectionNext
  BY <1>1 DEF ElectionNext, TimerEnds, DeclineVote, AnswerLost, CountVote, WinElection,
     VoteDeclined
<1>2. CASE BeatNext
  BY <1>2 DEF BeatNext, SendFirst, SendSecond, SyncEnds, SendBeat, BeatReply,
     BeatReplyLost, BeatEnds, SameBeats
<1>3. CASE PutNext
  BY <1>3 DEF PutNext, ClientPut, PutStep, PutStart, PutCommit, PutRaises, PutRejected,
     SpreadStep, SpreadDelivered, SpreadLost, SpreadNext
<1>4. CASE UNCHANGED vars
  BY <1>4 DEF vars
<1>5. QED
  BY <1>1, <1>2, <1>3, <1>4 DEF Next

\* Why a node votes once: no vote is for a term beyond the voter's own, and
\* it votes for terms beyond its own only.
BallotsBehindTerm == \A b \in ballots : b[2] <= term[b[1]]
VoteInv == BallotsBehindTerm /\ VoteOnce

\* The inductive invariant of the votes holds of nodes that stay up.
LEMMA VoteInvariant == Spec => []VoteInv
<1>1. Init => VoteInv
  BY DEF Init, VoteInv, BallotsBehindTerm, VoteOnce
<1>2. TypeOK /\ VoteInv /\ [Next]_vars => VoteInv'
  <2> SUFFICES ASSUME TypeOK, VoteInv, [Next]_vars PROVE VoteInv'
    OBVIOUS
  <2>1. /\ \A n \in Node : term[n] \in Nat /\ term'[n] \in Nat /\ term[n] <= term'[n]
        /\ \A b \in ballots : b[1] \in Node /\ b[2] \in Nat
    <3>1. TypeOK'
      BY ElectionType, BeatType, PutType DEF Next, TypeOK, vars, election, store, threads
    <3>2. QED
      BY <3>1, TermStep DEF TypeOK
  <2>2. CASE ballots' = ballots
    BY <2>1, <2>2 DEF VoteInv, BallotsBehindTerm, VoteOnce
  <2>3. ASSUME NEW v \in Node, NEW t \in Nat, NEW c \in Node,
               term[v] < t, term'[v] = t, ballots' = ballots \cup {<<v, t, c>>}
        PROVE  VoteInv'
    <3>1. BallotsBehindTerm'
      BY <2>1, <2>3 DEF VoteInv, BallotsBehindTerm
    <3>2. \A b \in ballots : b[1] = v => b[2] # t
      BY <2>1, <2>3 DEF VoteInv, BallotsBehindTerm
    <3>3. VoteOnce'
      BY <2>3, <3>2 DEF VoteInv, VoteOnce
    <3>4. QED
      BY <3>1, <3>3 DEF VoteInv
  <2>4. ASSUME NEW n \in Node, StartElection(n) PROVE VoteInv'
    <3>1. /\ term[n] < term[n] + 1 /\ term[n] + 1 \in Nat /\ term'[n] = term[n] + 1
          /\ ballots' = ballots \cup {<<n, term[n] + 1, n>>}
      BY <2>1, <2>4 DEF StartElection, TypeOK
    <3>2. QED
      BY <2>3, <3>1
  <2>5. ASSUME NEW a \in asks, GrantVote(a) PROVE VoteInv'
    <3>1. a.voter \in Node /\ a.cand \in Node /\ a.term \in Nat
      BY DEF TypeOK, Ask
    <3>2. QED
      BY <2>3, <2>5, <3>1 DEF GrantVote, WouldGrant, TypeOK
  <2>6. QED
    BY <2>2, <2>4, <2>5, BallotStep
<1>3. QED
  BY <1>1, <1>2, SpecType, PTL DEF Spec

\* VOTES: a node that stays up votes for one candidate per term.
THEOREM VotesOnce == Spec => []VoteOnce
<1>1. VoteInv => VoteOnce
  BY DEF VoteInv
<1>2. QED
  BY <1>1, VoteInvariant, PTL

\* Two majorities of one term share a voter, who voted once.
LEMMA MajoritiesAgree == TypeOK /\ VoteOnce => OneMajorityPerTerm
<1> SUFFICES ASSUME TypeOK, VoteOnce,
                    NEW t, NEW c \in Node, NEW d \in Node,
                    IsMajority(Voters(t, c)), IsMajority(Voters(t, d))
             PROVE  c = d
  BY DEF OneMajorityPerTerm
<1>1. Voters(t, c) \subseteq Node /\ Voters(t, d) \subseteq Node
  BY DEF Voters
<1>2. PICK v : v \in Voters(t, c) \cap Voters(t, d)
  <2>1. /\ Cardinality(Node) \in Nat
        /\ Cardinality(Voters(t, c)) \in Nat /\ Cardinality(Voters(t, d)) \in Nat
    BY <1>1, FS_CardinalityType, FS_Subset, NodeAssumption
  <2>2. Cardinality(Voters(t, c)) + Cardinality(Voters(t, d)) > Cardinality(Node)
    BY <2>1 DEF IsMajority
  <2>3. QED
    BY <1>1, <2>2, FS_MajoritiesIntersect, NodeAssumption
<1>3. QED
  BY <1>2 DEF Voters, VoteOnce

\* ELECTIONS: no two candidates have the votes of a majority in one term.
THEOREM MajorityUnique == Spec => []OneMajorityPerTerm
BY SpecType, VotesOnce, MajoritiesAgree, PTL

-----------------------------------------------------------------------------
(* The lock, crashes included. *)

\* What OneWriter says of one node.
WriterOK(n) ==
    /\ \A x, y \in Waiting(n) : x = y
    /\ \A x, y \in Committing(n) : x = y
    /\ Waiting(n) = {} \/ Committing(n) = {}
    /\ Waiting(n) \cup Committing(n) # {} => locked[n]

\* The steps of elections and heartbeats start handle_put at most, and a new
\* call waits for the lock.
LEMMA ElectionKeepsWriters ==
    ASSUME TypeOK, OneWriter, ElectionNext \/ BeatNext
    PROVE  OneWriter'
<1>1. spreads' = spreads /\ locked' = locked
  <2>1. CASE ElectionNext
    BY <2>1 DEF ElectionNext, StartElection, TimerEnds, GrantVote, DeclineVote, AnswerLost,
       CountVote, WinElection, VoteDeclined, threads
  <2>2. CASE BeatNext
    BY <2>2 DEF BeatNext, SendFirst, SendSecond, SyncEnds, SendBeat, BeatReply,
       BeatReplyLost, BeatEnds, SameBeats
  <2>3. QED
    BY <2>1, <2>2
<1>2. \A q \in puts' : q.ph = "wait" => q \in puts
  <2>1. CASE ElectionNext
    <3>1. ASSUME NEW a \in asks, WinElection(a)
          PROVE  \A q \in puts' : q.ph = "wait" => q \in puts
      <4>1. \/ puts' = puts
            \/ \E r : r.ph = "lock" /\ puts' = puts \cup {r}
        BY <3>1 DEF WinElection, StartHeartBeat
      <4>2. QED
        BY <4>1
    <3>2. QED
      BY <2>1, <3>1 DEF ElectionNext, StartElection, TimerEnds, GrantVote, DeclineVote,
         AnswerLost, CountVote, VoteDeclined, threads
  <2>2. CASE BeatNext
    BY <2>2 DEF BeatNext, SendFirst, SendSecond, SyncEnds, SendBeat, BeatReply,
       BeatReplyLost, BeatEnds, SameBeats
  <2>3. QED
    BY <2>1, <2>2
<1>3. ASSUME NEW n \in Node
      PROVE  Waiting(n)' \subseteq Waiting(n) /\ Committing(n)' = Committing(n)
  BY <1>1, <1>2 DEF Waiting, Committing
<1>4. QED
  BY <1>1, <1>3 DEF OneWriter

\* A step of handle_put or spread_update keeps the lock discipline.
LEMMA PutKeepsWriters ==
    ASSUME TypeOK, OneWriter, PutNext
    PROVE  OneWriter'
<1> USE DEF WriterOK
<1>1. OneWriter <=> \A n \in Node : WriterOK(n)
  BY DEF OneWriter
<1>2. OneWriter' <=> \A n \in Node : WriterOK(n)'
  BY DEF OneWriter
<1>3. ASSUME NEW n \in Node, NEW p \in Payload, ClientPut(n, p) PROVE OneWriter'
  <2>1. ASSUME NEW m \in Node
        PROVE  Waiting(m)' = Waiting(m) /\ Committing(m)' = Committing(m)
    BY <1>3 DEF ClientPut, Waiting, Committing
  <2>2. QED
    BY <1>1, <1>2, <1>3, <2>1 DEF ClientPut
<1>4. ASSUME NEW q \in puts, PutStep(q) PROVE OneWriter'
  <2>1. q.node \in Node /\ q.ph \in {"lock", "wait"}
    BY DEF TypeOK, Put
  <2>2. ASSUME NEW m \in Node, m # q.node PROVE WriterOK(m)'
    <3>1. locked'[m] = locked[m]
      BY <1>4, <2>1, <2>2 DEF PutStep, PutStart, PutCommit, PutRaises, PutRejected, TypeOK
    <3>2. Waiting(m)' = Waiting(m)
      <4>1. \/ puts' = puts \ {q}
            \/ puts' = (puts \ {q}) \cup {[q EXCEPT !.ph = "wait"]}
        BY <1>4 DEF PutStep, PutStart, PutCommit, PutRaises, PutRejected
      <4>2. [q EXCEPT !.ph = "wait"].node = q.node
        BY DEF TypeOK, Put
      <4>3. QED
        BY <2>2, <4>1, <4>2 DEF Waiting
    <3>3. Committing(m)' = Committing(m)
      BY <1>4, <2>1, <2>2 DEF PutStep, PutStart, PutCommit, PutRaises, PutRejected,
         Committing, NewSpread
    <3>4. QED
      BY <1>1, <3>1, <3>2, <3>3
  <2>3. CASE PutStart(q)
    <3>1. Waiting(q.node) = {} /\ Committing(q.node) = {}
      BY <1>1, <2>1, <2>3 DEF PutStart, LockFree
    <3>2. locked'[q.node]
      BY <2>1, <2>3 DEF PutStart, TypeOK
    <3>3. Committing(q.node)' = {}
      BY <2>3, <3>1 DEF PutStart, Committing, NewSpread
    <3>4. Waiting(q.node)' \subseteq {[q EXCEPT !.ph = "wait"]}
      BY <2>3, <3>1 DEF PutStart, Waiting
    <3>5. QED
      BY <1>2, <2>2, <3>2, <3>3, <3>4
  <2>4. ASSUME q.ph = "wait", puts' = puts \ {q}
        PROVE  Waiting(q.node)' = {} /\ Committing(q.node) = {} /\ locked[q.node]
    <3>1. q \in Waiting(q.node)
      BY <2>4 DEF Waiting
    <3>2. \A x \in Waiting(q.node) : x = q
      BY <1>1, <2>1, <3>1
    <3>3. Waiting(q.node)' = {}
      BY <2>4, <3>2 DEF Waiting
    <3>4. QED
      BY <1>1, <2>1, <3>1, <3>3
  <2>5. CASE PutCommit(q)
    <3>1. /\ Waiting(q.node)' = {} /\ Committing(q.node) = {} /\ locked[q.node]
          /\ locked' = locked
      BY <2>4, <2>5 DEF PutCommit
    <3>2. Committing(q.node)' \subseteq {NewSpread(q, "commit")}
      BY <2>5, <3>1 DEF PutCommit, Committing
    <3>3. QED
      BY <1>2, <2>2, <3>1, <3>2
  <2>6. CASE PutRaises(q) \/ PutRejected(q)
    <3>1. Waiting(q.node)' = {} /\ Committing(q.node) = {} /\ spreads' = spreads
      BY <2>4, <2>6 DEF PutRaises, PutRejected
    <3>2. Committing(q.node)' = {}
      BY <3>1 DEF Committing
    <3>3. QED
      BY <1>2, <2>2, <3>1, <3>2
  <2>7. QED
    BY <1>4, <2>3, <2>5, <2>6 DEF PutStep
<1>5. ASSUME NEW s \in spreads, SpreadStep(s) PROVE OneWriter'
  <2>1. s.from \in Node
    BY DEF TypeOK, Spread
  <2>2. PICK f \in Node : SpreadDelivered(s, f) \/ SpreadLost(s, f)
    BY <1>5 DEF SpreadStep
  <2>3. SpreadNext(s, f) /\ f \in s.todo
    BY <2>2 DEF SpreadDelivered, SpreadLost
  <2>4. puts' = puts \/ puts' = Confirms(s, f)
    BY <2>2 DEF SpreadDelivered, SpreadLost
  <2>5. ASSUME NEW m \in Node
        PROVE  /\ Waiting(m) = {} => Waiting(m)' = {}
               /\ Waiting(m)' # {} => Waiting(m) # {}
               /\ (\A x, y \in Waiting(m) : x = y) => \A x, y \in Waiting(m)' : x = y
    <3>1. CASE puts' = puts
      BY <3>1 DEF Waiting
    <3>2. CASE puts' = Confirms(s, f)
      <4> DEFINE Confirmed1(q) == IF /\ q.node = s.from /\ q.payload = s.payload /\ q.born = s.born
                                     /\ q.ph = "wait" /\ s.action = "log"
                                  THEN [q EXCEPT !.ok = @ \cup {f}] ELSE q
      <4>1. \A x \in Waiting(m)' : \E q \in Waiting(m) : x = Confirmed1(q)
        <5>1. \A q \in puts : Confirmed1(q).node = q.node /\ Confirmed1(q).ph = q.ph
          BY DEF TypeOK, Put
        <5>2. puts' = {Confirmed1(q) : q \in puts}
          BY <3>2 DEF Confirms
        <5>3. QED
          BY <5>1, <5>2 DEF Waiting
      <4>2. QED
        BY <4>1
    <3>3. QED
      BY <2>4, <3>1, <3>2
  <2>6. ASSUME NEW m \in Node, m # s.from PROVE WriterOK(m)'
    <3>1. Committing(m)' = Committing(m)
      BY <2>3, <2>6 DEF SpreadNext, Committing, TypeOK, Spread
    <3>2. locked'[m] = locked[m]
      BY <2>1, <2>3, <2>6 DEF SpreadNext, TypeOK
    <3>3. QED
      BY <1>1, <2>5, <3>1, <3>2
  <2>7. CASE s.action = "log"
    <3>1. Committing(s.from)' = Committing(s.from)
      BY <2>3, <2>7 DEF SpreadNext, Committing, TypeOK, Spread
    <3>2. locked'[s.from] = locked[s.from]
      BY <2>1, <2>3, <2>7 DEF SpreadNext, Releases, TypeOK
    <3>3. QED
      BY <1>1, <1>2, <2>1, <2>5, <2>6, <3>1, <3>2
  <2>8. CASE s.action = "commit"
    <3>1. s \in Committing(s.from)
      BY <2>8 DEF Committing
    <3>2. /\ \A x \in Committing(s.from) : x = s
          /\ Waiting(s.from) = {} /\ locked[s.from]
      BY <1>1, <2>1, <3>1
    <3>3. Waiting(s.from)' = {}
      BY <2>1, <2>5, <3>2
    <3>4. CASE s.todo = {f}
      <4>1. Committing(s.from)' = {}
        BY <2>3, <3>2, <3>4 DEF SpreadNext, Committing
      <4>2. QED
        BY <1>2, <2>6, <3>3, <4>1
    <3>5. CASE s.todo # {f}
      <4>1. Committing(s.from)' \subseteq {[s EXCEPT !.todo = @ \ {f}]}
        BY <2>3, <3>2, <3>5 DEF SpreadNext, Committing
      <4>2. locked'[s.from]
        BY <2>1, <2>3, <3>2, <3>5 DEF SpreadNext, Releases, TypeOK
      <4>3. WriterOK(s.from)'
        BY <3>3, <4>1, <4>2
      <4>4. QED
        BY <1>2, <2>6, <4>3
    <3>6. QED
      BY <3>4, <3>5
  <2>9. QED
    BY <2>7, <2>8 DEF TypeOK, Spread
<1>6. QED
  BY <1>3, <1>4, <1>5 DEF PutNext

\* A restarted node holds no lock and writes nothing.
LEMMA RestartKeepsWriters ==
    ASSUME TypeOK, OneWriter, NEW n \in Node, Restart(n)
    PROVE  OneWriter'
<1>1. Waiting(n)' = {} /\ Committing(n)' = {}
  BY DEF Restart, Waiting, Committing
<1>2. ASSUME NEW m \in Node, m # n
      PROVE  /\ Waiting(m)' = Waiting(m) /\ Committing(m)' = Committing(m)
             /\ locked'[m] = locked[m]
  BY <1>2 DEF Restart, Waiting, Committing, TypeOK
<1>3. QED
  BY <1>1, <1>2 DEF OneWriter

\* THE LOCK: a node works on one write at a time, from staging it to its last
\* commit message, and holds the lock meanwhile; crashes included.
THEOREM WritersExclude == CrashSpec => []OneWriter
<1>1. Init => OneWriter
  BY DEF Init, OneWriter, Waiting, Committing
<1>2. TypeOK /\ OneWriter /\ [Next \/ Crash]_vars => OneWriter'
  <2>1. OneWriter /\ UNCHANGED vars => OneWriter'
    BY DEF OneWriter, Waiting, Committing, vars, threads
  <2>2. QED
    BY <2>1, ElectionKeepsWriters, PutKeepsWriters, RestartKeepsWriters DEF Next, Crash
<1>3. QED
  BY <1>1, <1>2, TypeCorrect, PTL DEF CrashSpec

-----------------------------------------------------------------------------
(* Who fills the log, crashes included. *)

\* heartbeat_follower commits nothing, or what a commit message with a
\* commitIdx that is not behind the follower's asks for.
LEMMA FollowerCommit ==
    ASSUME TypeOK, NEW f \in Node, NEW m, HeartbeatFollower(f, m)
    PROVE  \/ commitIdx' = commitIdx
           \/ /\ m.action = "commit" /\ commitIdx[f] <= m.ci
              /\ commitIdx' = [commitIdx EXCEPT ![f] = @ + 1]
BY DEF HeartbeatFollower, FollowerStore, Commits, Commit, store

\* A commit index grows by one, in a confirmed handle_put or in a follower
\* that gets a commit message in time; the catch-up message commits nothing.
LEMMA CommitIdxStep ==
    ASSUME TypeOK, [Next]_vars
    PROVE  \/ commitIdx' = commitIdx
           \/ \E q \in puts \ puts' :
                /\ q.ph = "wait" /\ Confirmed(q)
                /\ commitIdx' = [commitIdx EXCEPT ![q.node] = @ + 1]
           \/ \E s \in spreads, f \in Node :
                /\ s.action = "commit" /\ commitIdx[f] <= s.ci
                /\ commitIdx' = [commitIdx EXCEPT ![f] = @ + 1]
<1>1. CASE ElectionNext
  BY <1>1 DEF ElectionNext, StartElection, TimerEnds, GrantVote, DeclineVote, AnswerLost,
     CountVote, WinElection, VoteDeclined, store
<1>2. CASE BeatNext
  <2>1. PICK b \in beats : \/ SendFirst(b) \/ SendSecond(b) \/ SyncEnds(b) \/ SendBeat(b)
                           \/ BeatReply(b) \/ BeatReplyLost(b) \/ BeatEnds(b)
    BY <1>2 DEF BeatNext
  <2>2. b.to \in Node /\ commitIdx[b.to] \in Nat
    BY DEF TypeOK, Beat
  <2>3. CASE SendFirst(b) \/ SendBeat(b)
    <3>1. HeartbeatFollower(b.to, BeatMsg(b)) /\ BeatMsg(b).action = "beat"
      BY <2>3 DEF SendFirst, SendBeat, BeatMsg
    <3>2. QED
      BY <2>2, <3>1, FollowerCommit
  <2>4. CASE SendSecond(b)
    <3>1. HeartbeatFollower(b.to, CatchUpMsg(b)) /\ CatchUpMsg(b).ci = -1
      BY <2>4 DEF SendSecond, CatchUpMsg, BeatMsg
    <3>2. QED
      BY <2>2, <3>1, FollowerCommit
  <2>5. CASE SyncEnds(b) \/ BeatReply(b) \/ BeatReplyLost(b) \/ BeatEnds(b)
    BY <2>5 DEF SyncEnds, BeatReply, BeatReplyLost, BeatEnds, store
  <2>6. QED
    BY <2>1, <2>3, <2>4, <2>5
<1>3. CASE PutNext
  <2>1. CASE \E n \in Node, p \in Payload : ClientPut(n, p)
    BY <2>1 DEF ClientPut, store
  <2>2. ASSUME NEW q \in puts, PutStep(q)
        PROVE  \/ commitIdx' = commitIdx
               \/ /\ q \notin puts' /\ q.ph = "wait" /\ Confirmed(q)
                  /\ commitIdx' = [commitIdx EXCEPT ![q.node] = @ + 1]
    BY <2>2 DEF PutStep, PutStart, PutCommit, PutRaises, PutRejected, Commit, store
  <2>3. ASSUME NEW s \in spreads, NEW f \in Node, SpreadDelivered(s, f)
        PROVE  \/ commitIdx' = commitIdx
               \/ /\ s.action = "commit" /\ commitIdx[f] <= s.ci
                  /\ commitIdx' = [commitIdx EXCEPT ![f] = @ + 1]
    <3>1. /\ HeartbeatFollower(f, SpreadMsg(s))
          /\ SpreadMsg(s).action = s.action /\ SpreadMsg(s).ci = s.ci
      BY <2>3 DEF SpreadDelivered, SpreadMsg
    <3>2. QED
      BY <3>1, FollowerCommit
  <2>4. ASSUME NEW s \in spreads, NEW f \in Node, SpreadLost(s, f)
        PROVE  commitIdx' = commitIdx
    BY <2>4 DEF SpreadLost, store
  <2>5. QED
    BY <1>3, <2>1, <2>2, <2>3, <2>4 DEF PutNext, SpreadStep
<1>4. CASE UNCHANGED vars
  BY <1>4 DEF vars, store
<1>5. QED
  BY <1>1, <1>2, <1>3, <1>4 DEF Next

\* A commit thread is an old one, with fewer calls to go, or a new one whose
\* node commits in this step.
LEMMA CommitThreadStep ==
    ASSUME TypeOK, [Next]_vars, NEW s \in spreads', s.action = "commit"
    PROVE  \/ \E r \in spreads : r.action = "commit" /\ r.from = s.from /\ r.ci = s.ci
           \/ /\ s.from \in Node /\ s.ci = commitIdx[s.from]
              /\ commitIdx'[s.from] = commitIdx[s.from] + 1
<1>1. CASE spreads' = spreads
  BY <1>1
<1>2. ASSUME NEW q \in puts, PutStart(q) PROVE s \in spreads
  <2>1. spreads' = spreads \cup {NewSpread(q, "log")} /\ NewSpread(q, "log").action = "log"
    BY <1>2 DEF PutStart, NewSpread
  <2>2. QED
    BY <2>1
<1>3. ASSUME NEW q \in puts, PutCommit(q)
      PROVE  \/ s \in spreads
             \/ /\ s.from \in Node /\ s.ci = commitIdx[s.from]
                /\ commitIdx'[s.from] = commitIdx[s.from] + 1
  <2>1. q.node \in Node /\ commitIdx'[q.node] = commitIdx[q.node] + 1
    BY <1>3 DEF PutCommit, Commit, TypeOK, Put
  <2>2. spreads' = spreads \cup {NewSpread(q, "commit")}
    BY <1>3 DEF PutCommit
  <2>3. NewSpread(q, "commit").from = q.node /\ NewSpread(q, "commit").ci = commitIdx[q.node]
    BY DEF NewSpread
  <2>4. QED
    BY <2>1, <2>2, <2>3
<1>4. ASSUME NEW r \in spreads, NEW f \in Node, SpreadNext(r, f)
      PROVE  \E x \in spreads : x.action = "commit" /\ x.from = s.from /\ x.ci = s.ci
  <2>1. s \in spreads \/ s = [r EXCEPT !.todo = @ \ {f}]
    BY <1>4 DEF SpreadNext
  <2>2. r \in Spread
    BY DEF TypeOK
  <2>3. [r EXCEPT !.todo = @ \ {f}].action = r.action
        /\ [r EXCEPT !.todo = @ \ {f}].from = r.from
        /\ [r EXCEPT !.todo = @ \ {f}].ci = r.ci
    BY <2>2 DEF Spread
  <2>4. QED
    BY <2>1, <2>3
<1>5. CASE ElectionNext
  BY <1>1, <1>5 DEF ElectionNext, StartElection, TimerEnds, GrantVote, DeclineVote,
     AnswerLost, CountVote, WinElection, VoteDeclined, threads
<1>6. CASE BeatNext
  BY <1>1, <1>6 DEF BeatNext, SendFirst, SendSecond, SyncEnds, SendBeat, BeatReply,
     BeatReplyLost, BeatEnds, SameBeats
<1>7. CASE PutNext
  <2>1. CASE \E n \in Node, p \in Payload : ClientPut(n, p)
    BY <1>1, <2>1 DEF ClientPut
  <2>2. ASSUME NEW q \in puts, PutRaises(q) \/ PutRejected(q) PROVE spreads' = spreads
    BY <2>2 DEF PutRaises, PutRejected
  <2>3. CASE \E q \in puts : PutStep(q)
    BY <1>1, <1>2, <1>3, <2>2, <2>3 DEF PutStep
  <2>4. CASE \E r \in spreads : SpreadStep(r)
    BY <1>4, <2>4 DEF SpreadStep, SpreadDelivered, SpreadLost
  <2>5. QED
    BY <1>7, <2>1, <2>3, <2>4 DEF PutNext
<1>8. CASE UNCHANGED vars
  BY <1>1, <1>8 DEF vars, threads
<1>9. QED
  BY <1>5, <1>6, <1>7, <1>8 DEF Next

\* COMMIT MESSAGES: every commit message in the making comes from a node that
\* has itself committed at the index it names; crashes included.
THEOREM CommitsFollowCommits == CrashSpec => []CommitSentAfterCommit
<1>1. Init => CommitSentAfterCommit
  BY DEF Init, CommitSentAfterCommit
<1>2. TypeOK /\ CommitSentAfterCommit /\ [Next]_vars => CommitSentAfterCommit'
  <2> SUFFICES ASSUME TypeOK, CommitSentAfterCommit, [Next]_vars,
                      NEW s \in spreads', s.action = "commit"
               PROVE  s.ci < commitIdx'[s.from]
    BY DEF CommitSentAfterCommit
  <2>1. \A n \in Node : /\ commitIdx[n] \in Nat
                        /\ commitIdx'[n] = commitIdx[n] \/ commitIdx'[n] = commitIdx[n] + 1
    BY CommitIdxStep DEF TypeOK, Put
  <2>2. \A r \in spreads : r.from \in Node /\ r.ci \in Nat
    BY DEF TypeOK, Spread
  <2>3. QED
    BY <2>1, <2>2, CommitThreadStep DEF CommitSentAfterCommit
<1>3. TypeOK /\ CommitSentAfterCommit /\ Crash => CommitSentAfterCommit'
  <2> SUFFICES ASSUME TypeOK, CommitSentAfterCommit, NEW n \in Node, Restart(n),
                      NEW s \in spreads', s.action = "commit"
               PROVE  s.ci < commitIdx'[s.from]
    BY DEF CommitSentAfterCommit, Crash
  <2>1. s \in spreads /\ s.from # n /\ s.from \in Node
    BY DEF Restart, TypeOK, Spread
  <2>2. commitIdx'[s.from] = commitIdx[s.from]
    BY <2>1 DEF Restart, TypeOK
  <2>3. QED
    BY <2>1, <2>2 DEF CommitSentAfterCommit
<1>4. QED
  BY <1>1, <1>2, <1>3, TypeCorrect, PTL DEF CrashSpec

\* NEW LOG POSITIONS: no follower runs ahead of the nodes it follows; crashes
\* included.
THEOREM MajorityFillsLog == CrashSpec => NewIndexByMajority
<1> DEFINE A == \A n \in Node :
                  (\A m \in Node : commitIdx'[n] > commitIdx[m]) =>
                     \E q \in puts \ puts' : q.node = n /\ q.ph = "wait" /\ Confirmed(q)
<1>1. TypeOK /\ CommitSentAfterCommit /\ [Next \/ Crash]_vars => [A]_vars
  <2> SUFFICES ASSUME TypeOK, CommitSentAfterCommit, [Next]_vars \/ Crash,
                      NEW n \in Node, \A m \in Node : commitIdx'[n] > commitIdx[m]
               PROVE  \E q \in puts \ puts' : q.node = n /\ q.ph = "wait" /\ Confirmed(q)
    OBVIOUS
  <2>1. commitIdx \in [Node -> Nat]
    BY DEF TypeOK
  <2>2. ASSUME NEW k \in Node, Restart(k) PROVE FALSE
    <3>1. commitIdx' = [commitIdx EXCEPT ![k] = 0]
      BY <2>2 DEF Restart
    <3>2. commitIdx'[n] > commitIdx[n]
      OBVIOUS
    <3>3. QED
      BY <2>1, <3>1, <3>2
  <2>3. CASE commitIdx' = commitIdx
    <3>1. commitIdx'[n] > commitIdx[n]
      OBVIOUS
    <3>2. QED
      BY <2>1, <2>3, <3>1
  <2>4. ASSUME NEW q \in puts \ puts', q.ph = "wait", Confirmed(q),
               commitIdx' = [commitIdx EXCEPT ![q.node] = @ + 1]
        PROVE  \E r \in puts \ puts' : r.node = n /\ r.ph = "wait" /\ Confirmed(r)
    <3>1. commitIdx'[n] > commitIdx[n]
      OBVIOUS
    <3>2. q.node = n
      BY <2>1, <2>4, <3>1
    <3>3. QED
      BY <2>4, <3>2
  <2>5. ASSUME NEW s \in spreads, NEW f \in Node, s.action = "commit", commitIdx[f] <= s.ci,
               commitIdx' = [commitIdx EXCEPT ![f] = @ + 1]
        PROVE  FALSE
    <3>1. s.from \in Node /\ s.ci \in Nat /\ s.ci < commitIdx[s.from]
      BY <2>5 DEF TypeOK, Spread, CommitSentAfterCommit
    <3>2. commitIdx'[n] > commitIdx[n] /\ commitIdx'[n] > commitIdx[s.from]
      BY <3>1
    <3>3. n = f
      BY <2>1, <2>5, <3>2
    <3>4. QED
      BY <2>1, <2>5, <3>1, <3>2, <3>3
  <2>6. QED
    BY <2>2, <2>3, <2>4, <2>5, CommitIdxStep DEF Crash
<1>2. QED
  BY <1>1, TypeCorrect, CommitsFollowCommits, PTL DEF CrashSpec, NewIndexByMajority

-----------------------------------------------------------------------------
(* The timer, crashes included. *)

\* heartbeat_follower ends a candidacy and stops no timer.
LEMMA FollowerTimer ==
    ASSUME TypeOK, CandidateHasTimer, NEW f \in Node, NEW m, HeartbeatFollower(f, m)
    PROVE  CandidateHasTimer'
BY DEF TypeOK, CandidateHasTimer, HeartbeatFollower

\* CandidateHasTimer is inductive.
LEMMA TimerStep ==
    ASSUME TypeOK, CandidateHasTimer, [Next \/ Crash]_vars PROVE CandidateHasTimer'
<1>1. CASE UNCHANGED <<status, timer>>
  BY <1>1 DEF CandidateHasTimer
<1>2. CASE ElectionNext
  <2>1. ASSUME NEW n \in Node, StartElection(n) \/ TimerEnds(n) PROVE CandidateHasTimer'
    BY <2>1 DEF StartElection, TimerEnds, TimerLoopEnds, CandidateHasTimer, TypeOK
  <2>2. ASSUME NEW a \in asks, WinElection(a) \/ VoteDeclined(a) PROVE CandidateHasTimer'
    BY <2>2 DEF WinElection, VoteDeclined, CandidateHasTimer, TypeOK
  <2>3. QED
    BY <1>1, <1>2, <2>1, <2>2 DEF ElectionNext, GrantVote, DeclineVote, AnswerLost, CountVote, election
<1>3. CASE BeatNext
  <2>1. PICK b \in beats : \/ SendFirst(b) \/ SendSecond(b) \/ SyncEnds(b) \/ SendBeat(b)
                           \/ BeatReply(b) \/ BeatReplyLost(b) \/ BeatEnds(b)
    BY <1>3 DEF BeatNext
  <2>2. b.to \in Node
    BY DEF TypeOK, Beat
  <2>3. CASE SendFirst(b) \/ SendSecond(b) \/ SendBeat(b)
    BY <2>2, <2>3, FollowerTimer DEF SendFirst, SendSecond, SendBeat
  <2>4. CASE BeatReply(b)
    BY <2>4 DEF BeatReply, CandidateHasTimer, TypeOK
  <2>5. QED
    BY <1>1, <2>1, <2>3, <2>4 DEF SyncEnds, BeatReplyLost, BeatEnds
<1>4. CASE PutNext
  <2>1. CASE \E n \in Node, p \in Payload : ClientPut(n, p)
    BY <1>1, <2>1 DEF ClientPut, election
  <2>2. CASE \E q \in puts : PutStep(q)
    BY <1>1, <2>2 DEF PutStep, PutStart, PutCommit, PutRaises, PutRejected, election
  <2>3. ASSUME NEW s \in spreads, NEW f \in Node, SpreadDelivered(s, f) \/ SpreadLost(s, f)
        PROVE  CandidateHasTimer'
    BY <1>1, <2>3, FollowerTimer DEF SpreadDelivered, SpreadLost
  <2>4. QED
    BY <1>4, <2>1, <2>2, <2>3 DEF PutNext, SpreadStep
<1>5. ASSUME NEW n \in Node, Restart(n) PROVE CandidateHasTimer'
  BY <1>5 DEF Restart, CandidateHasTimer, TypeOK
<1>6. QED
  BY <1>1, <1>2, <1>3, <1>4, <1>5 DEF Next, Crash, vars, election

\* CANDIDATES: timeout_loop outlives the candidacy it started
\* (CandidateHasTimer), so that a split vote ends in a new election.
THEOREM CandidatesTimed == CrashSpec => []CandidateHasTimer
<1>1. Init => CandidateHasTimer
  BY DEF Init, CandidateHasTimer
<1>2. TypeOK /\ CandidateHasTimer /\ [Next \/ Crash]_vars => CandidateHasTimer'
  BY TimerStep
<1>3. QED
  BY <1>1, <1>2, TypeCorrect, PTL DEF CrashSpec


-----------------------------------------------------------------------------
(* What clients see of a group, crashes included. *)

\* No node sends to itself.
ToOthers == /\ \A b \in beats : b.to # b.from
            /\ \A s \in spreads : s.from \notin s.todo

\* ToOthers is inductive.
LEMMA ToOthersStep ==
    ASSUME TypeOK, ToOthers, [Next \/ Crash]_vars PROVE ToOthers'
<1>1. CASE UNCHANGED <<beats, spreads>>
  BY <1>1 DEF ToOthers
<1>2. ASSUME NEW n \in Node, beats' = beats \cup NewBeats(n) \/ beats' = beats \cup NewBeats(n)',
             UNCHANGED spreads \/ \E q, act : spreads' = spreads \cup {NewSpread(q, act)}
      PROVE  ToOthers'
  <2>1. \A b \in NewBeats(n) \cup NewBeats(n)' : b.to # b.from
    BY DEF NewBeats, Fellow
  <2>2. \A q, act : NewSpread(q, act).from \notin NewSpread(q, act).todo
    BY DEF NewSpread, Fellow
  <2>3. QED
    BY <1>2, <2>1, <2>2 DEF ToOthers
<1>3. CASE BeatNext
  <2>1. PICK b \in beats : SendFirst(b) \/ SendSecond(b) \/ SyncEnds(b) \/ SendBeat(b)
                             \/ BeatReply(b) \/ BeatReplyLost(b) \/ BeatEnds(b)
    BY <1>3 DEF BeatNext
  <2>2. b \in Beat
    BY DEF TypeOK
  <2>3. /\ UNCHANGED spreads
        /\ \A x \in beats' : x \in beats \/ (x.to = b.to /\ x.from = b.from)
    <3>1. CASE SendFirst(b)
      BY <2>2, <3>1 DEF SendFirst, SameBeats, Beat
    <3>2. CASE SendSecond(b) \/ SyncEnds(b)
      BY <2>2, <3>2 DEF SendSecond, SyncEnds, Looping, SameBeats, Beat
    <3>3. CASE SendBeat(b)
      BY <2>2, <3>3 DEF SendBeat, SameBeats, Beat
    <3>4. CASE BeatReply(b) \/ BeatReplyLost(b) \/ BeatEnds(b)
      BY <2>2, <3>4 DEF BeatReply, BeatReplyLost, BeatEnds, SameBeats, Beat
    <3>5. QED
      BY <2>1, <3>1, <3>2, <3>3, <3>4
  <2>4. QED
    BY <2>3 DEF ToOthers
<1>4. ASSUME NEW a \in asks, WinElection(a) PROVE ToOthers'
  <2>1. a.cand \in Node
    BY DEF TypeOK, Ask
  <2>2. QED
    BY <1>1, <1>2, <1>4, <2>1 DEF WinElection, StartHeartBeat
<1>5. ASSUME NEW q \in puts, PutStep(q) PROVE ToOthers'
  <2>1. q.node \in Node
    BY DEF TypeOK, Put
  <2>2. CASE PutStart(q) \/ PutCommit(q)
    <3>1. PICK act : spreads' = spreads \cup {NewSpread(q, act)}
      BY <2>2 DEF PutStart, PutCommit
    <3>2. beats' = beats \/ beats' = beats \cup NewBeats(q.node)'
      BY <2>2 DEF PutStart, PutCommit, Answer
    <3>3. NewSpread(q, act).from \notin NewSpread(q, act).todo
      BY DEF NewSpread, Fellow
    <3>4. QED
      BY <2>1, <3>1, <3>2, <3>3, <1>2 DEF ToOthers
  <2>3. CASE PutRaises(q) \/ PutRejected(q)
    BY <1>1, <1>2, <2>1, <2>3 DEF PutRaises, PutRejected, Answer
  <2>4. QED
    BY <1>5, <2>2, <2>3 DEF PutStep
<1>6. ASSUME NEW s \in spreads, SpreadStep(s) PROVE ToOthers'
  <2>1. UNCHANGED beats /\ \E f : SpreadNext(s, f)
    BY <1>6 DEF SpreadStep, SpreadDelivered, SpreadLost, SpreadNext
  <2>2. PICK f : spreads' \subseteq spreads \cup {[s EXCEPT !.todo = @ \ {f}]}
    BY <2>1 DEF SpreadNext
  <2>3. s \in Spread /\ s.from \notin s.todo
    BY DEF TypeOK, ToOthers
  <2>4. /\ [s EXCEPT !.todo = @ \ {f}].from = s.from
        /\ [s EXCEPT !.todo = @ \ {f}].todo = s.todo \ {f}
    BY <2>3 DEF Spread
  <2>5. [s EXCEPT !.todo = @ \ {f}].from \notin [s EXCEPT !.todo = @ \ {f}].todo
    BY <2>3, <2>4
  <2>6. QED
    BY <2>1, <2>2, <2>5 DEF ToOthers
<1>7. ASSUME NEW n \in Node, Restart(n) PROVE ToOthers'
  BY <1>7 DEF Restart, ToOthers
<1>8. QED
  BY <1>1, <1>3, <1>4, <1>5, <1>6, <1>7 DEF Next, Crash, vars, threads, ElectionNext, PutNext,
     StartElection, TimerEnds, GrantVote, DeclineVote, AnswerLost, CountVote, VoteDeclined, ClientPut

\* Whoever leads or still sends as a leader is a node.
LEMMA SendersAreNodes == TypeOK => Sending \subseteq Node
<1> SUFFICES ASSUME TypeOK PROVE Sending \subseteq Node
  OBVIOUS
<1>1. beats \subseteq Beat /\ puts \subseteq Put /\ spreads \subseteq Spread
  BY DEF TypeOK
<1>2. {b.from : b \in beats} \subseteq Node
  BY <1>1 DEF Beat
<1>3. {q.node : q \in puts} \subseteq Node
  BY <1>1 DEF Put
<1>4. {s.from : s \in spreads} \subseteq Node
  BY <1>1 DEF Spread
<1>5. {n \in Node : status[n] = "LEADER"} \subseteq Node
  OBVIOUS
<1> QED
  BY <1>2, <1>3, <1>4, <1>5 DEF Sending

\* A heartbeat makes a node follow a sender, or changes nothing clients see.
LEMMA FollowerRefines ==
    ASSUME TypeOK, NEW f \in Node, NEW m, HeartbeatFollower(f, m), m.from \in Sending, m.from # f,
           {b.from : b \in beats'} \cup {q.node : q \in puts'} \cup {s.from : s \in spreads'}
               \subseteq Sending
    PROVE  Group!GroupNext
<1>1. {n \in Node : status'[n] = "LEADER"} \subseteq {n \in Node : status[n] = "LEADER"}
  BY DEF HeartbeatFollower, TypeOK
<1>2. Sending' \in SUBSET Sending
  BY <1>1 DEF Sending
<1>3. m.from \in Node
  BY SendersAreNodes
<1>4. CASE Accepts(f, m)
  <2>1. /\ status' = [status EXCEPT ![f] = "FOLLOWER"] /\ leader' = [leader EXCEPT ![f] = m.from]
    BY <1>4 DEF HeartbeatFollower
  <2>2. Group!Follows(f, m.from)
    BY <1>2, <2>1 DEF Group!Follows, Group!Quieter
  <2>3. QED
    BY <1>3, <2>2 DEF Group!GroupNext, Group!GroupStep
<1>5. CASE ~Accepts(f, m)
  <2>1. UNCHANGED <<status, leader>>
    BY <1>5 DEF HeartbeatFollower, TypeOK
  <2>2. QED
    BY <1>2, <2>1 DEF Group!GroupNext, Group!Silent, Group!Quieter
<1>6. QED
  BY <1>4, <1>5

\* A step that leaves status and leader alone and adds no sender.
LEMMA SilentRefines ==
    ASSUME UNCHANGED <<status, leader>>,
           {b.from : b \in beats'} \cup {q.node : q \in puts'} \cup {s.from : s \in spreads'}
               \subseteq Sending
    PROVE  Group!GroupNext
BY DEF Sending, Group!GroupNext, Group!Silent, Group!Quieter

\* Elections.
LEMMA ElectionRefines == ASSUME TypeOK, ElectionNext PROVE Group!GroupNext
<1>n. \A a \in asks : a.cand \in Node
  BY DEF TypeOK, Ask
<1>1. ASSUME UNCHANGED <<status, leader, beats, puts, spreads>> PROVE Group!GroupNext
  BY <1>1, SilentRefines DEF Sending
<1>2. ASSUME NEW n \in Node, StartElection(n) PROVE Group!GroupNext
  <2>1. Sending' = Sending
    BY <1>2 DEF StartElection, Sending, TypeOK
  <2>2. Group!Campaigns(n)
    BY <1>2, <2>1 DEF StartElection, Group!Campaigns, Group!Quieter
  <2>3. QED
    BY <2>2 DEF Group!GroupNext, Group!GroupStep
<1>3. ASSUME NEW a \in asks, WinElection(a) PROVE Group!GroupNext
  <2>1. /\ status[a.cand] = "CANDIDATE" /\ status' = [status EXCEPT ![a.cand] = "LEADER"]
        /\ UNCHANGED <<leader, spreads>> /\ StartHeartBeat(a.cand)
    BY <1>3 DEF WinElection, CountsVote
  <2>2. /\ \A b \in beats' : b \in beats \/ b.from = a.cand
        /\ \A q \in puts' : q \in puts \/ q.node = a.cand
    BY <2>1 DEF StartHeartBeat, NewBeats
  <2>3. Sending' \in SUBSET (Sending \cup {a.cand})
    BY <2>1, <2>2 DEF Sending, TypeOK
  <2>4. Group!Wins(a.cand)
    BY <2>1, <2>3 DEF Group!Wins, Group!Quieter
  <2>5. QED
    BY <1>n, <2>4 DEF Group!GroupNext, Group!GroupStep
<1>4. ASSUME NEW a \in asks, VoteDeclined(a) PROVE Group!GroupNext
  <2>1. UNCHANGED <<leader, beats, puts, spreads>>
    BY <1>4 DEF VoteDeclined
  <2>2. CASE a.rterm > term[a.cand] /\ status[a.cand] # "FOLLOWER"
    <3>1. status' = [status EXCEPT ![a.cand] = "FOLLOWER"]
      BY <1>4, <2>2 DEF VoteDeclined
    <3>2. Sending' \in SUBSET Sending
      BY <2>1, <3>1 DEF Sending, TypeOK
    <3>3. Group!StepsDown(a.cand)
      BY <2>1, <2>2, <3>1, <3>2 DEF Group!StepsDown, Group!Quieter
    <3>4. QED
      BY <1>n, <3>3 DEF Group!GroupNext, Group!GroupStep
  <2>3. CASE ~(a.rterm > term[a.cand] /\ status[a.cand] # "FOLLOWER")
    <3>1. UNCHANGED status
      BY <1>4, <1>n, <2>3 DEF VoteDeclined, TypeOK
    <3>2. QED
      BY <1>1, <2>1, <3>1
  <2>4. QED
    BY <2>2, <2>3
<1>5. ASSUME NEW n \in Node, TimerEnds(n) PROVE Group!GroupNext
  BY <1>1, <1>5 DEF TimerEnds, threads
<1>6. ASSUME NEW a \in asks, GrantVote(a) \/ DeclineVote(a) \/ AnswerLost(a) \/ CountVote(a)
      PROVE  Group!GroupNext
  BY <1>1, <1>6 DEF GrantVote, DeclineVote, AnswerLost, CountVote, election
<1>7. QED
  BY <1>2, <1>3, <1>4, <1>5, <1>6 DEF ElectionNext

\* Heartbeats and their answers.
LEMMA BeatRefines == ASSUME TypeOK, ToOthers, BeatNext PROVE Group!GroupNext
<1>1. PICK b \in beats : SendFirst(b) \/ SendSecond(b) \/ SyncEnds(b) \/ SendBeat(b)
                          \/ BeatReply(b) \/ BeatReplyLost(b) \/ BeatEnds(b)
  BY DEF BeatNext
<1>2. b.from \in Node /\ b.to \in Node /\ b.to # b.from /\ b.from \in Sending
  BY DEF TypeOK, Beat, ToOthers, Sending
<1>3. UNCHANGED <<puts, spreads>> /\ \A x \in beats' : x \in beats \/ x.from = b.from
  BY <1>1 DEF SendFirst, SendSecond, SyncEnds, SendBeat, BeatReply, BeatReplyLost, BeatEnds,
              SameBeats, Looping, TypeOK, Beat
<1>4. {x.from : x \in beats'} \cup {q.node : q \in puts'} \cup {s.from : s \in spreads'}
          \subseteq Sending
  BY <1>2, <1>3 DEF Sending
<1>5. CASE SendFirst(b) \/ SendSecond(b) \/ SendBeat(b)
  <2>1. PICK m \in {BeatMsg(b), CatchUpMsg(b)} : HeartbeatFollower(b.to, m)
    BY <1>5 DEF SendFirst, SendSecond, SendBeat
  <2>2. m.from = b.from
    BY <2>1 DEF BeatMsg, CatchUpMsg
  <2>3. QED
    BY <1>2, <1>4, <2>1, <2>2, FollowerRefines
<1>6. CASE SyncEnds(b) \/ BeatReplyLost(b) \/ BeatEnds(b)
  BY <1>4, <1>6, SilentRefines DEF SyncEnds, BeatReplyLost, BeatEnds
<1>7. CASE BeatReply(b)
  <2>1. CASE b.rep > term[b.from] /\ status[b.from] # "FOLLOWER"
    <3>1. status' = [status EXCEPT ![b.from] = "FOLLOWER"] /\ UNCHANGED leader
      BY <1>7, <2>1 DEF BeatReply
    <3>2. Sending' \in SUBSET Sending
      BY <1>4, <3>1 DEF Sending, TypeOK
    <3>3. Group!StepsDown(b.from)
      BY <2>1, <3>1, <3>2 DEF Group!StepsDown, Group!Quieter
    <3>4. QED
      BY <1>2, <3>3 DEF Group!GroupNext, Group!GroupStep
  <2>2. CASE ~(b.rep > term[b.from] /\ status[b.from] # "FOLLOWER")
    <3>1. UNCHANGED <<status, leader>>
      BY <1>2, <1>7, <2>2 DEF BeatReply, TypeOK
    <3>2. QED
      BY <1>4, <3>1, SilentRefines
  <2>3. QED
    BY <2>1, <2>2
<1>8. QED
  BY <1>1, <1>5, <1>6, <1>7

\* Writes: only who leads starts one, and its threads are of that node.
LEMMA PutRefines == ASSUME TypeOK, ToOthers, PutNext PROVE Group!GroupNext
<1>1. ASSUME NEW n \in Node, NEW p \in Payload, ClientPut(n, p) PROVE Group!GroupNext
  <2>1. /\ \A q \in puts' : q \in puts \/ q.node = n
        /\ n \in Sending /\ UNCHANGED <<status, leader, beats, spreads>>
    BY <1>1 DEF ClientPut, Sending, election, threads
  <2>2. {b.from : b \in beats'} \cup {q.node : q \in puts'} \cup {s.from : s \in spreads'}
          \subseteq Sending
    BY <2>1 DEF Sending
  <2>3. QED
    BY <2>1, <2>2, SilentRefines
<1>2. ASSUME NEW q \in puts, PutStep(q) PROVE Group!GroupNext
  <2>1. q.node \in Sending /\ UNCHANGED <<status, leader>>
    BY <1>2 DEF Sending, PutStep, PutStart, PutCommit, PutRaises, PutRejected, election
  <2>2. \A x \in puts' : x \in puts \/ x.node = q.node
    BY <1>2 DEF PutStep, PutStart, PutCommit, PutRaises, PutRejected, TypeOK, Put
  <2>3. \A x \in spreads' : x \in spreads \/ x.from = q.node
    BY <1>2 DEF PutStep, PutStart, PutCommit, PutRaises, PutRejected, NewSpread
  <2>4. \A x \in beats' : x \in beats \/ x.from = q.node
    BY <1>2 DEF PutStep, PutStart, PutCommit, PutRaises, PutRejected, Answer, NewBeats
  <2>5. {b.from : b \in beats'} \cup {x.node : x \in puts'} \cup {s.from : s \in spreads'}
          \subseteq Sending
    BY <2>1, <2>2, <2>3, <2>4 DEF Sending
  <2>6. QED
    BY <2>1, <2>5, SilentRefines
<1>3. ASSUME NEW s \in spreads, NEW f \in Node, SpreadDelivered(s, f) \/ SpreadLost(s, f)
      PROVE  Group!GroupNext
  <2>1. s.from \in Sending /\ f \in s.todo /\ f # s.from
    BY <1>3 DEF Sending, SpreadDelivered, SpreadLost, ToOthers
  <2>2. /\ UNCHANGED beats /\ \A x \in spreads' : x \in spreads \/ x.from = s.from
        /\ \A x \in puts' : \E y \in puts : x.node = y.node
    <3>1. SpreadNext(s, f) /\ puts' \in {puts, Confirms(s, f)}
      BY <1>3 DEF SpreadDelivered, SpreadLost
    <3>2. UNCHANGED beats /\ spreads' \subseteq spreads \cup {[s EXCEPT !.todo = @ \ {f}]}
      BY <3>1 DEF SpreadNext
    <3>3. [s EXCEPT !.todo = @ \ {f}].from = s.from
      BY DEF TypeOK, Spread
    <3>4. \A y \in puts : [y EXCEPT !.ok = @ \cup {f}].node = y.node
      BY DEF TypeOK, Put
    <3>5. \A x \in Confirms(s, f) : \E y \in puts : x.node = y.node
      BY <3>4 DEF Confirms
    <3>6. QED
      BY <3>1, <3>2, <3>3, <3>5
  <2>3. {b.from : b \in beats'} \cup {q.node : q \in puts'} \cup {x.from : x \in spreads'}
          \subseteq Sending
    BY <2>1, <2>2 DEF Sending
  <2>4. CASE SpreadDelivered(s, f)
    <3>1. HeartbeatFollower(f, SpreadMsg(s)) /\ SpreadMsg(s).from = s.from
      BY <2>4 DEF SpreadDelivered, SpreadMsg
    <3>2. QED
      BY <2>1, <2>3, <3>1, FollowerRefines
  <2>5. CASE SpreadLost(s, f)
    BY <2>3, <2>5, SilentRefines DEF SpreadLost
  <2>6. QED
    BY <1>3, <2>4, <2>5
<1>4. QED
  BY <1>1, <1>2, <1>3 DEF PutNext, SpreadStep

\* A node that comes back has no thread and follows nobody.
LEMMA RestartRefines == ASSUME TypeOK, NEW n \in Node, Restart(n) PROVE Group!GroupNext
<1>1. /\ status' = [status EXCEPT ![n] = "FOLLOWER"] /\ leader' = [leader EXCEPT ![n] = None]
  BY DEF Restart
<1>2. Sending' \in SUBSET (Sending \ {n})
  BY DEF Restart, Sending, TypeOK
<1>3. Group!Restarts(n)
  BY <1>1, <1>2 DEF Group!Restarts, Group!Quieter
<1>4. QED
  BY <1>3 DEF Group!GroupNext

\* WHOM CLIENTS ARE SENT TO: a group of nodes is a KVGroup
\* (LeadersWereElected): what a follower redirects to has won an election;
\* crashes included.
THEOREM RedirectsToElected == CrashSpec => LeadersWereElected
<1>1. Init => ToOthers /\ Group!GroupInit
  BY DEF Init, ToOthers, Group!GroupInit, Sending
<1>2. TypeOK /\ ToOthers /\ [Next \/ Crash]_vars => [Group!GroupNext]_(<<status, leader, Sending>>)
  <2>1. UNCHANGED vars => UNCHANGED <<status, leader, Sending>>
    BY DEF vars, election, threads, Sending
  <2>2. QED
    BY <2>1, ElectionRefines, BeatRefines, PutRefines, RestartRefines DEF Next, Crash
<1>3. TypeOK /\ ToOthers /\ [Next \/ Crash]_vars => ToOthers'
  BY ToOthersStep
<1>4. QED
  BY <1>1, <1>2, <1>3, TypeCorrect, PTL DEF CrashSpec, LeadersWereElected, Group!GroupSpec, Group!group

-----------------------------------------------------------------------------
(* The first term: one leader, whose log keeps the promise of a WriteLog.  *)

\* No node has begun a second term.
FirstTerm == \A n \in Node : term[n] <= 1

Leads(n) == status[n] = "LEADER"

\* What of the threads there is in the first term: nobody hears of a newer one.
TermOne ==
    /\ \A n \in Node : term[n] <= 1 /\ (status[n] # "FOLLOWER" => term[n] = 1)
    /\ \A a \in asks : a.term = 1 /\ term[a.cand] = 1 /\ a.ph # "no"
    /\ \A b \in beats : b.term = 1 /\ b.ph # "reply"
    /\ \A s \in spreads : s.term = 1

\* The fellows whose answer a candidate has not counted, and those whose vote
\* it may have.
Pending(c) == {a.voter : a \in {x \in asks : x.cand = c}}
Counted(c) == Voters(1, c) \ Pending(c)

\* A candidate counts a vote once, and only votes that were given.
Tally ==
    /\ \A a, b \in asks : a.cand = b.cand /\ a.voter = b.voter => a = b
    /\ \A a \in asks : a.ph = "yes" => <<a.voter, 1, a.cand>> \in ballots
    /\ \A n \in Node : voteCount[n] <= Cardinality(Counted(n))
    /\ \A n \in Node : Leads(n) => voteCount[n] >= Majority

\* One node leads, and who sends is that node; before it was elected nothing
\* was written.
OneLeads ==
    /\ \A n, m \in Node : Leads(n) /\ Leads(m) => n = m
    /\ \A n \in Sending : Leads(n)
    /\ (\A n \in Node : ~Leads(n)) => \A n \in Node : log[n] = <<>> /\ staged[n] = None

\* The calls of handle_put are of clients who wait, each for a payload of its
\* own, which is staged while the call has the lock.
Writes ==
    /\ \A q \in puts : /\ q.born = 0 /\ reply[q.payload] = "open"
                       /\ q.ph = "wait" => staged[q.node] = q.payload
    /\ \A q, r \in puts : q.payload = r.payload => q = r

FirstInv == TermOne /\ Tally /\ OneLeads /\ Writes

\* A step in which at most nodes that do not lead hear of the first term.
Hears ==
    /\ \A n \in Node : Leads(n)' <=> Leads(n)
    /\ \A n \in Node : Leads(n) => log'[n] = log[n] /\ staged'[n] = staged[n]
    /\ \A n \in Node : /\ term'[n] <= 1 /\ (status'[n] # "FOLLOWER" => term'[n] = 1)
                       /\ term[n] = 1 => term'[n] = 1

\* In the first term a message comes from the leader, to a node that is none.
LEMMA FirstFollower ==
    ASSUME TypeOK, TermOne, OneLeads, NEW f \in Node, NEW m,
           m.term = 1, m.from \in Sending, m.from # f, HeartbeatFollower(f, m)
    PROVE  Hears /\ NewTerm(f, m) = 1
<1>1. m.from \in Node /\ Leads(m.from)
  BY SendersAreNodes DEF OneLeads
<1>2. ~Leads(f)
  BY <1>1 DEF OneLeads
<1>3. /\ term' = [term EXCEPT ![f] = NewTerm(f, m)]
      /\ status' = [status EXCEPT ![f] = IF Accepts(f, m) THEN "FOLLOWER" ELSE status[f]]
  BY DEF HeartbeatFollower
<1>4. \A n \in Node : term[n] \in Nat /\ term[n] <= 1 /\ (status[n] # "FOLLOWER" => term[n] = 1)
  BY DEF TypeOK, TermOne
<1>5. NewTerm(f, m) = 1 /\ Accepts(f, m)
  BY <1>4 DEF NewTerm, Accepts
<1>6. \A n \in Node : n # f => term'[n] = term[n] /\ status'[n] = status[n]
  BY <1>3
<1>7. term'[f] = 1 /\ status'[f] = "FOLLOWER"
  BY <1>3, <1>5 DEF TypeOK
<1>8. \A n \in Node : n # f => log'[n] = log[n] /\ staged'[n] = staged[n]
  <2>1. \/ staged' = [staged EXCEPT ![f] = m.payload] /\ UNCHANGED log
        \/ Commit(f, IF staged[f] = None THEN m.payload ELSE staged[f])
        \/ UNCHANGED <<log, staged>>
    BY DEF HeartbeatFollower, FollowerStore, store
  <2>2. QED
    BY <2>1 DEF Commit, TypeOK
<1>9. \A n \in Node : Leads(n)' <=> Leads(n)
  BY <1>2, <1>6, <1>7 DEF Leads
<1> QED BY <1>2, <1>4, <1>5, <1>6, <1>7, <1>8, <1>9 DEF Hears

\* The message of a heartbeat thread, or of one that spreads a write, is such
\* a message.
LEMMA FirstMessages ==
    ASSUME TypeOK, TermOne, OneLeads, ToOthers
    PROVE  /\ \A b \in beats : /\ b.to \in Node /\ b.from \in Node /\ Leads(b.from) /\ term[b.from] = 1
                               /\ \A m \in {BeatMsg(b), CatchUpMsg(b)} :
                                    m.term = 1 /\ m.from \in Sending /\ m.from # b.to
           /\ \A q \in puts : q.node \in Node /\ Leads(q.node) /\ term[q.node] = 1
           /\ \A s \in spreads : /\ s.from \in Node /\ Leads(s.from)
                                 /\ SpreadMsg(s).term = 1 /\ SpreadMsg(s).from \in Sending
                                 /\ SpreadMsg(s).from \notin s.todo
<1>1. \A n \in Sending : n \in Node /\ Leads(n) /\ term[n] = 1
  BY SendersAreNodes DEF OneLeads, TermOne, Leads
<1>2. ASSUME NEW b \in beats
      PROVE  /\ b.to \in Node /\ b.from \in Sending /\ b.term = 1 /\ b.from # b.to
             /\ \A m \in {BeatMsg(b), CatchUpMsg(b)} : m.term = b.term /\ m.from = b.from
  BY DEF TypeOK, Beat, Sending, ToOthers, TermOne, BeatMsg, CatchUpMsg
<1>3. ASSUME NEW q \in puts PROVE q.node \in Sending
  BY DEF Sending
<1>4. ASSUME NEW s \in spreads
      PROVE  /\ s.from \in Sending /\ s.term = 1 /\ s.from \notin s.todo
             /\ SpreadMsg(s).term = s.term /\ SpreadMsg(s).from = s.from
  BY DEF Sending, ToOthers, TermOne, SpreadMsg
<1> QED BY <1>1, <1>2, <1>3, <1>4

\* Elections keep the first term.
LEMMA TermOneElection ==
    ASSUME TypeOK, TermOne, FirstTerm', ElectionNext
    PROVE  TermOne'
<1>t. \A n \in Node : term[n] \in Nat /\ term[n] <= 1 /\ (status[n] # "FOLLOWER" => term[n] = 1)
  BY DEF TypeOK, TermOne
<1>a. \A a \in asks : a \in Ask /\ a.cand \in Node /\ a.voter \in Node /\ a.term = 1 /\ term[a.cand] = 1 /\ a.ph # "no"
  BY DEF TypeOK, TermOne, Ask
<1>1. ASSUME NEW n \in Node, StartElection(n) PROVE TermOne'
  <2>1. /\ term' = [term EXCEPT ![n] = term[n] + 1] /\ status' = [status EXCEPT ![n] = "CANDIDATE"]
        /\ asks' = asks \cup NewAsks(n) /\ UNCHANGED <<beats, spreads>>
    BY <1>1 DEF StartElection
  <2>2. term[n] = 0 /\ term'[n] = 1
    <3>1. term'[n] = term[n] + 1 /\ term'[n] <= 1
      BY <2>1 DEF TypeOK, FirstTerm
    <3> QED BY <3>1, <1>t
  <2>3. \A m \in Node : term'[m] <= 1 /\ (status'[m] # "FOLLOWER" => term'[m] = 1) /\ (term[m] = 1 => term'[m] = 1)
    BY <2>1, <2>2, <1>t DEF TypeOK
  <2>4. \A a \in NewAsks(n) : a.cand = n /\ a.term = 1 /\ a.ph = "ask"
    BY <2>2 DEF NewAsks
  <2>5. \A a \in asks' : a.term = 1 /\ term'[a.cand] = 1 /\ a.ph # "no"
    BY <2>1, <2>2, <2>3, <2>4, <1>a
  <2> QED BY <2>1, <2>3, <2>5 DEF TermOne
<1>2. ASSUME NEW a \in asks, GrantVote(a) PROVE TermOne'
  <2>1. /\ term' = [term EXCEPT ![a.voter] = a.term] /\ UNCHANGED <<status, beats, spreads>>
        /\ asks' = (asks \ {a}) \cup {[a EXCEPT !.ph = "yes"]}
    BY <1>2 DEF GrantVote
  <2>2. \A m \in Node : term'[m] <= 1 /\ (status'[m] # "FOLLOWER" => term'[m] = 1) /\ (term[m] = 1 => term'[m] = 1)
    BY <2>1, <1>t, <1>a DEF TypeOK
  <2>3. /\ [a EXCEPT !.ph = "yes"].term = a.term
        /\ [a EXCEPT !.ph = "yes"].cand = a.cand
        /\ [a EXCEPT !.ph = "yes"].ph = "yes"
    BY <1>a DEF Ask
  <2>4. ASSUME NEW x \in asks \ {a} PROVE x.term = 1 /\ term'[x.cand] = 1 /\ x.ph # "no"
    BY <2>2, <1>a
  <2>5. a.term = 1 /\ term'[a.cand] = 1
    BY <2>2, <1>a
  <2>6. \A x \in asks' : x.term = 1 /\ term'[x.cand] = 1 /\ x.ph # "no"
    <3>1. ASSUME NEW x, x = [a EXCEPT !.ph = "yes"]
          PROVE  x.term = 1 /\ term'[x.cand] = 1 /\ x.ph # "no"
      BY <2>3, <2>5, <3>1
    <3> QED BY <2>1, <2>4, <3>1
  <2> QED BY <2>1, <2>2, <2>6 DEF TermOne
<1>3. ASSUME UNCHANGED <<term, spreads>>, \A n \in Node : status'[n] # "FOLLOWER" => status[n] # "FOLLOWER",
             \A x \in asks' : x \in asks \/ \E a \in asks : x.term = a.term /\ x.cand = a.cand /\ x.ph = "ask",
             \A b \in beats' : b \in beats \/ (b.term = 1 /\ b.ph \in {"loop", "first"})
      PROVE  TermOne'
  BY <1>3 DEF TermOne
<1>4. ASSUME NEW a \in asks, DeclineVote(a) \/ AnswerLost(a) PROVE TermOne'
  <2>1. /\ [a EXCEPT !.ph = "ask", !.rterm = 0].term = a.term
        /\ [a EXCEPT !.ph = "ask", !.rterm = 0].cand = a.cand
        /\ [a EXCEPT !.ph = "ask", !.rterm = 0].ph = "ask"
    BY <1>a DEF Ask
  <2>2. CASE DeclineVote(a)
    <3>1. ~(term[a.voter] > term[a.cand])
      BY <1>a, <1>t
    <3>2. asks' \subseteq asks /\ UNCHANGED <<election, beats, spreads>>
      BY <3>1, <2>2 DEF DeclineVote
    <3> QED BY <3>2, <1>3 DEF election
  <2>3. CASE AnswerLost(a)
    <3>1. asks' \subseteq asks \cup {[a EXCEPT !.ph = "ask", !.rterm = 0]} /\ UNCHANGED <<election, beats, spreads>>
      BY <2>3 DEF AnswerLost
    <3>2. \A x \in asks' : x \in asks \/ (x.term = a.term /\ x.cand = a.cand /\ x.ph = "ask")
      BY <3>1, <2>1
    <3> QED BY <3>1, <3>2, <1>3 DEF election
  <2> QED BY <1>4, <2>2, <2>3
<1>5. ASSUME NEW a \in asks, CountVote(a) PROVE TermOne'
  BY <1>5, <1>3 DEF CountVote
<1>6. ASSUME NEW a \in asks, WinElection(a) PROVE TermOne'
  <2>1. /\ UNCHANGED <<term, spreads>> /\ status[a.cand] = "CANDIDATE" /\ asks' \subseteq asks
        /\ status' = [status EXCEPT ![a.cand] = "LEADER"] /\ StartHeartBeat(a.cand)
    BY <1>6 DEF WinElection, CountsVote
  <2>2. \A b \in beats' : b \in beats \/ (b.term = term[a.cand] /\ b.ph \in {"loop", "first"})
    BY <2>1 DEF StartHeartBeat, NewBeats
  <2>3. \A n \in Node : status'[n] # "FOLLOWER" => status[n] # "FOLLOWER"
    BY <2>1 DEF TypeOK
  <2> QED BY <2>1, <2>2, <2>3, <1>a, <1>3
<1>7. ASSUME NEW a \in asks, VoteDeclined(a) PROVE TermOne'
  BY <1>7, <1>a DEF VoteDeclined
<1>8. ASSUME NEW n \in Node, TimerEnds(n) PROVE TermOne'
  BY <1>8, <1>3 DEF TimerEnds, threads
<1> QED BY <1>1, <1>2, <1>4, <1>5, <1>6, <1>7, <1>8 DEF ElectionNext

\* What a heartbeat thread does in the first term.
LEMMA FirstBeat ==
    ASSUME TypeOK, TermOne, OneLeads, ToOthers, BeatNext
    PROVE  /\ Hears /\ \E n \in Node : Leads(n)
           /\ UNCHANGED <<voteCount, locked, asks, puts, spreads, reply, ballots>>
           /\ \A x \in beats' : /\ x.term = 1 /\ x.ph # "reply"
                                /\ \E b \in beats : x.from = b.from
<1>1. PICK b \in beats : SendFirst(b) \/ SendSecond(b) \/ SyncEnds(b) \/ SendBeat(b)
                         \/ BeatReply(b) \/ BeatReplyLost(b) \/ BeatEnds(b)
  BY DEF BeatNext
<1>2. /\ b \in Beat /\ b.ph # "reply" /\ b.to \in Node /\ b.from \in Node /\ Leads(b.from)
      /\ term[b.from] = 1
      /\ \A m \in {BeatMsg(b), CatchUpMsg(b)} : m.term = 1 /\ m.from \in Sending /\ m.from # b.to
  BY FirstMessages DEF TypeOK, TermOne
<1>3. \A x \in beats : x.term = 1 /\ x.ph # "reply"
  BY DEF TermOne
<1>4. /\ Looping(b).term = 1 /\ Looping(b).ph = "loop" /\ Looping(b).from = b.from
  BY <1>2 DEF Looping, Beat
<1>5. UNCHANGED <<term, status, store>> => Hears
  BY DEF Hears, Leads, TermOne, store
<1>6. CASE SendFirst(b)
  <2>1. Hears
    BY <1>2, <1>6, FirstFollower DEF SendFirst
  <2> DEFINE c == [b EXCEPT !.ph = "second", !.rep = commitIdx[b.to]]
  <2>2. c.term = b.term /\ c.ph = "second" /\ c.from = b.from
    BY <1>2 DEF Beat
  <2>3. beats' \subseteq beats \cup {c}
    BY <1>6 DEF SendFirst
  <2> HIDE DEF c
  <2>4. \A x \in beats' : /\ x.term = 1 /\ x.ph # "reply"
                          /\ x \in beats \/ x.from = b.from
    BY <1>3, <2>2, <2>3
  <2> QED BY <1>2, <1>6, <2>1, <2>4 DEF SendFirst, SameBeats
<1>7. CASE SendSecond(b)
  <2>1. Hears
    BY <1>2, <1>7, FirstFollower DEF SendSecond
  <2> QED BY <1>2, <1>3, <1>4, <1>7, <2>1 DEF SendSecond, SameBeats
<1>8. CASE SyncEnds(b)
  BY <1>2, <1>3, <1>4, <1>5, <1>8 DEF SyncEnds, SameBeats
<1>9. CASE SendBeat(b)
  <2>1. Hears /\ NewTerm(b.to, BeatMsg(b)) = 1
    BY <1>2, <1>9, FirstFollower DEF SendBeat
  <2>2. beats' = beats
    BY <1>2, <1>9, <2>1 DEF SendBeat
  <2> QED BY <1>2, <1>3, <1>9, <2>1, <2>2 DEF SendBeat, SameBeats
<1>10. CASE BeatEnds(b)
  BY <1>2, <1>10 DEF BeatEnds, Leads
<1> QED BY <1>1, <1>2, <1>6, <1>7, <1>8, <1>9, <1>10 DEF BeatReply, BeatReplyLost

\* Which calls of handle_put there are after a message that spreads a write.
SamePuts ==
    \E B \in [puts -> puts'] :
        /\ \A x \in puts' : \E q \in puts : B[q] = x
        /\ \A q \in puts : /\ B[q].node = q.node /\ B[q].payload = q.payload
                           /\ B[q].born = q.born /\ B[q].ph = q.ph

\* Such are the calls when none of them changes.
LEMMA PutsStay == puts' = puts => SamePuts
<1>1. ASSUME puts' = puts PROVE SamePuts
  <2>1. [q \in puts |-> q] \in [puts -> puts']
    BY <1>1
  <2> QED BY <1>1, <2>1 DEF SamePuts
<1> QED BY <1>1

\* What a thread that spreads a write does in the first term.
LEMMA FirstSpread ==
    ASSUME TypeOK, TermOne, OneLeads, ToOthers, NEW s \in spreads, SpreadStep(s)
    PROVE  /\ Hears /\ (\E n \in Node : Leads(n)) /\ SamePuts
           /\ UNCHANGED <<voteCount, asks, beats, reply, ballots>>
           /\ \A x \in spreads' : x.term = 1 /\ \E y \in spreads : x.from = y.from
<1>1. PICK f \in Node : SpreadDelivered(s, f) \/ SpreadLost(s, f)
  BY DEF SpreadStep
<1>2. /\ s \in Spread /\ s.term = 1 /\ s.from \in Node /\ Leads(s.from) /\ SpreadMsg(s).term = 1
      /\ SpreadMsg(s).from \in Sending /\ SpreadMsg(s).from \notin s.todo
  BY FirstMessages DEF TypeOK, TermOne
<1>3. f \in s.todo /\ SpreadNext(s, f)
  BY <1>1 DEF SpreadDelivered, SpreadLost
<1>4. \A x \in spreads' : x.term = 1 /\ \E y \in spreads : x.from = y.from
  <2> DEFINE y == [s EXCEPT !.todo = s.todo \ {f}]
  <2>1. y.term = s.term /\ y.from = s.from
    BY <1>2 DEF Spread
  <2>2. spreads' \subseteq spreads \cup {y}
    BY <1>3, <1>2 DEF SpreadNext, Spread
  <2> HIDE DEF y
  <2>3. \A x \in spreads' : x.term = 1 /\ (x \in spreads \/ x.from = s.from)
    BY <1>2, <2>1, <2>2 DEF TermOne
  <2> QED BY <2>3
<1>5. Hears
  <2>1. CASE SpreadDelivered(s, f)
    BY <1>2, <1>3, <2>1, FirstFollower DEF SpreadDelivered
  <2>2. CASE SpreadLost(s, f)
    BY <2>2 DEF SpreadLost, Hears, Leads, TermOne, store
  <2> QED BY <1>1, <2>1, <2>2
<1>6. SamePuts
  <2>1. puts' = puts => SamePuts
    BY PutsStay
  <2>2. ASSUME puts' = Confirms(s, f) PROVE SamePuts
    <3> DEFINE C(q) == IF /\ q.node = s.from /\ q.payload = s.payload /\ q.born = s.born
                          /\ q.ph = "wait" /\ s.action = "log"
                       THEN [q EXCEPT !.ok = @ \cup {f}] ELSE q
               B == [q \in puts |-> C(q)]
    <3>1. puts' = {C(q) : q \in puts}
      BY <2>2 DEF Confirms
    <3>2. \A q \in puts : /\ C(q).node = q.node /\ C(q).payload = q.payload
                          /\ C(q).born = q.born /\ C(q).ph = q.ph
      BY DEF TypeOK, Put
    <3> HIDE DEF C
    <3>3. B \in [puts -> puts'] /\ \A q \in puts : B[q] = C(q)
      BY <3>1
    <3> HIDE DEF B
    <3>4. \A x \in puts' : \E q \in puts : B[q] = x
      BY <3>1, <3>3
    <3> QED BY <3>2, <3>3, <3>4 DEF SamePuts
  <2>3. puts' = puts \/ puts' = Confirms(s, f)
    BY <1>1 DEF SpreadDelivered, SpreadLost
  <2> QED BY <2>1, <2>2, <2>3
<1> QED BY <1>2, <1>3, <1>4, <1>5, <1>6 DEF SpreadNext

\* The log of the only leader is that of the WriteLog.
LEMMA LogOfLeader ==
    ASSUME NEW S, NEW L, NEW n \in Node, S[n] = "LEADER",
           \A m \in Node : S[m] = "LEADER" => m = n
    PROVE  (IF \E m \in Node : S[m] = "LEADER"
            THEN L[CHOOSE m \in Node : S[m] = "LEADER"] ELSE <<>>) = L[n]
<1> DEFINE c == CHOOSE m \in Node : S[m] = "LEADER"
<1>1. c \in Node /\ S[c] = "LEADER"
  OBVIOUS
<1>2. c = n
  BY <1>1
<1> QED BY <1>2

\* While followers hear of a leader, the invariant holds and its log stays.
LEMMA HearsStep ==
    ASSUME TypeOK, FirstInv, Hears, \E n \in Node : Leads(n), SamePuts,
           UNCHANGED <<voteCount, asks, reply, ballots>>,
           \A x \in beats' : x.term = 1 /\ x.ph # "reply" /\ \E b \in beats : x.from = b.from,
           \A x \in spreads' : x.term = 1 /\ \E y \in spreads : x.from = y.from
    PROVE  FirstInv' /\ LeaderLog' = LeaderLog
<1>1. TermOne'
  BY DEF FirstInv, TermOne, Hears, TypeOK, Ask
<1>2. Tally'
  BY DEF FirstInv, Tally, Hears, Counted, Pending, Voters
<1>3. PICK B \in [puts -> puts'] :
        /\ \A x \in puts' : \E q \in puts : B[q] = x
        /\ \A q \in puts : /\ B[q].node = q.node /\ B[q].payload = q.payload
                           /\ B[q].born = q.born /\ B[q].ph = q.ph
  BY DEF SamePuts
<1>4. \A x \in puts' : \E q \in puts : /\ B[q] = x /\ x.node = q.node /\ x.payload = q.payload
                                       /\ x.born = q.born /\ x.ph = q.ph
  BY <1>3
<1>5. PICK l \in Node : Leads(l)
  OBVIOUS
<1>6. /\ \A n \in Node : Leads(n) <=> n = l
      /\ \A n \in Node : Leads(n)' <=> n = l
  BY <1>5 DEF FirstInv, OneLeads, Hears
<1>7. OneLeads'
  <2>1. \A n \in Sending' : n \in Sending \/ (n \in Node /\ Leads(n)')
    BY <1>4 DEF Sending, Leads
  <2>2. \A n \in Sending : n \in Node
    BY SendersAreNodes
  <2>3. \A n \in Sending' : Leads(n)'
    BY <2>1, <2>2 DEF FirstInv, OneLeads, Hears
  <2> QED BY <1>6, <2>3 DEF OneLeads
<1>8. \A q \in puts : /\ q.node = l /\ q.born = 0 /\ reply[q.payload] = "open"
                      /\ q.ph = "wait" => staged[l] = q.payload
  <2>1. \A q \in puts : q.node \in Node /\ q.node \in Sending
    BY DEF TypeOK, Put, Sending
  <2> QED BY <1>6, <2>1 DEF FirstInv, OneLeads, Writes
<1>9. /\ log'[l] = log[l] /\ staged'[l] = staged[l]
  BY <1>5 DEF Hears
<1>10. Writes'
  <2>1. \A x \in puts' : /\ x.born = 0 /\ reply'[x.payload] = "open"
                         /\ x.ph = "wait" => staged'[x.node] = x.payload
    BY <1>4, <1>8, <1>9
  <2>2. \A x, y \in puts' : x.payload = y.payload => x = y
    BY <1>4 DEF FirstInv, Writes
  <2> QED BY <2>1, <2>2 DEF Writes
<1>11. LeaderLog = log[l] /\ LeaderLog' = log'[l]
  BY <1>6, LogOfLeader DEF LeaderLog, Leads
<1> QED BY <1>1, <1>2, <1>7, <1>9, <1>10, <1>11 DEF FirstInv

\* The votes a candidate has counted are of nodes; with one more of them there
\* is room for one more count.
LEMMA CountedGrows ==
    ASSUME NEW S \in SUBSET Node, NEW T \in SUBSET Node, S \subseteq T
    PROVE  /\ Cardinality(S) \in Nat /\ Cardinality(T) \in Nat
           /\ Cardinality(S) <= Cardinality(T)
           /\ \A v \in T \ S : Cardinality(S) + 1 <= Cardinality(T)
<1>1. IsFiniteSet(Node) /\ IsFiniteSet(S) /\ IsFiniteSet(T)
  BY NodeAssumption, FS_Subset
<1>2. /\ Cardinality(S) \in Nat /\ Cardinality(T) \in Nat /\ Cardinality(S) <= Cardinality(T)
  BY <1>1, FS_CardinalityType, FS_Subset
<1>3. ASSUME NEW v \in T \ S PROVE Cardinality(S) + 1 <= Cardinality(T)
  <2>1. Cardinality(S \cup {v}) = Cardinality(S) + 1 /\ IsFiniteSet(S \cup {v})
    BY <1>1, <1>3, FS_AddElement
  <2>2. Cardinality(S \cup {v}) <= Cardinality(T)
    BY <1>1, <1>3, FS_Subset
  <2> QED BY <2>1, <2>2
<1> QED BY <1>2, <1>3

\* The state of an ask_for_vote thread is all an answer changes of it.
LEMMA TallyAnswers ==
    ASSUME TypeOK, Tally, NEW a \in asks, NEW b,
           b.cand = a.cand, b.voter = a.voter,
           asks' \subseteq (asks \ {a}) \cup {b},
           ballots \subseteq ballots', ballots' \subseteq Node \X Nat \X Node,
           b.ph = "yes" => <<a.voter, 1, a.cand>> \in ballots',
           UNCHANGED <<voteCount, status>>
    PROVE  Tally'
<1>1. \A x, y \in asks' : x.cand = y.cand /\ x.voter = y.voter => x = y
  BY DEF Tally
<1>2. \A x \in asks' : x.ph = "yes" => <<x.voter, 1, x.cand>> \in ballots'
  BY DEF Tally
<1>3. ASSUME NEW n \in Node PROVE voteCount'[n] <= Cardinality(Counted(n)')
  <2>1. Counted(n) \in SUBSET Node /\ Counted(n)' \in SUBSET Node
    BY DEF Counted, Voters
  <2>2. Counted(n) \subseteq Counted(n)'
    BY DEF Counted, Voters, Pending
  <2>3. Cardinality(Counted(n)) \in Nat /\ Cardinality(Counted(n)') \in Nat
        /\ Cardinality(Counted(n)) <= Cardinality(Counted(n)')
    BY <2>1, <2>2, CountedGrows
  <2>4. voteCount[n] \in Nat /\ voteCount[n] <= Cardinality(Counted(n))
    BY DEF TypeOK, Tally
  <2> QED BY <2>3, <2>4
<1>4. \A n \in Node : Leads(n)' => voteCount'[n] >= Majority
  BY DEF Tally, Leads
<1> QED BY <1>1, <1>2, <1>3, <1>4 DEF Tally

\* A vote that is counted was not counted before.
LEMMA TallyCount ==
    ASSUME TypeOK, TermOne, Tally, NEW a \in asks, CountsVote(a),
           asks' = asks \ {a}, UNCHANGED ballots,
           voteCount' = [voteCount EXCEPT ![a.cand] = @ + 1],
           \A n \in Node : Leads(n)' => Leads(n) \/ (n = a.cand /\ voteCount[n] + 1 >= Majority)
    PROVE  /\ Tally' /\ a.cand \in Node /\ ~Leads(a.cand)
           /\ Cardinality(Voters(1, a.cand)) >= voteCount[a.cand] + 1
<1>1. /\ a.cand \in Node /\ a.voter \in Node /\ ~Leads(a.cand)
      /\ <<a.voter, 1, a.cand>> \in ballots
  BY DEF TypeOK, Ask, Tally, CountsVote, Leads
<1>2. \A n \in Node : /\ Counted(n) \in SUBSET Node /\ Counted(n)' \in SUBSET Node
                      /\ Voters(1, n) \in SUBSET Node
                      /\ Counted(n) \subseteq Counted(n)' /\ Counted(n) \subseteq Voters(1, n)
  BY DEF Counted, Voters, Pending
<1>3. /\ a.voter \in Counted(a.cand)' \ Counted(a.cand)
      /\ a.voter \in Voters(1, a.cand) \ Counted(a.cand)
  BY <1>1 DEF Counted, Voters, Pending, Tally
<1>4. \A n \in Node : voteCount[n] \in Nat /\ voteCount[n] <= Cardinality(Counted(n))
  BY DEF TypeOK, Tally
<1>5. /\ \A n \in Node : n # a.cand => voteCount'[n] = voteCount[n]
      /\ voteCount'[a.cand] = voteCount[a.cand] + 1
  BY <1>1 DEF TypeOK
<1>6. ASSUME NEW n \in Node PROVE voteCount'[n] <= Cardinality(Counted(n)')
  <2>1. Cardinality(Counted(n)) \in Nat /\ Cardinality(Counted(n)') \in Nat
        /\ Cardinality(Counted(n)) <= Cardinality(Counted(n)')
        /\ \A v \in Counted(n)' \ Counted(n) : Cardinality(Counted(n)) + 1 <= Cardinality(Counted(n)')
    BY <1>2, CountedGrows
  <2>2. CASE n = a.cand
    BY <1>3, <1>4, <1>5, <2>1, <2>2
  <2>3. CASE n # a.cand
    BY <1>4, <1>5, <2>1, <2>3
  <2> QED BY <2>2, <2>3
<1>7. \A n \in Node : Leads(n)' => voteCount'[n] >= Majority
  BY <1>1, <1>5 DEF Tally
<1>8. Tally'
  BY <1>6, <1>7 DEF Tally
<1>9. Cardinality(Voters(1, a.cand)) >= voteCount[a.cand] + 1
  <2>1. /\ Cardinality(Counted(a.cand)) \in Nat /\ Cardinality(Voters(1, a.cand)) \in Nat
        /\ Cardinality(Counted(a.cand)) + 1 <= Cardinality(Voters(1, a.cand))
    BY <1>1, <1>2, <1>3, CountedGrows
  <2> QED BY <1>1, <1>4, <2>1
<1> QED BY <1>1, <1>8, <1>9

\* Who wins is the first to do so.
LEMMA FirstWinner ==
    ASSUME TypeOK, TermOne, Tally, OneMajorityPerTerm, NEW a \in asks, WinElection(a)
    PROVE  \A n \in Node : ~Leads(n)
<1>1. /\ a.cand \in Node /\ ~Leads(a.cand) /\ Tally'
      /\ Cardinality(Voters(1, a.cand)) >= voteCount[a.cand] + 1
  <2>1. \A n \in Node : Leads(n)' => Leads(n) \/ (n = a.cand /\ voteCount[n] + 1 >= Majority)
    BY DEF WinElection, Leads, TypeOK
  <2> QED BY <2>1, TallyCount DEF WinElection
<1>2. Cardinality(Node) \in Nat /\ Majority \in Nat /\ 2 * Majority > Cardinality(Node)
  BY NodeAssumption, FS_CardinalityType DEF Majority
<1>3. \A n \in Node : Cardinality(Voters(1, n)) \in Nat
  <2>1. \A n \in Node : Voters(1, n) \in SUBSET Node
    BY DEF Voters
  <2> QED BY <2>1, CountedGrows
<1>4. ASSUME NEW n \in Node, Leads(n) PROVE FALSE
  <2>1. Cardinality(Counted(n)) <= Cardinality(Voters(1, n)) /\ Cardinality(Counted(n)) \in Nat
    <3>1. Counted(n) \in SUBSET Node /\ Voters(1, n) \in SUBSET Node /\ Counted(n) \subseteq Voters(1, n)
      BY DEF Counted, Voters
    <3> QED BY <3>1, CountedGrows
  <2>2. voteCount[n] \in Nat /\ voteCount[n] >= Majority /\ voteCount[n] <= Cardinality(Counted(n))
    BY <1>4 DEF TypeOK, Tally
  <2>3. IsMajority(Voters(1, n))
    BY <1>2, <1>3, <2>1, <2>2 DEF IsMajority
  <2>4. voteCount[a.cand] \in Nat /\ voteCount[a.cand] + 1 >= Majority
    BY <1>1 DEF TypeOK, WinElection
  <2>5. IsMajority(Voters(1, a.cand))
    BY <1>1, <1>2, <1>3, <2>4 DEF IsMajority
  <2>6. 1 \in {b[2] : b \in ballots}
    <3>1. <<a.voter, 1, a.cand>> \in ballots
      BY DEF Tally, WinElection, CountsVote
    <3> QED BY <3>1
  <2>7. n = a.cand
    BY <1>1, <2>3, <2>5, <2>6 DEF OneMajorityPerTerm
  <2> QED BY <1>1, <1>4, <2>7
<1> QED BY <1>4

\* A step in which nobody starts or stops to lead, and no log or call changes.
LEMMA LeadersStay ==
    ASSUME TypeOK, FirstInv, TermOne', Tally', \A n \in Node : Leads(n)' <=> Leads(n),
           UNCHANGED <<store, beats, puts, spreads, reply>>
    PROVE  FirstInv' /\ LeaderLog' = LeaderLog
<1>1. \A n \in Sending' : n \in Sending \/ (n \in Node /\ Leads(n)')
  BY DEF Sending, Leads
<1>2. \A n \in Sending : n \in Node /\ Leads(n)
  BY SendersAreNodes DEF FirstInv, OneLeads
<1>3. OneLeads'
  BY <1>1, <1>2 DEF FirstInv, OneLeads, store
<1>4. Writes'
  BY DEF FirstInv, Writes, store
<1>5. LeaderLog' = LeaderLog
  <2>1. CASE \E n \in Node : Leads(n)
    <3>1. PICK n \in Node : Leads(n) /\ \A m \in Node : Leads(m) => m = n
      BY <2>1 DEF FirstInv, OneLeads
    <3>2. Leads(n)' /\ \A m \in Node : Leads(m)' => m = n
      BY <3>1
    <3>3. LeaderLog = log[n] /\ LeaderLog' = log'[n]
      BY <3>1, <3>2, LogOfLeader DEF LeaderLog, Leads
    <3> QED BY <3>3 DEF store
  <2>2. CASE ~\E n \in Node : Leads(n)
    BY <2>2 DEF LeaderLog, Leads
  <2> QED BY <2>1, <2>2
<1> QED BY <1>3, <1>4, <1>5 DEF FirstInv

\* The election of the first term ends with one leader that has written
\* nothing.
LEMMA FirstElection ==
    ASSUME TypeOK, FirstInv, FirstTerm', OneMajorityPerTerm, TypeOK', ElectionNext
    PROVE  FirstInv' /\ LeaderLog' = LeaderLog
<1>1. TermOne'
  BY TermOneElection DEF FirstInv
<1>2. \A x \in asks : x \in Ask /\ x.cand \in Node /\ x.voter \in Node /\ x.term = 1
                      /\ term[x.cand] = 1 /\ x.ph # "no"
  BY DEF TypeOK, Ask, FirstInv, TermOne
<1>3. ballots' \subseteq Node \X Nat \X Node
  BY DEF TypeOK
<1>4. ASSUME NEW n \in Node, StartElection(n) PROVE FirstInv' /\ LeaderLog' = LeaderLog
  <2>1. /\ term[n] = 0 /\ \A x \in asks : x.cand # n
    <3>1. term[n] \in Nat /\ term'[n] = term[n] + 1 /\ term'[n] <= 1
      BY <1>4 DEF StartElection, TypeOK, FirstTerm
    <3>2. term[n] = 0
      BY <3>1
    <3> QED BY <1>2, <3>2
  <2>2. /\ asks' = asks \cup NewAsks(n) /\ ballots' = ballots \cup {<<n, 1, n>>}
        /\ voteCount'[n] = 1 /\ \A m \in Node \ {n} : voteCount'[m] = voteCount[m]
        /\ UNCHANGED <<store, beats, puts, spreads, reply>>
    BY <1>4, <2>1 DEF StartElection, TypeOK
  <2>3. \A m \in Node : Leads(m)' <=> Leads(m)
    BY <1>4 DEF StartElection, Leads, TypeOK
  <2>4. \A x \in NewAsks(n) : /\ x.cand = n /\ x.voter \in Node \ {n} /\ x.ph = "ask"
                              /\ \A y \in NewAsks(n) : x.voter = y.voter => x = y
    BY DEF NewAsks, Fellow
  <2>5. \A x, y \in asks' : x.cand = y.cand /\ x.voter = y.voter => x = y
    BY <2>1, <2>2, <2>4 DEF FirstInv, Tally
  <2>6. \A x \in asks' : x.ph = "yes" => <<x.voter, 1, x.cand>> \in ballots'
    BY <2>2, <2>4 DEF FirstInv, Tally
  <2>7. ASSUME NEW m \in Node \ {n} PROVE voteCount'[m] <= Cardinality(Counted(m)')
    <3>1. Counted(m) \in SUBSET Node /\ Counted(m)' \in SUBSET Node
      BY DEF Counted, Voters
    <3>2. Counted(m) \subseteq Counted(m)'
      BY <2>2, <2>4 DEF Counted, Voters, Pending
    <3>3. Cardinality(Counted(m)) \in Nat /\ Cardinality(Counted(m)') \in Nat
          /\ Cardinality(Counted(m)) <= Cardinality(Counted(m)')
      BY <3>1, <3>2, CountedGrows
    <3>4. voteCount[m] \in Nat
      BY DEF TypeOK
    <3>5. voteCount[m] <= Cardinality(Counted(m))
      BY DEF FirstInv, Tally
    <3>6. voteCount'[m] = voteCount[m]
      BY <2>2
    <3> QED BY <3>3, <3>4, <3>5, <3>6
  <2>8. voteCount'[n] <= Cardinality(Counted(n)')
    <3>1. n \in Counted(n)' \ {} /\ Counted(n)' \in SUBSET Node
      BY <2>1, <2>2, <2>4 DEF Counted, Voters, Pending
    <3>2. Cardinality(Counted(n)') \in Nat /\ Cardinality({}) + 1 <= Cardinality(Counted(n)')
      BY <3>1, CountedGrows
    <3> QED BY <2>2, <3>2, FS_EmptySet
  <2>9. \A m \in Node : Leads(m)' => m # n /\ voteCount'[m] >= Majority
    BY <1>4, <2>2, <2>3 DEF StartElection, Leads, FirstInv, Tally
  <2>10. Tally'
    BY <2>5, <2>6, <2>7, <2>8, <2>9 DEF Tally
  <2> QED BY <1>1, <2>2, <2>3, <2>10, LeadersStay
<1>5. ASSUME NEW a \in asks, GrantVote(a) \/ DeclineVote(a) \/ AnswerLost(a)
      PROVE  FirstInv' /\ LeaderLog' = LeaderLog
  <2>1. /\ UNCHANGED <<voteCount, status, store, beats, puts, spreads, reply>>
        /\ ballots \subseteq ballots'
    BY <1>5 DEF GrantVote, DeclineVote, AnswerLost, election
  <2>2. \A n \in Node : Leads(n)' <=> Leads(n)
    BY <2>1 DEF Leads
  <2>3. Tally'
    <3> DEFINE y == [a EXCEPT !.ph = "yes"]
               z == [a EXCEPT !.ph = "ask", !.rterm = 0]
    <3>1. /\ y.cand = a.cand /\ y.voter = a.voter
          /\ z.cand = a.cand /\ z.voter = a.voter /\ z.ph = "ask"
      BY <1>2 DEF Ask
    <3>2. CASE GrantVote(a)
      <4>1. asks' \subseteq (asks \ {a}) \cup {y} /\ <<a.voter, 1, a.cand>> \in ballots'
        BY <1>2, <3>2 DEF GrantVote
      <4> HIDE DEF y
      <4> QED BY <1>3, <2>1, <3>1, <4>1, TallyAnswers DEF FirstInv
    <3>3. CASE DeclineVote(a)
      <4>1. ~(term[a.voter] > term[a.cand])
        BY <1>2 DEF FirstInv, TermOne, TypeOK
      <4>2. asks' \subseteq (asks \ {a}) \cup {z}
        BY <3>3, <4>1 DEF DeclineVote
      <4> HIDE DEF z
      <4> QED BY <1>3, <2>1, <3>1, <4>2, TallyAnswers DEF FirstInv
    <3>4. CASE AnswerLost(a)
      <4>1. asks' \subseteq (asks \ {a}) \cup {z}
        BY <3>4 DEF AnswerLost
      <4> HIDE DEF z
      <4> QED BY <1>3, <2>1, <3>1, <4>1, TallyAnswers DEF FirstInv
    <3> QED BY <1>5, <3>2, <3>3, <3>4
  <2> QED BY <1>1, <2>1, <2>2, <2>3, LeadersStay
<1>6. ASSUME NEW a \in asks, CountVote(a) PROVE FirstInv' /\ LeaderLog' = LeaderLog
  <2>1. \A n \in Node : Leads(n)' <=> Leads(n)
    BY <1>6 DEF CountVote, Leads
  <2>2. Tally'
    BY <1>6, <2>1, TallyCount DEF CountVote, FirstInv
  <2> QED BY <1>1, <1>6, <2>1, <2>2, LeadersStay DEF CountVote
<1>7. ASSUME NEW a \in asks, WinElection(a) PROVE FirstInv' /\ LeaderLog' = LeaderLog
  <2>1. \A n \in Node : ~Leads(n)
    BY <1>7, FirstWinner DEF FirstInv
  <2>2. /\ beats = {} /\ puts = {} /\ spreads = {}
        /\ \A n \in Node : log[n] = <<>> /\ staged[n] = None
    <3>1. \A n \in Sending : n \in Node /\ Leads(n)
      BY SendersAreNodes DEF FirstInv, OneLeads
    <3>2. /\ \A x \in beats : x.from \in Sending
          /\ \A x \in puts : x.node \in Sending
          /\ \A x \in spreads : x.from \in Sending
      BY DEF Sending
    <3>3. beats = {} /\ puts = {} /\ spreads = {}
      BY <2>1, <3>1, <3>2
    <3> QED BY <2>1, <3>3 DEF FirstInv, OneLeads
  <2>3. /\ a.cand \in Node /\ \A n \in Node : Leads(n)' <=> n = a.cand
    BY <1>2, <1>7, <2>1 DEF WinElection, Leads, TypeOK
  <2>4. Tally'
    <3>1. \A n \in Node : Leads(n)' => Leads(n) \/ (n = a.cand /\ voteCount[n] + 1 >= Majority)
      BY <1>7, <2>3 DEF WinElection
    <3> QED BY <1>7, <3>1, TallyCount DEF WinElection, FirstInv
  <2>5. /\ beats' = NewBeats(a.cand) /\ puts' = {} /\ spreads' = {} /\ UNCHANGED <<store, reply>>
    BY <1>7, <2>2, <2>3 DEF WinElection, StartHeartBeat
  <2>6. OneLeads'
    <3>1. \A b \in beats' : b.from = a.cand
      BY <2>5 DEF NewBeats
    <3>2. \A n \in Sending' : n = a.cand
      BY <2>3, <2>5, <3>1 DEF Sending, Leads
    <3> QED BY <2>3, <3>2 DEF OneLeads
  <2>7. LeaderLog' = LeaderLog
    <3>1. LeaderLog' = log'[a.cand]
      BY <2>3, LogOfLeader DEF LeaderLog, Leads
    <3>2. LeaderLog = <<>>
      BY <2>1 DEF LeaderLog, Leads
    <3> QED BY <2>2, <2>3, <2>5, <3>1, <3>2 DEF store
  <2>8. Writes'
    BY <2>5 DEF Writes
  <2> QED BY <1>1, <2>4, <2>6, <2>7, <2>8 DEF FirstInv
<1>8. ASSUME NEW n \in Node, TimerEnds(n) PROVE FirstInv' /\ LeaderLog' = LeaderLog
  <2>1. UNCHANGED <<status, voteCount, asks, ballots, store, beats, puts, spreads, reply>>
    BY <1>8 DEF TimerEnds, threads
  <2>2. (\A m \in Node : Leads(m)' <=> Leads(m)) /\ Tally'
    BY <2>1 DEF Leads, FirstInv, Tally, Counted, Voters, Pending
  <2> QED BY <1>1, <2>1, <2>2, LeadersStay
<1> QED BY <1>2, <1>4, <1>5, <1>6, <1>7, <1>8 DEF ElectionNext, VoteDeclined

\* A step of handle_put of the leader.
LEMMA FirstCalls ==
    ASSUME TypeOK, FirstInv, UNCHANGED <<election, asks, ballots>>,
           NEW l \in Node, Leads(l), \A q \in puts' : q.node = l,
           \A b \in beats' : b \in beats \/ (b.term = 1 /\ b.ph # "reply" /\ b.from = l),
           \A s \in spreads' : s \in spreads \/ (s.term = 1 /\ s.from = l)
    PROVE  /\ TermOne' /\ Tally' /\ OneLeads'
           /\ LeaderLog = log[l] /\ LeaderLog' = log'[l]
<1>1. UNCHANGED <<term, status, voteCount>>
  BY DEF election
<1>2. TermOne'
  BY <1>1 DEF FirstInv, TermOne
<1>3. Tally'
  BY <1>1 DEF FirstInv, Tally, Counted, Voters, Pending, Leads
<1>4. (\A n \in Node : Leads(n)' <=> Leads(n)) /\ \A n \in Node : Leads(n) <=> n = l
  BY <1>1 DEF Leads, FirstInv, OneLeads
<1>5. \A n \in Sending' : n \in Sending \/ n = l
  BY <1>1 DEF Sending
<1>6. \A n \in Sending : n \in Node /\ Leads(n)
  BY SendersAreNodes DEF FirstInv, OneLeads
<1>7. OneLeads'
  BY <1>4, <1>5, <1>6 DEF OneLeads
<1>8. LeaderLog = log[l] /\ LeaderLog' = log'[l]
  BY <1>4, LogOfLeader DEF LeaderLog, Leads
<1> QED BY <1>2, <1>3, <1>7, <1>8

\* handle_put and spread_update keep the invariant, and each step of theirs is
\* one of the WriteLog or none.
LEMMA FirstWrites ==
    ASSUME TypeOK, FirstInv, ToOthers, OneWriter, PutNext
    PROVE  FirstInv' /\ [Promise!Next]_(Promise!vars)
<1>1. \A q \in puts : /\ q \in Put /\ q.node \in Node /\ Leads(q.node) /\ term[q.node] = 1
                      /\ q.payload \in Payload /\ q.born = 0 /\ reply[q.payload] = "open"
                      /\ q.ph = "wait" => staged[q.node] = q.payload
                      /\ \A r \in puts : q.payload = r.payload => q = r
  BY FirstMessages DEF TypeOK, Put, FirstInv, Writes
<1>2. \A n, m \in Node : Leads(n) /\ Leads(m) => n = m
  BY DEF FirstInv, OneLeads
<1>3. ASSUME NEW n \in Node, NEW p \in Payload, ClientPut(n, p)
      PROVE  FirstInv' /\ [Promise!Next]_(Promise!vars)
  <2> DEFINE q == [node |-> n, payload |-> p, born |-> 0, ph |-> "lock", ok |-> {}]
  <2>1. /\ reply[p] = "new" /\ reply' = [reply EXCEPT ![p] = "open"] /\ puts' = puts \cup {q}
        /\ Leads(n) /\ UNCHANGED <<election, store, asks, beats, spreads, ballots>>
    BY <1>3 DEF ClientPut, Leads
  <2>2. q.node = n /\ q.payload = p /\ q.born = 0 /\ q.ph = "lock"
    OBVIOUS
  <2> HIDE DEF q
  <2>3. /\ TermOne' /\ Tally' /\ OneLeads' /\ LeaderLog = log[n] /\ LeaderLog' = log'[n]
    BY <1>1, <1>2, <2>1, <2>2, FirstCalls
  <2>4. reply'[p] = "open" /\ \A r \in Payload : r # p => reply'[r] = reply[r]
    BY <2>1 DEF TypeOK
  <2>5. \A r \in puts : r.payload # p
    BY <1>1, <2>1
  <2>6. Writes'
    BY <1>1, <2>1, <2>2, <2>4, <2>5 DEF Writes, store
  <2>7. Promise!Submit(p)
    BY <2>1, <2>3 DEF Promise!Submit, store
  <2> QED BY <2>3, <2>6, <2>7 DEF FirstInv, Promise!Next
<1>4. ASSUME NEW q \in puts, PutStart(q) PROVE FirstInv' /\ [Promise!Next]_(Promise!vars)
  <2> DEFINE w == [q EXCEPT !.ph = "wait"]
  <2>1. /\ w.node = q.node /\ w.payload = q.payload /\ w.born = 0 /\ w.ph = "wait"
    BY <1>1 DEF Put
  <2>2. /\ ~locked[q.node] /\ staged' = [staged EXCEPT ![q.node] = q.payload]
        /\ puts' = (puts \ {q}) \cup {w} /\ spreads' = spreads \cup {NewSpread(q, "log")}
        /\ UNCHANGED <<election, commitIdx, log, asks, beats, reply, ballots>>
    BY <1>4 DEF PutStart, LockFree
  <2> HIDE DEF w
  <2>3. NewSpread(q, "log").term = 1 /\ NewSpread(q, "log").from = q.node
    BY <1>1 DEF NewSpread
  <2>4. /\ TermOne' /\ Tally' /\ OneLeads' /\ LeaderLog = log[q.node] /\ LeaderLog' = log'[q.node]
    BY <1>1, <1>2, <2>1, <2>2, <2>3, FirstCalls
  <2>5. \A r \in puts : r.ph # "wait" /\ r.node = q.node
    <3>1. \A r \in puts : r.node = q.node
      BY <1>1, <1>2
    <3>2. \A r \in puts : r.ph = "wait" => r \in Waiting(q.node)
      BY <3>1 DEF Waiting
    <3> QED BY <1>1, <2>2, <3>1, <3>2 DEF OneWriter
  <2>6. staged'[q.node] = q.payload
    BY <1>1, <2>2 DEF TypeOK
  <2>7. Writes'
    BY <1>1, <2>1, <2>2, <2>5, <2>6 DEF Writes
  <2> QED BY <2>2, <2>4, <2>7 DEF FirstInv, Promise!vars
<1>5. ASSUME NEW q \in puts, q.ph = "wait", puts' = puts \ {q},
             NEW code \in {"ok", "fail"}, reply' = [reply EXCEPT ![q.payload] = code]
      PROVE  Writes'
  <2>1. \A r \in puts' : r.ph # "wait"
    <3>1. \A r \in puts : r.ph = "wait" => r \in Waiting(q.node)
      BY <1>1, <1>2 DEF Waiting
    <3> QED BY <1>1, <1>5, <3>1 DEF OneWriter
  <2>2. \A r \in puts' : r \in puts /\ r.payload # q.payload
    BY <1>1, <1>5
  <2>3. \A r \in puts' : reply'[r.payload] = "open"
    BY <1>1, <1>5, <2>2 DEF TypeOK
  <2> QED BY <1>1, <2>1, <2>2, <2>3 DEF Writes
<1>6. ASSUME NEW q \in puts, PutCommit(q) PROVE FirstInv' /\ [Promise!Next]_(Promise!vars)
  <2>1. /\ q.ph = "wait" /\ puts' = puts \ {q} /\ reply' = [reply EXCEPT ![q.payload] = "ok"]
        /\ spreads' = spreads \cup {NewSpread(q, "commit")}
        /\ log' = [log EXCEPT ![q.node] = Append(log[q.node], staged[q.node])]
        /\ UNCHANGED <<election, asks, beats, ballots>>
    BY <1>1, <1>6 DEF PutCommit, Commit, Answer
  <2>2. NewSpread(q, "commit").term = 1 /\ NewSpread(q, "commit").from = q.node
    BY <1>1 DEF NewSpread
  <2>3. \A r \in puts' : r.node = q.node
    BY <1>1, <1>2, <2>1
  <2>4. /\ TermOne' /\ Tally' /\ OneLeads' /\ LeaderLog = log[q.node] /\ LeaderLog' = log'[q.node]
    BY <1>1, <2>1, <2>2, <2>3, FirstCalls
  <2>5. Writes'
    BY <1>5, <2>1
  <2>6. LeaderLog' = Append(LeaderLog, q.payload)
    BY <1>1, <2>1, <2>4 DEF TypeOK
  <2>7. Promise!Commit(q.payload)
    BY <1>1, <2>1, <2>6 DEF Promise!Commit
  <2> QED BY <1>1, <2>4, <2>5, <2>7 DEF FirstInv, Promise!Next
<1>7. ASSUME NEW q \in puts, PutRejected(q) PROVE FirstInv' /\ [Promise!Next]_(Promise!vars)
  <2>1. /\ q.ph = "wait" /\ puts' = puts \ {q} /\ reply' = [reply EXCEPT ![q.payload] = "fail"]
        /\ UNCHANGED <<election, store, asks, beats, spreads, ballots>>
    BY <1>1, <1>7 DEF PutRejected, Answer
  <2>2. \A r \in puts' : r.node = q.node
    BY <1>1, <1>2, <2>1
  <2>3. /\ TermOne' /\ Tally' /\ OneLeads' /\ LeaderLog = log[q.node] /\ LeaderLog' = log'[q.node]
    BY <1>1, <2>1, <2>2, FirstCalls
  <2>4. Writes'
    BY <1>5, <2>1
  <2>5. Promise!Reject(q.payload)
    BY <1>1, <2>1, <2>3 DEF Promise!Reject, store
  <2> QED BY <1>1, <2>3, <2>4, <2>5 DEF FirstInv, Promise!Next
<1>8. \A q \in puts : ~PutRaises(q)
  BY <1>1, NoneAssumption DEF PutRaises
<1>9. ASSUME NEW s \in spreads, SpreadStep(s) PROVE FirstInv' /\ [Promise!Next]_(Promise!vars)
  <2>1. FirstInv' /\ LeaderLog' = LeaderLog
    <3>1. /\ Hears /\ (\E n \in Node : Leads(n)) /\ SamePuts
          /\ UNCHANGED <<voteCount, asks, beats, reply, ballots>>
          /\ \A x \in spreads' : x.term = 1 /\ \E y \in spreads : x.from = y.from
      BY <1>9, FirstSpread DEF FirstInv
    <3>2. \A x \in beats' : x.term = 1 /\ x.ph # "reply" /\ \E b \in beats : x.from = b.from
      BY <3>1 DEF FirstInv, TermOne
    <3> QED BY <3>1, <3>2, HearsStep
  <2>2. UNCHANGED reply
    BY <1>9 DEF SpreadStep, SpreadDelivered, SpreadLost, SpreadNext
  <2> QED BY <2>1, <2>2 DEF Promise!vars
<1> QED BY <1>3, <1>4, <1>6, <1>7, <1>8, <1>9 DEF PutNext, PutStep

\* Every step of the first term keeps the invariant, and is one of the
\* WriteLog or none.
LEMMA FirstStep ==
    ASSUME TypeOK, ToOthers, OneWriter, OneMajorityPerTerm, FirstInv, [Next]_vars,
           TypeOK', FirstTerm'
    PROVE  FirstInv' /\ [Promise!Next]_(Promise!vars)
<1>1. CASE ElectionNext
  <2>1. FirstInv' /\ LeaderLog' = LeaderLog
    BY <1>1, FirstElection
  <2>2. UNCHANGED reply
    BY <1>1 DEF ElectionNext, StartElection, TimerEnds, GrantVote, DeclineVote, AnswerLost,
                CountVote, WinElection, VoteDeclined
  <2> QED BY <2>1, <2>2 DEF Promise!vars
<1>2. CASE BeatNext
  <2>1. /\ Hears /\ \E n \in Node : Leads(n)
        /\ UNCHANGED <<voteCount, locked, asks, puts, spreads, reply, ballots>>
        /\ \A x \in beats' : x.term = 1 /\ x.ph # "reply" /\ \E b \in beats : x.from = b.from
    BY <1>2, FirstBeat DEF FirstInv
  <2>2. SamePuts
    BY <2>1, PutsStay
  <2>3. \A x \in spreads' : x.term = 1 /\ \E y \in spreads : x.from = y.from
    BY <2>1 DEF FirstInv, TermOne
  <2>4. FirstInv' /\ LeaderLog' = LeaderLog
    BY <2>1, <2>2, <2>3, HearsStep
  <2> QED BY <2>1, <2>4 DEF Promise!vars
<1>3. CASE PutNext
  BY <1>3, FirstWrites
<1>4. CASE UNCHANGED vars
  <2>1. TermOne' /\ Tally' /\ OneLeads' /\ Writes' /\ LeaderLog' = LeaderLog /\ reply' = reply
    BY <1>4 DEF vars, election, store, threads, FirstInv, TermOne, Tally, OneLeads, Writes,
                Counted, Voters, Pending, Leads, Sending, LeaderLog
  <2> QED BY <2>1 DEF FirstInv, Promise!vars
<1> QED BY <1>1, <1>2, <1>3, <1>4 DEF Next

\* Nothing is under way at first.
LEMMA FirstInit == Init => FirstInv /\ Promise!Init /\ ToOthers
<1> SUFFICES ASSUME Init PROVE FirstInv /\ Promise!Init /\ ToOthers
  OBVIOUS
<1>1. /\ \A n \in Node : /\ term[n] = 0 /\ status[n] = "FOLLOWER" /\ voteCount[n] = 0
                         /\ log[n] = <<>> /\ staged[n] = None
      /\ asks = {} /\ beats = {} /\ puts = {} /\ spreads = {}
  BY DEF Init
<1>2. \A n \in Node : voteCount[n] <= Cardinality(Counted(n))
  <2>1. \A n \in Node : Counted(n) \in SUBSET Node
    BY DEF Counted, Voters
  <2>2. \A n \in Node : Cardinality(Counted(n)) \in Nat
    BY <2>1, CountedGrows
  <2> QED BY <1>1, <2>2
<1>3. Tally
  BY <1>1, <1>2 DEF Tally, Leads
<1>4. LeaderLog = <<>>
  BY <1>1 DEF LeaderLog
<1>5. TermOne /\ OneLeads /\ Writes
  BY <1>1 DEF TermOne, OneLeads, Writes, Leads, Sending
<1> QED BY <1>1, <1>3, <1>4, <1>5 DEF FirstInv, Promise!Init, ToOthers, Init

\* As long as no node begins a second term, what the leader's log holds and
\* what handle_put answers are steps of a WriteLog: the safety half of
\* KeepsPromise, for any number of nodes and writes.
THEOREM FirstTermKeepsPromise ==
    Spec /\ []FirstTerm => Promise!Init /\ [][Promise!Next]_(Promise!vars)
<1>1. Init => FirstInv /\ Promise!Init /\ ToOthers
  BY FirstInit
<1>2. TypeOK /\ ToOthers /\ [Next]_vars => ToOthers'
  BY ToOthersStep
<1>3. TypeOK /\ ToOthers /\ OneWriter /\ OneMajorityPerTerm /\ FirstInv /\ [Next]_vars
        /\ TypeOK' /\ FirstTerm' => FirstInv' /\ [Promise!Next]_(Promise!vars)
  BY FirstStep
<1>4. Spec => CrashSpec
  <2>1. [Next]_vars => [Next \/ Crash]_vars
    OBVIOUS
  <2> QED BY <2>1, PTL DEF Spec, CrashSpec
<1> QED BY <1>1, <1>2, <1>3, <1>4, SpecType, WritersExclude, MajorityUnique, PTL DEF Spec

\* So in the first term the leader's log holds the writes that were answered
\* True, each once, and no other: the promise of handle_put to its callers.
THEOREM FirstTermAcknowledges ==
    Spec /\ []FirstTerm => [](Promise!TypeOK /\ Promise!Acknowledged)
<1> DEFINE Kept == Promise!TypeOK /\ Promise!Acknowledged
<1>1. Promise!Init => Kept
  BY DEF Promise!Init, Promise!TypeOK, Promise!Acknowledged
<1>2. Kept /\ [Promise!Next]_(Promise!vars) => Kept'
  <2> SUFFICES ASSUME Kept, [Promise!Next]_(Promise!vars) PROVE Kept'
    OBVIOUS
  <2> USE DEF Promise!TypeOK, Promise!Acknowledged
  <2>1. ASSUME NEW p \in Payload, Promise!Submit(p) \/ Promise!Reject(p) PROVE Kept'
    BY <2>1 DEF Promise!Submit, Promise!Reject
  <2>2. ASSUME NEW p \in Payload, Promise!Commit(p) PROVE Kept'
    BY <2>2 DEF Promise!Commit
  <2>3. CASE UNCHANGED Promise!vars
    BY <2>3 DEF Promise!vars
  <2> QED BY <2>1, <2>2, <2>3 DEF Promise!Next
<1> HIDE DEF Kept
<1>3. Promise!Init /\ [][Promise!Next]_(Promise!vars) => []Kept
  BY <1>1, <1>2, PTL
<1> QED BY <1>3, FirstTermKeepsPromise, PTL DEF Kept

=============================================================================
