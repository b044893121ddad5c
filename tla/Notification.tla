---------------------------- MODULE Notification ----------------------------
(***************************************************************************)
(* How an event reaches the devices of its user: the AsyncBroadcaster of   *)
(* the server that changed something posts it to every notification server *)
(* (src/CODE/src/notification_server), which answers the long polls that   *)
(* are open; a device polls (client/notification) and handles what it got  *)
(* (client/process_remote).  One user.                                     *)
(***************************************************************************)
EXTENDS Integers, Sequences, FiniteSets

CONSTANTS
    Device, Server, Event,
    None,         \* no answer yet
    MaxStops,     \* bound: how often a notification server stops
    MaxQueue      \* bound: what waits in a device's queue

VARIABLES
    posts,        \* threads of sendBroadcastRequest that have not posted yet
    emitted,      \* the events that were broadcast
    subs,         \* subscriptions_[user_id] of a server; a poll that was answered
                  \* when its timer expired stays in it
    up,
    pc, at,       \* run() of a device; the server it polls
    answer,       \* what was written first to the socket of its poll
    queue, holds, \* notification_queue; does process_remote hold its mutex?
    handled,      \* the events it has processed
    stops

vars == <<posts, emitted, subs, up, pc, at, answer, queue, holds, handled, stops>>

Poll == Device \X {"open", "expired"}
Message == Event \cup {"false"}

TypeOK ==
    /\ posts \subseteq Event \X Server /\ emitted \subseteq Event
    /\ subs \in [Server -> SUBSET Poll] /\ up \in [Server -> BOOLEAN]
    /\ pc \in [Device -> {"poll", "wait", "sleep"}] /\ at \in [Device -> {None} \cup Server]
    /\ answer \in [Device -> {None} \cup Message]
    /\ queue \in [Device -> Seq(Message)] /\ holds \in [Device -> BOOLEAN]
    /\ \A d \in Device : handled[d] \subseteq Event
    /\ stops \in 0..MaxStops

Init ==
    /\ posts = {} /\ emitted = {} /\ stops = 0
    /\ subs = [s \in Server |-> {}] /\ up = [s \in Server |-> TRUE]
    /\ pc = [d \in Device |-> "poll"] /\ at = [d \in Device |-> None]
    /\ answer = [d \in Device |-> None]
    /\ queue = [d \in Device |-> <<>>] /\ holds = [d \in Device |-> FALSE]
    /\ handled = [d \in Device |-> {}]

device == <<pc, at, queue, holds, handled>>

-----------------------------------------------------------------------------
(* The servers. *)

\* broadcast(): a detached thread per server, in no order.
Emit(e) ==
    /\ e \notin emitted /\ emitted' = emitted \cup {e}
    /\ posts' = posts \cup ({e} \X Server)
    /\ UNCHANGED <<subs, up, answer, device, stops>>

PostFails(e, s) ==
    /\ <<e, s>> \in posts /\ ~up[s]
    /\ posts' = posts \ {<<e, s>>}
    /\ UNCHANGED <<emitted, subs, up, answer, device, stops>>

BroadcastToOthers(e, s) ==   \* mutant: the device that caused the event is passed over
    /\ <<e, s>> \in posts /\ up[s]
    /\ posts' = posts \ {<<e, s>>}
    /\ subs' = [subs EXCEPT ![s] = {}]
    /\ \E origin \in Device :
         answer' = [d \in Device |-> IF <<d, "open">> \in subs[s] /\ d # origin THEN e ELSE answer[d]]
    /\ UNCHANGED <<emitted, up, device, stops>>

\* broadcastNotification takes all polls of the user out of subscriptions_
\* and answers them.  The socket of one that has expired is shut.
Broadcast(e, s) ==
    /\ <<e, s>> \in posts /\ up[s]
    /\ posts' = posts \ {<<e, s>>}
    /\ subs' = [subs EXCEPT ![s] = {}]
    /\ answer' = [d \in Device |-> IF <<d, "open">> \in subs[s] THEN e ELSE answer[d]]
    /\ UNCHANGED <<emitted, up, device, stops>>

ExpireAll(d) ==   \* mutant: the user's polls are forgotten, not this one
    /\ pc[d] = "wait" /\ <<d, "open">> \in subs[at[d]]
    /\ answer' = [answer EXCEPT ![d] = "false"]
    /\ subs' = [subs EXCEPT ![at[d]] = {}]
    /\ UNCHANGED <<posts, emitted, up, device, stops>>

\* The timer: sendTimeoutResponse, and the poll stays in subscriptions_.
Expire(d) ==
    /\ pc[d] = "wait" /\ <<d, "open">> \in subs[at[d]]
    /\ answer' = [answer EXCEPT ![d] = "false"]
    /\ subs' = [subs EXCEPT ![at[d]] = (@ \ {<<d, "open">>}) \cup {<<d, "expired">>}]
    /\ UNCHANGED <<posts, emitted, up, device, stops>>

\* A server stops and its connections break: http::read of the polls throws.
Stop(s) ==
    /\ up[s] /\ stops < MaxStops /\ stops' = stops + 1
    /\ up' = [up EXCEPT ![s] = FALSE]
    /\ subs' = [subs EXCEPT ![s] = {}]
    /\ pc' = [d \in Device |-> IF <<d, "open">> \in subs[s] THEN "sleep" ELSE pc[d]]
    /\ at' = [d \in Device |-> IF <<d, "open">> \in subs[s] THEN None ELSE at[d]]
    /\ UNCHANGED <<posts, emitted, answer, queue, holds, handled>>

Start(s) ==
    /\ ~up[s] /\ up' = [up EXCEPT ![s] = TRUE]
    /\ UNCHANGED <<posts, emitted, subs, answer, device, stops>>

-----------------------------------------------------------------------------
(* NotificationClient. *)

\* The load balancer chooses a server; if it cannot, poll_notifications
\* throws and run() sleeps.
OpenPoll(d) ==
    /\ pc[d] = "poll"
    /\ \/ \E s \in Server :
            /\ up[s] /\ at' = [at EXCEPT ![d] = s] /\ pc' = [pc EXCEPT ![d] = "wait"]
            /\ subs' = [subs EXCEPT ![s] = @ \cup {<<d, "open">>}]
       \/ /\ \A s \in Server : ~up[s]
          /\ pc' = [pc EXCEPT ![d] = "sleep"] /\ UNCHANGED <<at, subs>>
    /\ UNCHANGED <<posts, emitted, up, answer, queue, holds, handled, stops>>

Wakes(d) ==
    /\ pc[d] = "sleep" /\ pc' = [pc EXCEPT ![d] = "poll"]
    /\ UNCHANGED <<posts, emitted, subs, up, answer, at, queue, holds, handled, stops>>

\* "false" is JSON as well and is queued.  The queue is locked while
\* process_remote empties it.
Receive(d) ==
    /\ pc[d] = "wait" /\ answer[d] # None /\ ~holds[d] /\ Len(queue[d]) < MaxQueue
    /\ queue' = [queue EXCEPT ![d] = Append(@, answer[d])]
    /\ pc' = [pc EXCEPT ![d] = "poll"]
    /\ answer' = [answer EXCEPT ![d] = None] /\ at' = [at EXCEPT ![d] = None]
    /\ UNCHANGED <<posts, emitted, subs, up, holds, handled, stops>>

-----------------------------------------------------------------------------
(* process_remote_events. *)

\* cv.wait ends when the queue is not empty.
Takes(d) ==
    /\ ~holds[d] /\ queue[d] # <<>>
    /\ holds' = [holds EXCEPT ![d] = TRUE]
    /\ UNCHANGED <<posts, emitted, subs, up, answer, pc, at, queue, handled, stops>>

HandlesBatch(d) ==   \* mutant: the message of a timeout ends the batch
    /\ holds[d]
    /\ handled' = [handled EXCEPT ![d] = @ \cup ({Head(queue[d])} \cap Event)]
    /\ queue' = [queue EXCEPT ![d] = IF Head(@) = "false" THEN <<>> ELSE Tail(@)]
    /\ holds' = [holds EXCEPT ![d] = queue'[d] # <<>>]
    /\ UNCHANGED <<posts, emitted, subs, up, answer, pc, at, stops>>

\* process_event, for one element; after the last it waits again.
Handles(d) ==
    /\ holds[d]
    /\ handled' = [handled EXCEPT ![d] = @ \cup ({Head(queue[d])} \cap Event)]
    /\ queue' = [queue EXCEPT ![d] = Tail(@)]
    /\ holds' = [holds EXCEPT ![d] = queue'[d] # <<>>]
    /\ UNCHANGED <<posts, emitted, subs, up, answer, pc, at, stops>>

-----------------------------------------------------------------------------
Next ==
    \/ \E e \in Event : Emit(e)
    \/ \E s \in Server : Stop(s) \/ Start(s) \/ \E e \in Event : PostFails(e, s) \/ Broadcast(e, s)
    \/ \E d \in Device : Expire(d) \/ OpenPoll(d) \/ Wakes(d) \/ Receive(d) \/ Takes(d) \/ Handles(d)

\* Timers expire, sleeps end, posts return, mutexes are handed on.  Nothing
\* has to be broadcast; a server that stopped need not start again.
Fairness ==
    /\ \A d \in Device : WF_vars(Expire(d)) /\ WF_vars(OpenPoll(d)) /\ WF_vars(Wakes(d))
                          /\ WF_vars(Receive(d)) /\ WF_vars(Takes(d) \/ Handles(d))
    /\ WF_vars(\E e \in Event, s \in Server : PostFails(e, s) \/ Broadcast(e, s))

Spec == Init /\ [][Next]_vars /\ Fairness

-----------------------------------------------------------------------------
\* An event that a server is told of answers every poll that waits there,
\* whatever other polls of the user expired before.
ReachesOpen ==
    [][\A e \in Event, s \in Server :
         <<e, s>> \in posts \ posts' /\ up[s] =>
            \A d \in Device : pc[d] = "wait" /\ at[d] = s /\ answer[d] = None
                                => answer'[d] = e]_vars

\* What a poll was answered with is processed.
AnswerIsHandled ==
    \A d \in Device, e \in Event : pc[d] = "wait" /\ answer[d] = e ~> e \in handled[d]

\* A device has an open poll again and again, as long as a server runs.
KeepsPolling ==
    \A d \in Device :
        []<>(\/ \E s \in Server : <<d, "open">> \in subs[s]
             \/ \A s \in Server : ~up[s])
=============================================================================
