------------------------------ MODULE Services ------------------------------
(***************************************************************************)
(* The parts around the stores side by side: notification, the watcher,    *)
(* accounts, the cache of endpoints, the library that calls the stores.     *)
(* They share no state, so an execution of all of them is one of each; that *)
(* of TLC runs the one in focus and leaves the others where they begin.     *)
(***************************************************************************)
EXTENDS EndpointCache, TLC

CONSTANTS
    Device, Server, Event, MaxStops, MaxQueue,   \* Notification
    Inode, Name, MaxOps,                         \* Watcher
    UserName, Password, MaxFaults,               \* Account
    Replica,                                     \* KVClient
    k1, v1, d1, i1, p1, e1

\* The marks are no values: of a poll without an answer, of a name that is free,
\* of monitoring_path among the directories, of directories not in the tree, of a
\* path where nothing is.
ASSUME PollsFit == None \notin Event \cup {"false"} /\ MaxStops \in Nat
ASSUME AccountsFit == None \notin Password /\ MaxFaults \in Nat
ASSUME TreesFit ==
    /\ "root" \notin Inode /\ Name \cap {"new", "gone", "outside"} = {}
    /\ IsFiniteSet(Name) /\ MaxOps \in Nat
ASSUME PathsFit == None \notin {"", "a", "dir"}
ASSUME ServersFit == IsFiniteSet(Replica)

VARIABLES
    posts, emitted, subs, up, pc, at, answer, queue, holds, handled, stops,
    place, file, watched, inotify, path, snapshot, moved, eventQueue, draining, row, known,
    clean, ops,
    name, password, redis, root, used, signup, joined, token, request, broken, late, faults,
    status, leader, sending, phase, url, untried, result, unfinished, done,
    focus

N == INSTANCE Notification
W == INSTANCE Watcher WITH queue <- eventQueue
A == INSTANCE Account WITH Name <- UserName, pc <- request
K == INSTANCE KVClient WITH Node <- Replica, at <- url, late <- unfinished

notification == <<posts, emitted, subs, up, pc, at, answer, queue, holds, handled, stops>>
watching == <<place, file, watched, inotify, path, snapshot, moved, eventQueue, draining, row,
              known, clean, ops>>
account == <<name, password, redis, root, used, signup, joined, token, request, broken, late,
             faults>>
calling == <<status, leader, sending, phase, url, untried, result, unfinished, done>>
all == <<vars, notification, watching, account, calling, focus>>

MCLength == [x \in Key \cup Value |-> IF x \in {k1, v1} THEN 1 ELSE IF x \in Key THEN 2 ELSE 5]

\* Trees that differ from another in the names of directories are left out.
Rank(i) == IF place[i] \in Name THEN 0 ELSE IF place[i] = "outside" THEN 1 ELSE 2
MCTree ==
    /\ \A i \in Inode : Rank(i1) <= Rank(i)
    /\ place[i1] \in Name => place[i1] = p1

MCInit ==
    /\ Init /\ N!Init /\ W!Init /\ A!Init /\ K!Init
    /\ focus \in {"cache", "notification", "watcher", "account", "library"}
    /\ MCTree
    /\ focus # "library" => url = (CHOOSE n \in Replica : TRUE)
    /\ focus # "watcher" => \A i \in Inode : place[i] = "new"
    /\ focus # "account" =>
         \A d \in Device : name[d] = (CHOOSE n \in UserName : TRUE) /\ signup[d] = "no"
                              /\ password[d] = (CHOOSE p \in Password : TRUE)

Cache == focus = "cache"
Notifying == focus = "notification"
Watching == focus = "watcher"
Accounting == focus = "account"
Calling == focus = "library"

\* e1 is the first event; the queue of one device gets as long as MaxQueue.
MCNotification ==
    /\ N!Next /\ (emitted' = {} \/ e1 \in emitted')
    /\ \A d \in Device \ {d1} : Len(queue'[d]) <= 1

MCNext ==
    /\ UNCHANGED focus
    /\ IF Cache THEN Next ELSE UNCHANGED vars
    /\ IF Notifying THEN MCNotification ELSE UNCHANGED notification
    /\ IF Watching THEN W!Next ELSE UNCHANGED watching
    /\ IF Accounting THEN A!Next ELSE UNCHANGED account
    /\ IF Calling THEN K!Next ELSE UNCHANGED calling

\* The fairness of each, for the one in focus.
MCFairness ==
    /\ WF_vars(Cache /\ (Evict \/ Insert))
    /\ \A d \in Device :
         /\ WF_notification(Notifying /\ N!Expire(d))
         /\ WF_notification(Notifying /\ N!OpenPoll(d))
         /\ WF_notification(Notifying /\ N!Wakes(d))
         /\ WF_notification(Notifying /\ N!Receive(d))
         /\ WF_notification(Notifying /\ (N!Takes(d) \/ N!Handles(d)))
         /\ WF_account(Accounting /\ (A!Reserve(d) \/ A!MakeRoot(d)))
         /\ WF_account(Accounting /\ (A!Login(d) \/ A!Send(d)))
    /\ WF_calling(Calling /\ K!Library)
    /\ WF_notification(Notifying /\ \E e \in Event, s \in Server : N!PostFails(e, s) \/ N!Broadcast(e, s))

MCSpec == MCInit /\ [][MCNext]_all /\ MCFairness

-----------------------------------------------------------------------------
\* The type invariants of the five modules.
TypesOK == TypeOK /\ N!TypeOK /\ W!TypeOK /\ A!TypeOK /\ K!TypeOK

\* Notification: broadcastNotification answers every poll that waits.
ReachesOpen == N!ReachesOpen

\* Notification: what a poll was answered with is processed by the device.
AnswerIsHandled == N!AnswerIsHandled

\* Notification: a device always gets to an open poll, as long as a server runs.
KeepsPolling == Notifying => N!KeepsPolling

\* Watcher: when its events are processed the servers know the user's tree.
KnownIsTree == W!KnownIsTree

\* Watcher: wd_to_path has the path of every watched directory.
PathsRight == W!PathsRight

\* Account: a name that was signed up is that device's alone, with a root.
NameIsTheirs == A!NameIsTheirs

\* Account: signups leave a root directory that is in use alone.
RootKept == A!RootKept

\* Account: makeRequest returns.
RequestEnds == A!RequestEnds

\* Library: a call has its put done at most once for each server it tried.
OncePerServer == K!OncePerServer

\* Library: redirections end when the group agrees on a leader.
RedirectionEnds == Calling => K!RedirectionEnds
=============================================================================
