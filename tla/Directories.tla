---------------------------- MODULE Directories ----------------------------
(***************************************************************************)
(* The tree of directories of one user on the metaserver and the devices:  *)
(* the boot scan of src/CODE/src/client/boot, the handlers of local and    *)
(* remote events of directories, and the rows of RocksDB that list         *)
(* subdirectories.  A request to the metaserver is one step (Metaserver    *)
(* has its calls one by one); files are ClientSync's.                      *)
(***************************************************************************)
EXTENDS Integers, Sequences, FiniteSets, Bags, SequencesExt, Subsequences

CONSTANTS
    Device, Dir,
    Root, Parent,     \* monitoring_path; the path up to the last slash
    None,             \* no row, no directory
    MaxOps,           \* bound: what users do
    MaxMishaps        \* bound: crashes, failed requests, lost notices

Path == Dir \ {Root}

VARIABLES
    meta, listing,            \* the metaserver: directories, their subdirectories
    wire,                     \* notices on their way to a device
    disk, row,                \* monitoring_path; Directory_Metadata::directories
    inotify, watched,         \* the kernel's events; directories that have a watch
    snapshot, queue,          \* of watch_directory; eventQueue (its set is eventMap)
    draining,                 \* process_local_events has mtx
    phase, calls,             \* off, at boot, or on; calls of the boot scan to return
    job,                      \* the request of the handler that has db_mutex
    unseen,                   \* history: made, and not known here or there before a boot
    spoiled,                  \* history: directories with a loss that is known
    ops, mishaps              \* how many there were

server == <<meta, listing, wire>>
watcher == <<watched, snapshot>>
events == <<inotify, queue, draining>>
boot == <<phase, calls>>
bounds == <<ops, mishaps>>
history == <<unseen, spoiled>>
vars == <<server, disk, row, watcher, events, boot, job, history, bounds>>

Idle == [at |-> "idle", dir |-> None]
Signal == [mask : {"create", "delete", "from"}, dir : Path]
Notice == [to : Device, type : {"DIR+", "DIR-"}, dir : Path]
Call == [op : {"check", "fetch", "store", "compare", "send"}, dir : Dir, list : SUBSET Path]

TypeOK ==
    /\ meta \subseteq Dir /\ listing \in [Dir -> SUBSET Path]
    /\ IsABag(wire) /\ BagToSet(wire) \subseteq Notice
    /\ disk \in [Device -> SUBSET Dir]
    /\ row \in [Device -> [Dir -> {None} \cup SUBSET Path]]
    /\ watched \in [Device -> SUBSET Dir] /\ snapshot \in [Device -> SUBSET Dir]
    /\ inotify \in [Device -> Seq(Signal)] /\ queue \in [Device -> Seq(Signal)]
    /\ \A d \in Device : IsInjective(queue[d])
    /\ draining \in [Device -> BOOLEAN]
    /\ phase \in [Device -> {"off", "pull", "push", "on"}]
    /\ calls \in [Device -> Seq(Call)]
    /\ job \in [Device -> [at : {"idle", "create", "store", "delete"}, dir : Path \cup {None}]]
    /\ unseen \in [Device -> SUBSET Path] /\ spoiled \subseteq Path
    /\ ops \in 0..MaxOps /\ mishaps \in 0..MaxMishaps

-----------------------------------------------------------------------------
(* The tree. *)

\* A path and those it lies in; a path and those that lie in it.
Above[p \in Dir] == IF p = Root THEN {} ELSE {p} \cup Above[Parent[p]]
Below(p) == {q \in Path : p \in Above[q]}
Related(p) == Above[p] \cup Below(p)
ChildrenIn(S, p) == {q \in S \ {Root} : Parent[q] = p}
Trees == {S \in SUBSET Dir : Root \in S /\ \A p \in S \ {Root} : Parent[p] \in S}

\* What list-directory shows from the root on.
Reachable == {p \in meta : \A q \in Above[p] : Parent[q] \in meta /\ q \in listing[Parent[q]]}

\* Every device runs and has what the servers have.
Init ==
    /\ \E S \in Trees :
         /\ meta = S
         /\ listing = [p \in Dir |-> ChildrenIn(S, p)]
         /\ disk = [d \in Device |-> S] /\ watched = disk /\ snapshot = disk
         /\ row = [d \in Device |-> [p \in Dir |-> IF p \in S THEN ChildrenIn(S, p) ELSE None]]
    /\ wire = EmptyBag
    /\ inotify = [d \in Device |-> <<>>] /\ queue = [d \in Device |-> <<>>]
    /\ draining = [d \in Device |-> FALSE]
    /\ phase = [d \in Device |-> "on"] /\ calls = [d \in Device |-> <<>>]
    /\ job = [d \in Device |-> Idle]
    /\ unseen = [d \in Device |-> {}] /\ spoiled = {} /\ ops = 0 /\ mishaps = 0

HasRow(d, p) == row[d][p] # None
Spoil(S) == spoiled' = spoiled \cup S
Unseen(D, p) == unseen' = [d \in Device |-> unseen[d] \cup IF d \in D THEN Below(p) ELSE {}]

-----------------------------------------------------------------------------
(* The kernel. *)

Signals(mask, dirs) == [i \in DOMAIN dirs |-> [mask |-> mask, dir |-> dirs[i]]]
Hears(d, mask, dirs) == inotify' = [inotify EXCEPT ![d] = @ \o Signals(mask, dirs)]

\* Is a change of the entry reported?  There are no watches before the boot
\* is over.
Reported(d, p) == phase[d] = "on" /\ Parent[p] \in watched[d]

\* create_directories: of those that are missing only the topmost is heard
\* of, the others are made before it can be watched.
MakeDirs(d, p) ==
    LET missing == Above[p] \ disk[d] IN
    /\ disk' = [disk EXCEPT ![d] = @ \cup missing]
    /\ Hears(d, "create", SetToSeq({q \in missing : Parent[q] \in disk[d] /\ Reported(d, q)}))
    /\ UNCHANGED watcher

\* Orders in which a directory comes before the one it lies in.
Upwards(S) == {s \in SetToSeqs(S) : \A i, j \in DOMAIN s : s[j] \in Below(s[i]) => j <= i}

\* remove_all, from the bottom.
Erase(d, p) ==
    LET gone == Below(p) \cap disk[d] IN
    /\ disk' = [disk EXCEPT ![d] = @ \ gone]
    /\ watched' = [watched EXCEPT ![d] = @ \ gone]
    /\ \E dirs \in Upwards({q \in gone : Reported(d, q)}) : Hears(d, "delete", dirs)
    /\ UNCHANGED snapshot

-----------------------------------------------------------------------------
(* The database: metadata.cpp. *)

SetRows(d, new) == row' = [row EXCEPT ![d] = new]

\* What removeDirectoryFromDatabase removes: the rows that lists lead to.
Linked(d, p) ==
    {q \in Below(p) : HasRow(d, p) /\ \A r \in (Above[q] \cap Below(p)) \ {p} :
                          HasRow(d, Parent[r]) /\ r \in row[d][Parent[r]]}
Without(d, gone) == [q \in Dir |-> IF q \in gone THEN None ELSE row[d][q]]

\* addDirectoryToDirectory, removeDirectoryFromDirectory: nothing happens
\* without a row of the parent.
Listed(rows, p) ==
    IF rows[Parent[p]] = None THEN rows ELSE [rows EXCEPT ![Parent[p]] = @ \cup {p}]
Unlisted(rows, p) ==
    IF rows[Parent[p]] = None THEN rows ELSE [rows EXCEPT ![Parent[p]] = @ \ {p}]

ForgetUnlists(d, p) == SetRows(d, Unlisted(row[d], p))   \* mutant: the rows stay
Forget(d, p) == SetRows(d, Unlisted(Without(d, Linked(d, p)), p))

-----------------------------------------------------------------------------
(* The metaserver. *)

\* A notice finds the devices that poll, but for the one that caused it.
Tell(d, p, type) ==
    wire' = wire (+) SetToBag({[to |-> e, type |-> type, dir |-> p] :
                                e \in {e \in Device \ {d} : phase[e] = "on"}})

\* Devices that boot may have asked for the listing before.
Missing(d) == {e \in Device \ {d} : phase[e] \in {"pull", "push"}}

\* create_directory: 400 if there is one, 404 without its parent.
Create(d, p) ==
    IF p \in meta \/ Parent[p] \notin meta THEN UNCHANGED server
    ELSE /\ meta' = meta \cup {p}
         /\ listing' = [listing EXCEPT ![p] = {}, ![Parent[p]] = @ \cup {p}]
         /\ Tell(d, p, "DIR+")

\* delete_path: the path alone; what lies in it stays.
Delete(d, p) ==
    IF p \notin meta THEN UNCHANGED server
    ELSE /\ meta' = meta \ {p}
         /\ IF Parent[p] \in meta
            THEN listing' = [listing EXCEPT ![Parent[p]] = @ \ {p}] /\ Tell(d, p, "DIR-")
            ELSE UNCHANGED <<listing, wire>>

-----------------------------------------------------------------------------
(* The user. *)

\* Is something about these on its way?
Busy(S) ==
    \/ \E n \in BagToSet(wire) : n.dir \in S
    \/ \E d \in Device :
         \/ phase[d] # "on" \/ job[d].dir \in S
         \/ \E s \in ToSet(inotify[d]) \cup ToSet(queue[d]) : s.dir \in S

Deleting(S) ==
    \/ \E n \in BagToSet(wire) : n.dir \in S /\ n.type = "DIR-"
    \/ \E d \in Device :
         \/ job[d].dir \in S /\ job[d].at = "delete"
         \/ \E s \in ToSet(inotify[d]) \cup ToSet(queue[d]) : s.dir \in S /\ s.mask # "create"

Does == ops < MaxOps /\ ops' = ops + 1

\* A directory that is made where nothing watches is not noticed until the
\* next boot, and a deletion of it may overtake the creation.
UserMakes(d, p) ==
    /\ Does /\ p \notin disk[d] /\ Parent[p] \in disk[d]
    /\ MakeDirs(d, p)
    /\ Unseen(IF phase[d] = "off" \/ Reported(d, p) THEN {} ELSE {d}, p)
    /\ Spoil(IF Deleting(Above[p]) THEN Related(p) ELSE {})
    /\ UNCHANGED <<server, row, queue, draining, boot, job, mishaps>>

\* A deletion overlaps with other work on the directory, is not noticed, or
\* takes a directory along that somebody made there unnoticed.
Overlaps(d, p) == Busy(Below(p)) \/ ~Reported(d, p) \/ Below(p) \cap spoiled # {}
                    \/ \E e \in Device : Below(p) \cap unseen[e] # {}

UserRemoves(d, p) ==
    /\ Does /\ p \in disk[d] /\ ChildrenIn(disk[d], p) = {}
    /\ Erase(d, p)
    /\ Spoil(IF Overlaps(d, p) THEN Related(p) ELSE {})
    /\ UNCHANGED <<unseen, server, row, queue, draining, boot, job, mishaps>>

\* A directory is moved out of the tree: what lies in it is reported as
\* files, which process_event ignores, and stays at the servers.
UserMovesOut(d, p) ==
    /\ Does /\ p \in disk[d]
    /\ LET gone == Below(p) \cap disk[d] IN
       /\ disk' = [disk EXCEPT ![d] = @ \ gone]
       /\ watched' = [watched EXCEPT ![d] = @ \ gone]
       /\ Hears(d, "from", IF Reported(d, p) THEN <<p>> ELSE <<>>)
       /\ Spoil(IF Overlaps(d, p) THEN Related(p) ELSE Below(p) \ {p})
    /\ UNCHANGED <<unseen, server, row, snapshot, queue, draining, boot, job, mishaps>>

-----------------------------------------------------------------------------
(* watch_directory and process_local_events. *)

\* eventQueue.push unless eventMap has the event.
PushIf(d, dirs, mask) == queue' = [queue EXCEPT ![d] = Distinct(@ \o Signals(mask, dirs))]

\* One event of inotify.  What the snapshot has below a directory that went is
\* reported with it, as directories only if they are there again by now.
Watch(d) ==
    /\ phase[d] = "on" /\ ~draining[d] /\ inotify[d] # <<>>
    /\ inotify' = [inotify EXCEPT ![d] = Tail(@)]
    /\ LET s == Head(inotify[d])
           p == s.dir IN
       \/ /\ s.mask = "create"
          /\ snapshot' = [snapshot EXCEPT ![d] = @ \cup {p}]
          /\ watched' = [watched EXCEPT ![d] = @ \cup ({p} \cap disk[d])]
          /\ PushIf(d, <<p>>, "create")
       \/ /\ s.mask # "create"
          /\ snapshot' = [snapshot EXCEPT ![d] = @ \ Below(p)]
          /\ \E below \in SetToSeqs((Below(p) \cap snapshot[d] \cap disk[d]) \ {p}) :
               PushIf(d, Append(below, p), s.mask)
          /\ UNCHANGED watched
    /\ UNCHANGED <<server, disk, row, draining, boot, job, history, bounds>>

Drain(d) ==
    /\ phase[d] = "on" /\ ~draining[d] /\ queue[d] # <<>>
    /\ draining' = [draining EXCEPT ![d] = TRUE]
    /\ UNCHANGED <<server, disk, row, watcher, inotify, queue, boot, job, history, bounds>>

Go(d, at, p) == job' = [job EXCEPT ![d] = [at |-> at, dir |-> p]]
Finish(d) == job' = [job EXCEPT ![d] = Idle]
At(d, label) == phase[d] # "off" /\ job[d].at = label

\* process_event: create_directory, which trusts a row, and delete_event.
LocalEvent(d) ==
    /\ At(d, "idle") /\ draining[d] /\ queue[d] # <<>>
    /\ queue' = [queue EXCEPT ![d] = Tail(@)]
    /\ LET s == Head(queue[d])
           p == s.dir IN
       \/ /\ s.mask = "create" /\ HasRow(d, p)
          /\ UNCHANGED <<row, job>>
       \/ /\ s.mask = "create" /\ ~HasRow(d, p)
          /\ SetRows(d, Listed(row[d], p)) /\ Go(d, "create", p)
       \/ /\ s.mask # "create"
          /\ Forget(d, p) /\ Go(d, "delete", p)
    /\ UNCHANGED <<server, disk, watcher, inotify, draining, boot, history, bounds>>

DrainEnds(d) ==
    /\ At(d, "idle") /\ draining[d] /\ queue[d] = <<>>
    /\ draining' = [draining EXCEPT ![d] = FALSE]
    /\ UNCHANGED <<server, disk, row, watcher, inotify, queue, boot, job, history, bounds>>

\* serverUtils::createDir; its result is not looked at.
CreateDir(d) ==
    /\ At(d, "create")
    /\ Create(d, job[d].dir) /\ Unseen(Missing(d), job[d].dir)
    /\ Go(d, "store", job[d].dir)
    /\ UNCHANGED <<disk, row, watcher, events, boot, spoiled, bounds>>

StoreRow(d) ==
    /\ At(d, "store")
    /\ SetRows(d, [row[d] EXCEPT ![job[d].dir] = {}])
    /\ Finish(d)
    /\ UNCHANGED <<server, disk, watcher, events, boot, history, bounds>>

\* serverUtils::deleteFile
DeleteDir(d) ==
    /\ At(d, "delete")
    /\ Delete(d, job[d].dir) /\ Spoil(IF Missing(d) # {} THEN Below(job[d].dir) ELSE {})
    /\ Finish(d)
    /\ UNCHANGED <<disk, row, watcher, events, boot, unseen, bounds>>

\* No response: the request is not repeated.
RequestFails(d) ==
    /\ mishaps < MaxMishaps /\ mishaps' = mishaps + 1
    /\ LET p == job[d].dir IN
       \/ At(d, "create") /\ Go(d, "store", p) /\ Unseen({d}, p) /\ UNCHANGED spoiled
       \/ At(d, "delete") /\ Finish(d) /\ Spoil(Below(p)) /\ UNCHANGED unseen
    /\ UNCHANGED <<server, disk, row, watcher, events, boot, ops>>

-----------------------------------------------------------------------------
(* process_remote::process_event. *)

RemoteEvent(d) ==
    /\ At(d, "idle") /\ phase[d] = "on"
    /\ \E n \in BagToSet(wire) :
         LET p == n.dir IN
         /\ n.to = d /\ wire' = wire (-) SetToBag({n})
         /\ \/ /\ n.type = "DIR+"
               /\ MakeDirs(d, p)
               /\ IF HasRow(d, p) THEN UNCHANGED row
                  ELSE SetRows(d, Listed([row[d] EXCEPT ![p] = {}], p))
            \/ /\ n.type = "DIR-"
               /\ Erase(d, p) /\ Forget(d, p)
    /\ UNCHANGED <<meta, listing, queue, draining, boot, job, history, bounds>>

\* No long poll was open when the notice came.
LoseNotice ==
    /\ mishaps < MaxMishaps /\ mishaps' = mishaps + 1
    /\ \E n \in BagToSet(wire) :
         /\ wire' = wire (-) SetToBag({n})
         /\ \/ n.type = "DIR+" /\ Unseen({n.to}, n.dir) /\ UNCHANGED spoiled
            \/ n.type = "DIR-" /\ Spoil(Below(n.dir)) /\ UNCHANGED unseen
    /\ UNCHANGED <<meta, listing, disk, row, watcher, events, boot, job, ops>>

-----------------------------------------------------------------------------
(* client.cpp and boot.cpp.  The recursion is the sequence of the calls that *)
(* have not returned.                                                       *)

Crash(d) ==
    /\ phase[d] # "off" /\ mishaps < MaxMishaps
    /\ mishaps' = mishaps + 1
    /\ phase' = [phase EXCEPT ![d] = "off"] /\ calls' = [calls EXCEPT ![d] = <<>>]
    /\ watched' = [watched EXCEPT ![d] = {}] /\ snapshot' = [snapshot EXCEPT ![d] = {}]
    /\ inotify' = [inotify EXCEPT ![d] = <<>>] /\ queue' = [queue EXCEPT ![d] = <<>>]
    /\ draining' = [draining EXCEPT ![d] = FALSE]
    /\ wire' = [n \in {m \in BagToSet(wire) : m.to # d} |-> wire[n]]
    /\ Finish(d)
    /\ UNCHANGED <<meta, listing, disk, row, history, ops>>

Calls(op, S) == {[i \in DOMAIN s |-> [op |-> op, dir |-> s[i], list |-> {}]] : s \in SetToSeqs(S)}
Returns(d, next) == calls' = [calls EXCEPT ![d] = next \o Tail(@)]

\* localSync: every directory that is there gets a row with what is in it, and
\* those of directories that are not are removed, one level below.
Boot(d) ==
    /\ phase[d] = "off"
    /\ phase' = [phase EXCEPT ![d] = "pull"]
    /\ LET gone == UNION {Linked(d, p) : p \in {p \in Path \ disk[d] : Parent[p] \in disk[d]}} IN
       SetRows(d, [p \in Dir |-> IF p \in disk[d] THEN ChildrenIn(disk[d], p)
                                                  ELSE Without(d, gone)[p]])
    /\ calls' = [calls EXCEPT ![d] = <<[op |-> "check", dir |-> Root, list |-> {}]>>]
    /\ unseen' = [unseen EXCEPT ![d] = {}]
    /\ UNCHANGED <<server, disk, watcher, events, job, spoiled, bounds>>

Calling(d, op) == calls[d] # <<>> /\ Head(calls[d]).op = op

\* RemoteToLocalDirCheck
Check(d) ==
    /\ Calling(d, "check")
    /\ LET p == Head(calls[d]).dir IN
       IF ~HasRow(d, p) \/ p \notin meta THEN Returns(d, <<>>)
       ELSE \E known \in Calls("check", listing[p] \cap row[d][p]),
               new \in Calls("fetch", listing[p] \ row[d][p]) : Returns(d, known \o new)
    /\ UNCHANGED <<server, disk, row, watcher, events, phase, job, history, bounds>>

\* fetchDirRecursively: the row is stored after the subdirectories.
FetchDir(d) ==
    /\ Calling(d, "fetch")
    /\ LET p == Head(calls[d]).dir
           list == (IF HasRow(d, p) THEN row[d][p] ELSE {}) \cup listing[p] IN
       IF p \notin meta THEN Returns(d, <<>>) /\ UNCHANGED <<disk, inotify, watcher>>
       ELSE /\ MakeDirs(d, p)
            /\ \E subdirs \in Calls("fetch", listing[p]) :
                 Returns(d, subdirs \o <<[op |-> "store", dir |-> p, list |-> list]>>)
    /\ UNCHANGED <<server, row, queue, draining, phase, job, history, bounds>>

FetchStores(d) ==
    /\ Calling(d, "store")
    /\ SetRows(d, [row[d] EXCEPT ![Head(calls[d]).dir] = Head(calls[d]).list])
    /\ Returns(d, <<>>)
    /\ UNCHANGED <<server, disk, watcher, events, phase, job, history, bounds>>

PullEnds(d) ==
    /\ phase[d] = "pull" /\ calls[d] = <<>>
    /\ phase' = [phase EXCEPT ![d] = "push"]
    /\ calls' = [calls EXCEPT ![d] = <<[op |-> "compare", dir |-> Root, list |-> {}]>>]
    /\ UNCHANGED <<server, disk, row, watcher, events, job, history, bounds>>

\* localToRemoteDirCheck
Compare(d) ==
    /\ Calling(d, "compare")
    /\ LET p == Head(calls[d]).dir IN
       IF ~HasRow(d, p) \/ p \notin meta THEN Returns(d, <<>>)
       ELSE \E known \in Calls("compare", row[d][p] \cap listing[p]),
               new \in Calls("send", row[d][p] \ listing[p]) : Returns(d, known \o new)
    /\ UNCHANGED <<server, disk, row, watcher, events, phase, job, history, bounds>>

SendDirAlone(d) ==   \* mutant: without what lies in it
    /\ Calling(d, "send")
    /\ Create(d, Head(calls[d]).dir) /\ Unseen(Missing(d), Head(calls[d]).dir)
    /\ Spoil(IF Deleting(Above[Head(calls[d]).dir]) THEN Related(Head(calls[d]).dir) ELSE {})
    /\ Returns(d, <<>>)
    /\ UNCHANGED <<disk, row, watcher, events, phase, job, bounds>>

\* sendDirRecursively.  What a device sends again because it missed a removal may
\* be overtaken by the notices of that removal elsewhere.
SendDir(d) ==
    /\ Calling(d, "send")
    /\ LET p == Head(calls[d]).dir IN
       /\ Create(d, p) /\ Unseen(Missing(d), p)
       /\ Spoil(IF Deleting(Above[p]) THEN Related(p) ELSE {})
       /\ \E subdirs \in Calls("send", IF HasRow(d, p) THEN row[d][p] ELSE {}) : Returns(d, subdirs)
    /\ UNCHANGED <<disk, row, watcher, events, phase, job, bounds>>

\* The threads are started; the watches are those of the tree as it is now.
PushEnds(d) ==
    /\ phase[d] = "push" /\ calls[d] = <<>>
    /\ phase' = [phase EXCEPT ![d] = "on"]
    /\ watched' = [watched EXCEPT ![d] = disk[d]] /\ snapshot' = [snapshot EXCEPT ![d] = disk[d]]
    /\ UNCHANGED <<server, disk, row, events, calls, job, history, bounds>>

-----------------------------------------------------------------------------
User(d) == \E p \in Path : UserMakes(d, p) \/ UserRemoves(d, p) \/ UserMovesOut(d, p)
Local(d) == LocalEvent(d) \/ CreateDir(d) \/ StoreRow(d) \/ DeleteDir(d) \/ DrainEnds(d)
Booting(d) == Boot(d) \/ Check(d) \/ FetchDir(d) \/ FetchStores(d) \/ PullEnds(d)
                \/ Compare(d) \/ SendDir(d) \/ PushEnds(d)

Next ==
    \/ \E d \in Device : User(d) \/ Watch(d) \/ Drain(d) \/ Local(d) \/ RemoteEvent(d) \/ Booting(d)
                            \/ RequestFails(d) \/ Crash(d)
    \/ LoseNotice

\* The thread that has db_mutex goes on, or one that waits for it gets it; a
\* device that stopped is started again.
Handler(d) == Drain(d) \/ Local(d) \/ RemoteEvent(d) \/ Booting(d)
Fairness == \A d \in Device : WF_vars(Watch(d)) /\ WF_vars(Handler(d))

Spec == Init /\ [][Next]_vars /\ Fairness

-----------------------------------------------------------------------------
Quiet ==
    /\ wire = EmptyBag
    /\ \A d \in Device : phase[d] = "on" /\ inotify[d] = <<>> /\ queue[d] = <<>>
                            /\ ~draining[d] /\ job[d] = Idle

Clean(p) == Above[p] \cap (spoiled \cup UNION Range(unseen)) = {}

\* When nothing is left to do every device has the directories the servers
\* list, whatever was made where, in whatever order the notices came: the
\* boot scans, create_directory, delete_event and DIR+, DIR-.
TreesAgree ==
    Quiet => \A p \in Path, d \in Device : Clean(p) => (p \in disk[d] <=> p \in Reachable)

\* create_directory takes a row for a directory the servers have: there is
\* one for what is there, and none for what is not.
RowsFit ==
    Quiet => \A p \in Path, d \in Device : Clean(p) => (p \in disk[d] <=> HasRow(d, p))

\* What a device makes when it follows a notice is heard by its own watcher,
\* and what that causes at the servers is a notice for the others: it ends,
\* unless a directory was removed while work on it was under way.
Settled == Quiet \/ spoiled # {}
ComesToRest == <>[]Settled
=============================================================================
