----------------------------- MODULE ClientSync -----------------------------
(***************************************************************************)
(* The devices of one user (src/CODE/src/client) and the servers as they   *)
(* see them: the watcher's events and the notices of other devices are     *)
(* handled by two threads under one lock, db_mutex, while the user goes on *)
(* editing and while the handler waits for servers.  Files of one          *)
(* directory; a content is the set of the edits in it, {} is empty text.   *)
(***************************************************************************)
EXTENDS Integers, Sequences, FiniteSets, Bags, SequencesExt, Subsequences

CONSTANTS
    Device, File, Edit,
    Old,           \* what a file that exists at the beginning holds
    Main,          \* the files users create, edit and delete
    CopyName,      \* generateConflictFilename: device and file to a file
    Clash,         \* pairs of edits git_merge_file cannot merge
    None,          \* no file, no content, no row
    MaxMishaps     \* bound: deletions, crashes, late replies and lost notices

ASSUME FileAssumption == Main \subseteq File /\ CopyName \in [Device -> [File -> File \ Main]]
ASSUME CopyAssumption ==   \* the name tells the file and the device
    \A d, e \in Device : \A f \in Main, g \in File :
        CopyName[d][f] = CopyName[e][g] => d = e /\ f = g
ASSUME ClashAssumption == Clash \subseteq Edit \X Edit
ASSUME BoundAssumption == MaxMishaps \in Nat

Content == SUBSET (Edit \cup Old)

VARIABLES
    disk, row,            \* monitoring_path; RocksDB: version, content, if it is hashed
    inotify, batch,       \* events the kernel holds; eventQueue (its set is eventMap)
    phase, todo, had,     \* on, off, or at boot; files to do; those of localSync
    job,                  \* the handler that holds db_mutex
    meta, store, doomed,  \* metaserver: files; block servers: version, data; deletion_queue
    wire,                 \* notices on their way to a device
    madeIn, dropped,      \* history: the file an edit was made in; edits deleted with it
    spoiled,              \* history: files with a loss that is known
    mishaps               \* how many there were

client == <<disk, row, inotify, batch, phase, todo, had, job>>
server == <<meta, store, doomed, wire>>
vars == <<client, server, madeIn, dropped, spoiled, mishaps>>

Row == [ver : Nat, base : Content, hashed : BOOLEAN]
ASSUME NoneAssumption == None \notin File \cup Row /\ \A c \in Content : c # None

Synced(s) == [ver |-> s.ver, base |-> s.data, hashed |-> TRUE]
DefaultRowUnset == [ver |-> -1, base |-> {}, hashed |-> FALSE]   \* mutant: no version yet
DefaultRow == [ver |-> 0, base |-> {}, hashed |-> FALSE]
NoData == [ver |-> 0, data |-> None]
Idle == [at |-> "idle", file |-> None, seen |-> None]
Event == [type : {"created", "modified", "deleted"}, file : File]
Notice == [to : Device, file : File, type : {"FILE+", "FILE~", "FILE-"}]

TypeOK ==
    /\ disk \in [Device -> [File -> {None} \cup Content]]
    /\ row \in [Device -> [File -> {None} \cup Row]]
    /\ inotify \in [Device -> Seq(Event)] /\ batch \in [Device -> Seq(Event)]
    /\ phase \in [Device -> {"off", "pull", "push", "on"}]
    /\ todo \in [Device -> SUBSET File] /\ had \in [Device -> SUBSET File]
    /\ job \in [Device -> [at : {"idle", "create", "upload", "record", "get", "copy", "delete"},
                           file : File \cup {None}, seen : {None} \cup Content]]
    /\ meta \subseteq File /\ doomed \subseteq File
    /\ store \in [File -> [ver : Nat, data : {None} \cup Content]]
    /\ IsABag(wire) /\ BagToSet(wire) \subseteq Notice
    /\ madeIn \in [Edit -> Main \cup {None}] /\ dropped \subseteq Edit /\ spoiled \subseteq File
    /\ mishaps \in 0..MaxMishaps

\* Every device runs and has what the servers have.
Init ==
    /\ meta \in SUBSET Main
    /\ store = [f \in File |-> IF f \in meta THEN [ver |-> 1, data |-> Old] ELSE NoData]
    /\ disk = [d \in Device |-> [f \in File |-> store[f].data]]
    /\ row = [d \in Device |-> [f \in File |-> IF f \in meta THEN Synced(store[f]) ELSE None]]
    /\ inotify = [d \in Device |-> <<>>] /\ batch = [d \in Device |-> <<>>]
    /\ phase = [d \in Device |-> "on"]
    /\ todo = [d \in Device |-> {}] /\ had = [d \in Device |-> {}]
    /\ job = [d \in Device |-> Idle]
    /\ doomed = {} /\ wire = EmptyBag
    /\ madeIn = [e \in Edit |-> None] /\ dropped = {} /\ spoiled = {}
    /\ mishaps = 0

-----------------------------------------------------------------------------
(* Files, events, notices. *)

Exists(d, f) == disk[d][f] # None
HasRow(d, f) == row[d][f] # None

\* The watcher has heard of it, and nobody has handled it.
Heard(d, type, f) == [type |-> type, file |-> f] \in ToSet(inotify[d]) \cup ToSet(batch[d])

\* readTextFile: a file that is missing reads as empty text.
Read(d, f) == IF Exists(d, f) THEN disk[d][f] ELSE {}

\* What the watcher hears of a change to a file; before the boot is over
\* there is no watch.
Signals(d, types, f) ==
    inotify' = IF phase[d] = "on"
               THEN [inotify EXCEPT ![d] = @ \o [i \in DOMAIN types |-> [type |-> types[i], file |-> f]]]
               ELSE inotify

\* createTextFile, also how an editor saves.
Write(d, f, c) ==
    /\ disk' = [disk EXCEPT ![d][f] = c]
    /\ Signals(d, IF Exists(d, f) THEN <<"modified">> ELSE <<"created", "modified">>, f)

Erase(d, f) ==
    /\ disk' = [disk EXCEPT ![d][f] = None]
    /\ IF Exists(d, f) THEN Signals(d, <<"deleted">>, f) ELSE UNCHANGED inotify

SetRow(d, f, r) == row' = [row EXCEPT ![d][f] = r]

TellCreated(d, f, type) ==   \* mutant: uploads are not announced
    wire' = IF type = "FILE~" THEN wire
            ELSE wire (+) SetToBag([to : Device \ {d}, file : {f}, type : {type}])

\* A notice goes to the devices that poll; the others' copies are dropped.
\* The device that caused it ignores it.
Tell(d, f, type) ==
    wire' = wire (+) SetToBag({[to |-> e, file |-> f, type |-> type] :
                                e \in {e \in Device \ {d} : phase[e] = "on"}})
Missed(d, f) == IF \E e \in Device \ {d} : phase[e] \in {"pull", "push"} THEN {f} ELSE {}

Go(d, at, f, seen) == job' = [job EXCEPT ![d] = [at |-> at, file |-> f, seen |-> seen]]
Finish(d) == job' = [job EXCEPT ![d] = Idle]
At(d, label) == phase[d] # "off" /\ job[d].at = label
Spoil(S) == spoiled' = spoiled \cup S

\* getFileEndpoints: the metaserver knows the file, or the cache still does.
Endpoints(f) == IF f \in meta THEN {TRUE} ELSE {TRUE, FALSE}

\* getFile finds a value.
Served(f) == store[f].data # None

\* git_merge_file: if only one side changed, it; if both added to the base at
\* places apart, both.  Into an empty text everything goes to one place.
Mergeable(base, mine, theirs) ==
    \/ base \in {mine, theirs}
    \/ /\ base # {} /\ base \subseteq mine \cap theirs
       /\ ((mine \ theirs) \X (theirs \ mine)) \cap Clash = {}
MergedTheirs(base, mine, theirs) == theirs   \* mutant: ours is left out
Merged(base, mine, theirs) == (mine \cap theirs) \cup (mine \ base) \cup (theirs \ base)

-----------------------------------------------------------------------------
(* The user. *)

Deleting(f) ==
    \/ f \in doomed
    \/ \E n \in BagToSet(wire) : n.file = f /\ n.type = "FILE-"
    \/ \E d \in Device :
         \/ job[d].file = f /\ job[d].at = "delete"
         \/ Heard(d, "deleted", f)

Busy(f) ==
    \/ f \in doomed
    \/ \E n \in BagToSet(wire) : n.file = f
    \/ \E d \in Device :
         \/ phase[d] # "on" \/ job[d].file = f
         \/ \E type \in {"created", "modified", "deleted"} : Heard(d, type, f)

\* Nothing watches the files while the device boots.
UserEdits(d, f, e) ==
    /\ madeIn[e] = None
    /\ madeIn' = [madeIn EXCEPT ![e] = f]
    /\ Write(d, f, Read(d, f) \cup {e})
    /\ Spoil(IF Deleting(f) \/ phase[d] \in {"pull", "push"} THEN {f} ELSE {})
    /\ UNCHANGED <<row, batch, phase, todo, had, job, server, dropped, mishaps>>

\* A deletion that overlaps with anything about the file may be lost, or
\* may take new edits with it.
UserDeletes(d, f) ==
    /\ Exists(d, f) /\ mishaps < MaxMishaps
    /\ Erase(d, f)
    /\ dropped' = dropped \cup (disk[d][f] \cap Edit)
    /\ mishaps' = mishaps + 1
    /\ Spoil(IF Busy(f) THEN {f} ELSE {})
    /\ UNCHANGED <<row, batch, phase, todo, had, job, server, madeIn>>

-----------------------------------------------------------------------------
(* watch_directory and process_local. *)

\* The watcher moves events to eventQueue unless eventMap has them.  While
\* process_local_events works on a batch it holds mtx: a batch is what was
\* moved before it began.
Watch(d) ==
    /\ phase[d] = "on" /\ batch[d] = <<>>
    /\ \E n \in DOMAIN inotify[d] :
         /\ batch' = [batch EXCEPT ![d] = Distinct(SubSeq(inotify[d], 1, n))]
         /\ inotify' = [inotify EXCEPT ![d] = SubSeq(@, n + 1, Len(@))]
    /\ UNCHANGED <<disk, row, phase, todo, had, job, server, madeIn, dropped, spoiled, mishaps>>

\* process_event: create_file, file_modified, delete_event.
LocalEvent(d) ==
    /\ At(d, "idle") /\ batch[d] # <<>>
    /\ batch' = [batch EXCEPT ![d] = Tail(@)]
    /\ LET v == Head(batch[d])
           f == v.file
           r == row[d][f] IN
       \/ /\ v.type = "created"
          /\ SetRow(d, f, IF HasRow(d, f) THEN r ELSE DefaultRow)
          /\ Go(d, "create", f, None)
       \/ /\ v.type = "modified"
          /\ IF r = None \/ (r # None /\ r.hashed /\ r.base = Read(d, f)) THEN UNCHANGED job
             ELSE Go(d, "upload", f, None)
          /\ UNCHANGED row
       \/ /\ v.type = "deleted"
          /\ SetRow(d, f, None)
          /\ Go(d, "delete", f, None)
    /\ UNCHANGED <<disk, inotify, phase, todo, had, server, madeIn, dropped, spoiled, mishaps>>

\* serverUtils::createFile: a file that exists is answered without a notice.
Create(d) ==
    /\ At(d, "create")
    /\ LET f == job[d].file IN
       /\ meta' = meta \cup {f}
       /\ IF f \in meta THEN UNCHANGED <<wire, spoiled>>
          ELSE Tell(d, f, "FILE+") /\ Spoil(Missed(d, f))
       /\ Go(d, "upload", f, None)
    /\ UNCHANGED <<disk, row, inotify, batch, phase, todo, had, store, doomed, madeIn, dropped, mishaps>>

\* serverUtils::deleteFile; the metaserver queues the content for deletion.
Delete(d) ==
    /\ At(d, "delete")
    /\ LET f == job[d].file IN
       IF f \in meta THEN /\ meta' = meta \ {f} /\ doomed' = doomed \cup {f}
                          /\ Tell(d, f, "FILE-") /\ Spoil(Missed(d, f))
       ELSE UNCHANGED <<meta, doomed, wire, spoiled>>
    /\ Finish(d)
    /\ UNCHANGED <<disk, row, inotify, batch, phase, todo, had, store, madeIn, dropped, mishaps>>

-----------------------------------------------------------------------------
(* serverUtils::uploadFile. *)

Accepted(d, f) == row[d][f].ver = store[f].ver

\* value_put stores the version that matches, plus one, and the metaserver is
\* told; a refusal is a reply with status 200 as well, so success to setFile.
Put(d) ==
    /\ At(d, "upload")
    /\ LET f == job[d].file
           new == [ver |-> row[d][f].ver + 1, data |-> Read(d, f)] IN
       \E reached \in Endpoints(f) :
         IF ~reached THEN Finish(d) /\ UNCHANGED <<store, wire, spoiled>>
         ELSE /\ Go(d, "record", f, Read(d, f))
              /\ IF Accepted(d, f)
                 THEN store' = [store EXCEPT ![f] = new] /\ Tell(d, f, "FILE~")
                      /\ Spoil(Missed(d, f))
                 ELSE UNCHANGED <<store, wire>> /\ Spoil(IF store[f] = new THEN {} ELSE {f})
    /\ UNCHANGED <<disk, row, inotify, batch, phase, todo, had, meta, doomed, madeIn, dropped, mishaps>>

\* The reply is late: the leader stored the content, yet the client asks the
\* next server and so the leader again, or no server answers it and it takes
\* the failure for a conflict.
PutFails(d) ==
    /\ At(d, "upload") /\ mishaps < MaxMishaps
    /\ mishaps' = mishaps + 1
    /\ LET f == job[d].file IN
       /\ \/ /\ f \in meta /\ Accepted(d, f)
             /\ store' = [store EXCEPT ![f] = [ver |-> @.ver + 1, data |-> Read(d, f)]]
             /\ Tell(d, f, "FILE~") /\ Spoil(Missed(d, f))
             /\ job' \in {job, [job EXCEPT ![d] = [at |-> "get", file |-> f, seen |-> Read(d, f)]]}
          \/ /\ f \in meta /\ Go(d, "get", f, Read(d, f))
             /\ UNCHANGED <<store, wire, spoiled>>
    /\ UNCHANGED <<disk, row, inotify, batch, phase, todo, had, meta, doomed, madeIn, dropped>>

RecordReread(d) ==   \* mutant: the file is read again for the row
    /\ At(d, "record")
    /\ LET f == job[d].file IN
       SetRow(d, f, [ver |-> row[d][f].ver + 1, base |-> Read(d, f), hashed |-> TRUE])
    /\ Finish(d)
    /\ UNCHANGED <<disk, inotify, batch, phase, todo, had, server, madeIn, dropped, spoiled, mishaps>>

\* What was uploaded is recorded with the version it should have got.
Record(d) ==
    /\ At(d, "record")
    /\ LET f == job[d].file IN
       SetRow(d, f, [ver |-> row[d][f].ver + 1, base |-> job[d].seen, hashed |-> TRUE])
    /\ Finish(d)
    /\ UNCHANGED <<disk, inotify, batch, phase, todo, had, server, madeIn, dropped, spoiled, mishaps>>

-----------------------------------------------------------------------------
(* serverUtils::Conflict and fetchNewFile. *)

\* Somebody is about to upload the file.
Storing(f) ==
    \E e \in Device :
      \/ job[e].file = f /\ job[e].at = "upload"
      \/ Heard(e, "created", f)
      \/ Heard(e, "modified", f) /\ HasRow(e, f) /\ ~row[e][f].hashed

\* The local content was read when Conflict began.  No remote content: nothing
\* is done, also if nobody else is to upload one.  Equal contents: the row is
\* brought up to date.  Mergeable: the result is written and uploaded, from the
\* row as it was.  Else the remote content replaces the local one, which goes to
\* the conflicted copy.
Get(d) ==
    /\ At(d, "get")
    /\ LET f == job[d].file
           mine == job[d].seen
           theirs == store[f].data
           base == row[d][f].base
           trampled == IF Read(d, f) # mine THEN {f} ELSE {} IN
       \E reached \in Endpoints(f) :
         \/ /\ ~(reached /\ Served(f)) /\ Finish(d)
            /\ Spoil(IF Served(f) \/ Storing(f) THEN {} ELSE {f})
            /\ UNCHANGED <<disk, row, inotify>>
         \/ /\ reached /\ Served(f) /\ mine = theirs
            /\ SetRow(d, f, Synced(store[f])) /\ Finish(d)
            /\ UNCHANGED <<disk, inotify, spoiled>>
         \/ /\ reached /\ Served(f) /\ mine # theirs /\ Mergeable(base, mine, theirs)
            /\ Write(d, f, Merged(base, mine, theirs)) /\ Spoil(trampled)
            /\ Go(d, "upload", f, None)
            /\ UNCHANGED row
         \/ /\ reached /\ Served(f) /\ mine # theirs /\ ~Mergeable(base, mine, theirs)
            /\ Write(d, f, theirs) /\ Spoil(trampled)
            /\ SetRow(d, f, Synced(store[f]))
            /\ Go(d, "copy", f, mine)
    /\ UNCHANGED <<batch, phase, todo, had, server, madeIn, dropped, mishaps>>

\* An earlier conflicted copy of the file is overwritten.
Copy(d) ==
    /\ At(d, "copy")
    /\ LET f == job[d].file
           c == CopyName[d][f] IN
       /\ Write(d, c, job[d].seen)
       /\ SetRow(d, c, [ver |-> 0, base |-> job[d].seen, hashed |-> TRUE])
       /\ Spoil(IF Exists(d, c) THEN {f, c} ELSE {})
       /\ Go(d, "create", c, None)
    /\ UNCHANGED <<batch, phase, todo, had, server, madeIn, dropped, mishaps>>

Fetch(d, f) ==
    \E reached \in Endpoints(f) :
      IF reached /\ Served(f)
      THEN /\ Write(d, f, store[f].data)
           /\ SetRow(d, f, Synced(store[f]))
           /\ Spoil(IF Exists(d, f) THEN {f} ELSE {})
      ELSE UNCHANGED <<disk, row, inotify, spoiled>>

StartConflict(d, f) ==
    /\ Go(d, "get", f, Read(d, f))
    /\ UNCHANGED <<disk, row, inotify, spoiled>>

-----------------------------------------------------------------------------
(* process_remote::process_event. *)

RemoteEvent(d) ==
    /\ At(d, "idle") /\ phase[d] = "on"
    /\ \E n \in BagToSet(wire) :
         /\ n.to = d /\ wire' = wire (-) SetToBag({n})
         /\ \/ /\ n.type = "FILE-"
               /\ Erase(d, n.file) /\ SetRow(d, n.file, None)
               /\ UNCHANGED <<job, spoiled>>
            \/ /\ n.type # "FILE-" /\ HasRow(d, n.file)
               /\ StartConflict(d, n.file)
            \/ /\ n.type # "FILE-" /\ ~HasRow(d, n.file)
               /\ Fetch(d, n.file) /\ UNCHANGED job
    /\ UNCHANGED <<batch, phase, todo, had, meta, store, doomed, madeIn, dropped, mishaps>>

\* No long poll was open when the notice came.
LoseNotice ==
    /\ mishaps < MaxMishaps
    /\ \E n \in BagToSet(wire) : wire' = wire (-) SetToBag({n}) /\ Spoil({n.file})
    /\ mishaps' = mishaps + 1
    /\ UNCHANGED <<client, meta, store, doomed, madeIn, dropped>>

\* DeletionManager: the block servers forget the content.
Purge ==
    /\ \E f \in doomed :
         /\ doomed' = doomed \ {f}
         /\ store' = [store EXCEPT ![f] = NoData]
    /\ UNCHANGED <<client, meta, wire, madeIn, dropped, spoiled, mishaps>>

-----------------------------------------------------------------------------
(* boot and client.cpp. *)

\* The boot does not take up again what the handler was doing.
Interrupted(d, f) ==
    /\ job[d].file = f
    /\ job[d].at = "copy" \/ (job[d].at = "upload" /\ ~Served(f))

\* The device stops: events, notices and the handler's work are lost; files
\* and rows are not.
Crash(d) ==
    /\ phase[d] # "off" /\ mishaps < MaxMishaps
    /\ mishaps' = mishaps + 1
    /\ phase' = [phase EXCEPT ![d] = "off"]
    /\ inotify' = [inotify EXCEPT ![d] = <<>>] /\ batch' = [batch EXCEPT ![d] = <<>>]
    /\ todo' = [todo EXCEPT ![d] = {}] /\ had' = [had EXCEPT ![d] = {}]
    /\ wire' = [n \in {m \in BagToSet(wire) : m.to # d} |-> wire[n]]
    /\ Finish(d)
    /\ Spoil({f \in File : Deleting(f) \/ Interrupted(d, f)})
    /\ UNCHANGED <<disk, row, meta, store, doomed, madeIn, dropped>>

\* localSync makes the rows fit the files; RemoteToLocal lists the directory.
Boot(d) ==
    /\ phase[d] = "off"
    /\ row' = [row EXCEPT ![d] = [f \in File |->
                 IF Exists(d, f) THEN (IF HasRow(d, f) THEN @[f] ELSE DefaultRow) ELSE None]]
    /\ had' = [had EXCEPT ![d] = {f \in File : Exists(d, f)}]
    /\ todo' = [todo EXCEPT ![d] = meta]
    /\ phase' = [phase EXCEPT ![d] = "pull"]
    /\ UNCHANGED <<disk, inotify, batch, job, server, madeIn, dropped, spoiled, mishaps>>

PullRepeats(d) ==   \* mutant: a file that conflicts is pulled again
    /\ At(d, "idle") /\ phase[d] = "pull"
    /\ \E f \in todo[d] :
         IF f \in had[d] THEN StartConflict(d, f) /\ UNCHANGED todo
         ELSE Fetch(d, f) /\ todo' = [todo EXCEPT ![d] = @ \ {f}] /\ UNCHANGED job
    /\ UNCHANGED <<batch, phase, had, server, madeIn, dropped, mishaps>>

Pull(d) ==
    /\ At(d, "idle") /\ phase[d] = "pull"
    /\ \E f \in todo[d] :
         /\ todo' = [todo EXCEPT ![d] = @ \ {f}]
         /\ IF f \in had[d] THEN StartConflict(d, f) ELSE Fetch(d, f) /\ UNCHANGED job
    /\ UNCHANGED <<batch, phase, had, server, madeIn, dropped, mishaps>>

\* localToRemote lists it again.
PullEnds(d) ==
    /\ At(d, "idle") /\ phase[d] = "pull" /\ todo[d] = {}
    /\ phase' = [phase EXCEPT ![d] = "push"]
    /\ todo' = [todo EXCEPT ![d] = had[d] \ meta]
    /\ UNCHANGED <<disk, row, inotify, batch, had, job, server, madeIn, dropped, spoiled, mishaps>>

Push(d) ==
    /\ At(d, "idle") /\ phase[d] = "push"
    /\ \E f \in todo[d] :
         /\ todo' = [todo EXCEPT ![d] = @ \ {f}]
         /\ Go(d, "create", f, None)
    /\ UNCHANGED <<disk, row, inotify, batch, phase, had, server, madeIn, dropped, spoiled, mishaps>>

\* The threads are started.
PushEnds(d) ==
    /\ At(d, "idle") /\ phase[d] = "push" /\ todo[d] = {}
    /\ phase' = [phase EXCEPT ![d] = "on"]
    /\ had' = [had EXCEPT ![d] = {}]
    /\ UNCHANGED <<disk, row, inotify, batch, todo, job, server, madeIn, dropped, spoiled, mishaps>>

-----------------------------------------------------------------------------
Work(d) == Create(d) \/ Delete(d) \/ Put(d) \/ Record(d) \/ Get(d) \/ Copy(d)
Booting(d) == Boot(d) \/ Pull(d) \/ PullEnds(d) \/ Push(d) \/ PushEnds(d)
User(d) == \E f \in Main : UserDeletes(d, f) \/ \E e \in Edit : UserEdits(d, f, e)

Handler(d) == LocalEvent(d) \/ RemoteEvent(d) \/ Work(d) \/ Booting(d)

Next ==
    \/ \E d \in Device : User(d) \/ Watch(d) \/ Handler(d) \/ PutFails(d) \/ Crash(d)
    \/ LoseNotice \/ Purge

\* db_mutex is handed to somebody who waits for it, a handler goes on, and a
\* device that stopped is started again; nobody has to edit.
Fairness ==
    /\ \A d \in Device : WF_vars(Watch(d)) /\ WF_vars(Handler(d))
    /\ WF_vars(Purge)

Spec == Init /\ [][Next]_vars /\ Fairness

-----------------------------------------------------------------------------
Quiet ==
    /\ wire = EmptyBag /\ doomed = {}
    /\ \A d \in Device : phase[d] = "on" /\ inotify[d] = <<>> /\ batch[d] = <<>> /\ job[d] = Idle

\* When nothing is left to do, every device has what the servers have.
QuietAgree ==
    Quiet => \A f \in File \ spoiled : \A d \in Device :
                disk[d][f] = IF f \in meta THEN store[f].data ELSE None

\* An edit nobody deleted is on some disk, on the servers, or in the hands of
\* a handler: in its file or in a conflicted copy of it.
Family(f) == {f} \cup {CopyName[d][f] : d \in Device}
Holds(c, e) == c # None /\ e \in c
Somewhere(e, f) ==
    \E g \in Family(f) :
        \/ Holds(store[g].data, e)
        \/ \E d \in Device : Holds(disk[d][g], e) \/ (job[d].file = g /\ Holds(job[d].seen, e))

EditSurvives ==
    \A e \in Edit \ dropped : madeIn[e] \notin spoiled \cup {None} => Somewhere(e, madeIn[e])

\* A row with the servers' version has the servers' content: what the next
\* merge takes for the common ancestor is one.
VersionTellsContent ==
    \A d \in Device, f \in File \ spoiled :
        HasRow(d, f) /\ row[d][f].ver = store[f].ver /\ Served(f)
            => row[d][f].base = store[f].data

\* The devices come to rest: what they write when they follow each other
\* does not keep them busy for ever.
ComesToRest == <>[]Quiet

\* README of the block servers: they "checks version, send confirm/reject to
\* user": an upload the client takes for done is what they store.
UploadedIsStored ==
    [][\A d \in Device : job[d].at = "upload" /\ job'[d].at = "record"
          => LET f == job[d].file IN
             store'[f] = [ver |-> row[d][f].ver + 1, data |-> job'[d].seen]]_vars

=============================================================================
