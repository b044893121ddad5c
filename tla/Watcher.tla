------------------------------ MODULE Watcher ------------------------------
(***************************************************************************)
(* watch_directory and process_local_events (src/CODE/src/client/watcher,  *)
(* .../process_local) on a tree of directories with one text file each:    *)
(* what the user does becomes inotify events, these become events of       *)
(* eventQueue while the tree changes on, and those calls of the servers.   *)
(* What other devices do meanwhile is left to ClientSync.                  *)
(***************************************************************************)
EXTENDS Integers, Sequences, SequencesExt, Subsequences

CONSTANTS
    Inode, Name,   \* directories; what they may be called in monitoring_path
    None,          \* no file, no directory
    MaxOps         \* bound: what the user does

VARIABLES
    place, file,           \* where a directory is; the text of the file in it
    watched, inotify,      \* inotify's watches and its events
    path, snapshot, moved, \* wd_to_path, snapshot, move_cookie_map
    queue, draining,       \* eventQueue (eventMap is its set); process_local has mtx
    row, known,            \* the client's database, the servers
    clean,                 \* history: no change was missed or misread
    ops                    \* how much the user did

tree == <<place, file, ops>>
watcher == <<path, snapshot, moved, watched>>
sync == <<draining, row, known>>
vars == <<tree, watcher, inotify, queue, sync, clean>>

Text == {"", "a"}
DirPath == {<<n>> : n \in Name}
FileIn(n) == <<n, "f.txt">>
Path == DirPath \cup {FileIn(n) : n \in Name}
\* An event of inotify, of monitoring_path or of a directory in it; paired
\* events share a cookie.  The directory it is about is history.
Signal == [wd : {"root"} \cup Inode, name : {"f.txt"} \cup Name, paired : BOOLEAN,
           mask : {"create", "delete", "modify", "from", "to"}, dir : Inode]
LocalEvent == [type : {"Created", "Deleted", "Modified", "MovedFrom", "MovedTo"},
          path : Path, kind : {"file", "dir"}]

TypeOK ==
    /\ place \in [Inode -> {"new", "gone", "outside"} \cup Name]
    /\ file \in [Inode -> {None} \cup Text]
    /\ watched \subseteq Inode /\ inotify \in Seq(Signal)
    /\ path \in [Inode -> {None} \cup Name] /\ snapshot \subseteq Path /\ moved \in {None} \cup Name
    /\ queue \in Seq(LocalEvent) /\ IsInjective(queue) /\ draining \in BOOLEAN
    /\ row \subseteq Path /\ known \in [Path -> {None, "dir"} \cup Text]
    /\ clean \in BOOLEAN /\ ops \in 0..MaxOps

-----------------------------------------------------------------------------
InTree(i) == place[i] \in Name
DirAt(n) == {i \in Inode : place[i] = n}
TextAt(n) == IF \E i \in DirAt(n) : file[i] # None
             THEN file[CHOOSE i \in DirAt(n) : TRUE] ELSE None
Tree == [p \in Path |-> IF p \in DirPath THEN (IF DirAt(p[1]) # {} THEN "dir" ELSE None)
                                         ELSE TextAt(p[1])]

\* The program has started: localSync and the watches are done.
Init ==
    /\ place \in [Inode -> {"new", "outside"} \cup Name]
    /\ \A n \in Name : \A i, j \in DirAt(n) : i = j
    /\ file \in [Inode -> {None, ""}] /\ \A i \in Inode : place[i] = "new" => file[i] = None
    /\ watched = {i \in Inode : InTree(i)}
    /\ path = [i \in Inode |-> IF InTree(i) THEN place[i] ELSE None]
    /\ known = Tree /\ row = {p \in Path : Tree[p] # None} /\ snapshot = row
    /\ inotify = <<>> /\ moved = None /\ queue = <<>> /\ draining = FALSE
    /\ clean = TRUE /\ ops = 0

-----------------------------------------------------------------------------
(* The user and the kernel. *)

Does == ops < MaxOps /\ ops' = ops + 1

FromRoot(mask, i, n, paired) ==
    [wd |-> "root", name |-> n, mask |-> mask, paired |-> paired, dir |-> i]
FromDir(i, mask) ==
    [wd |-> i, name |-> "f.txt", mask |-> mask, paired |-> FALSE, dir |-> i]

\* What happens in a directory that is watched is heard, also when it is not
\* in the tree any more; what happens in one that is not watched is not.
Heard(s) == IF s.wd \in {"root"} \cup watched THEN <<s>> ELSE <<>>
HearsAll(signals, heard) ==
    /\ inotify' = inotify \o heard
    /\ clean' = (clean /\ \A s \in signals :
                    s.wd # "root" => InTree(s.wd) /\ s.wd \in watched)
    /\ UNCHANGED <<path, snapshot, moved, queue, sync>>
Hears(s) == HearsAll({s}, Heard(s))
HearsBoth(s, t) == HearsAll({s, t}, Heard(s) \o Heard(t))

Puts(i, p) == place' = [place EXCEPT ![i] = p] /\ UNCHANGED file
Writes(i, c) == file' = [file EXCEPT ![i] = c] /\ UNCHANGED place

MakeDir(i, n) ==
    /\ Does /\ place[i] = "new" /\ DirAt(n) = {} /\ Puts(i, n)
    /\ Hears(FromRoot("create", i, n, FALSE)) /\ UNCHANGED watched

RemoveDir(i) ==
    /\ Does /\ InTree(i) /\ file[i] = None /\ Puts(i, "gone")
    /\ Hears(FromRoot("delete", i, place[i], FALSE)) /\ watched' = watched \ {i}

Rename(i, n) ==
    /\ Does /\ InTree(i) /\ DirAt(n) = {} /\ Puts(i, n)
    /\ HearsBoth(FromRoot("from", i, place[i], TRUE), FromRoot("to", i, n, TRUE)) /\ UNCHANGED watched

MoveOut(i) ==
    /\ Does /\ InTree(i) /\ Puts(i, "outside")
    /\ Hears(FromRoot("from", i, place[i], FALSE)) /\ UNCHANGED watched

MoveIn(i, n) ==
    /\ Does /\ place[i] = "outside" /\ DirAt(n) = {} /\ Puts(i, n)
    /\ Hears(FromRoot("to", i, n, FALSE)) /\ UNCHANGED watched

CreateFile(i) ==
    /\ Does /\ InTree(i) /\ file[i] = None /\ Writes(i, "")
    /\ Hears(FromDir(i, "create")) /\ UNCHANGED watched

Save(i, c) ==
    /\ Does /\ file[i] \notin {None, c} /\ place[i] # "gone" /\ Writes(i, c)
    /\ Hears(FromDir(i, "modify")) /\ UNCHANGED watched

DeleteFile(i) ==
    /\ Does /\ InTree(i) /\ file[i] # None /\ Writes(i, None)
    /\ Hears(FromDir(i, "delete")) /\ UNCHANGED watched

MoveFile(i, j) ==
    /\ Does /\ InTree(i) /\ InTree(j) /\ i # j /\ file[i] # None
    /\ file' = [file EXCEPT ![i] = None, ![j] = file[i]] /\ UNCHANGED place
    /\ HearsBoth(FromDir(i, "from"), FromDir(j, "to")) /\ UNCHANGED watched

User ==
    \E i \in Inode :
        \/ RemoveDir(i) \/ MoveOut(i) \/ CreateFile(i) \/ DeleteFile(i)
        \/ \E c \in Text : Save(i, c)
        \/ \E n \in Name : MakeDir(i, n) \/ Rename(i, n) \/ MoveIn(i, n)
        \/ \E j \in Inode : MoveFile(i, j)

-----------------------------------------------------------------------------
(* watch_directory: one event of inotify, under mtx. *)

Ev(type, p, kind) == [type |-> type, path |-> p, kind |-> kind]

\* fs::is_directory, asked when the event is handled.
KindNow(p) == IF p \in DirPath /\ DirAt(p[1]) # {} THEN "dir" ELSE "file"

\* get_snapshot_entries
Below(p) == {q \in snapshot : IsPrefix(p, q)}

Adds == {"Created", "MovedTo"}
Removes == {"Deleted", "MovedFrom"}

\* Is e dropped although what is queued after its equal undoes it?
Mistaken(q, e) ==
    \E i, j \in DOMAIN q :
        /\ q[i] = e /\ i < j
        /\ IsPrefix(q[j].path, e.path) \/ IsPrefix(e.path, q[j].path)
        /\ IF e.type \in Removes THEN q[j].type \in Adds ELSE q[j].type \in Removes

PushIfTwice(events, inTime) ==   \* mutant: eventMap is not asked
    /\ queue' = queue \o events
    /\ clean' = (clean /\ inTime /\ \A e \in ToSet(events) : ~Mistaken(queue, e))

\* eventQueue.push unless eventMap has the event.
PushIf(events, inTime) ==
    /\ queue' = Distinct(queue \o events)
    /\ clean' = (clean /\ inTime /\ \A e \in ToSet(events) : ~Mistaken(queue, e))
Push(events) == PushIf(events, TRUE)

AddWatchOnce(n) ==   \* mutant: a watch that is there keeps its path
    /\ watched' = watched \cup DirAt(n)
    /\ path' = [i \in Inode |-> IF i \in DirAt(n) \ watched THEN n ELSE path[i]]

\* inotify_add_watch for whatever has the name now.
AddWatch(n) ==
    /\ watched' = watched \cup DirAt(n)
    /\ path' = [i \in Inode |-> IF i \in DirAt(n) THEN n ELSE path[i]]

HandleFile(s) ==
    /\ s.wd # "root"
    /\ LET p == FileIn(path[s.wd]) IN
       \/ /\ s.mask = "create" /\ snapshot' = snapshot \cup {p} /\ Push(<<Ev("Created", p, "file")>>)
       \/ /\ s.mask = "delete" /\ snapshot' = snapshot \ {p} /\ Push(<<Ev("Deleted", p, "file")>>)
       \/ /\ s.mask = "modify" /\ UNCHANGED snapshot /\ Push(<<Ev("Modified", p, "file")>>)
       \/ /\ s.mask = "from" /\ snapshot' = snapshot \ {p} /\ Push(<<Ev("MovedFrom", p, "file")>>)
       \/ /\ s.mask = "to" /\ snapshot' = snapshot \cup {p} /\ Push(<<Ev("MovedTo", p, "file")>>)
    /\ UNCHANGED <<watched, path, moved>>

IsNewDir(s) == s.wd = "root" /\ (s.mask = "create" \/ (s.mask = "to" /\ ~s.paired))

\* Does add_watch come too late, for a directory that holds a file already or
\* is somewhere else by now, or too early, for another that has the name?
Untimely(s) ==
    IF place[s.dir] = s.name THEN file[s.dir] # None
    ELSE InTree(s.dir) \/ s.mask = "to" \/ DirAt(s.name) # {}

\* A directory that is new under its name is watched from now on; what it
\* holds already is not reported.
HandleNewDir(s) ==
    /\ IsNewDir(s)
    /\ snapshot' = snapshot \cup {<<s.name>>}
    /\ AddWatch(s.name)
    /\ PushIf(<<Ev(IF s.mask = "create" THEN "Created" ELSE "MovedTo", <<s.name>>, "dir")>>,
            ~Untimely(s))
    /\ UNCHANGED moved

\* The entries below are reported in the order of a hash table.
HandleDeletedDir(s) ==
    /\ s.wd = "root" /\ s.mask = "delete"
    /\ \E entries \in SetToSeqs(Below(<<s.name>>)) :
         Push([k \in DOMAIN entries |-> Ev("Deleted", entries[k], KindNow(entries[k]))]
                \o <<Ev("Deleted", <<s.name>>, "dir")>>)
    /\ snapshot' = snapshot \ Below(<<s.name>>)
    /\ UNCHANGED <<watched, path, moved>>

\* What is below is reported first.
HandleMovedFrom(s) ==
    /\ s.wd = "root" /\ s.mask = "from"
    /\ LET p == <<s.name>>
           children == SetToSeq(Below(p) \ {p}) IN
       Push([k \in DOMAIN children |-> Ev("MovedFrom", children[k], KindNow(children[k]))]
              \o <<Ev("MovedFrom", p, "dir")>>)
    /\ snapshot' = snapshot \ Below(<<s.name>>)
    /\ moved' = IF s.paired THEN s.name ELSE moved
    /\ UNCHANGED <<watched, path>>

HandleMovedToUnlisted(s) ==   \* mutant: what is found does not go into the snapshot
    /\ s.wd = "root" /\ s.mask = "to" /\ s.paired
    /\ path' = [i \in Inode |-> IF path[i] = moved THEN s.name ELSE path[i]]
    /\ LET found == IF TextAt(s.name) # None THEN <<FileIn(s.name)>> ELSE <<>> IN
       Push(<<Ev("MovedTo", <<s.name>>, "dir")>>
              \o [k \in DOMAIN found |-> Ev("MovedTo", found[k], "file")])
    /\ moved' = None
    /\ UNCHANGED <<watched, snapshot>>

\* The watches of the directory follow it; what it holds now is reported.
HandleMovedTo(s) ==
    /\ s.wd = "root" /\ s.mask = "to" /\ s.paired
    /\ path' = [i \in Inode |-> IF path[i] = moved THEN s.name ELSE path[i]]
    /\ LET found == IF TextAt(s.name) # None THEN <<FileIn(s.name)>> ELSE <<>> IN
       /\ Push(<<Ev("MovedTo", <<s.name>>, "dir")>>
                 \o [k \in DOMAIN found |-> Ev("MovedTo", found[k], "file")])
       /\ snapshot' = snapshot \cup ToSet(found)
    /\ moved' = None
    /\ UNCHANGED watched

Handle ==
    /\ ~draining /\ inotify # <<>>
    /\ inotify' = Tail(inotify)
    /\ LET s == Head(inotify) IN
       HandleFile(s) \/ HandleNewDir(s) \/ HandleDeletedDir(s) \/ HandleMovedFrom(s) \/ HandleMovedTo(s)
    /\ UNCHANGED <<tree, sync>>

-----------------------------------------------------------------------------
(* process_local_events: it keeps mtx until the queue is empty. *)

Drain ==
    /\ ~draining /\ queue # <<>>
    /\ draining' = TRUE
    /\ UNCHANGED <<tree, watcher, inotify, queue, row, known, clean>>

\* readTextFile: a file that is missing reads as empty.
ReadText(p) == IF TextAt(p[1]) = None THEN "" ELSE TextAt(p[1])

Knows(p, v) == known' = [known EXCEPT ![p] = v]

\* create_file; the metaserver refuses a file whose directory it does not know.
AddFile(p) ==
    /\ row' = row \cup {p}
    /\ IF known[<<p[1]>>] = None THEN UNCHANGED known ELSE Knows(p, ReadText(p))

\* create_directory
AddDir(p) ==
    IF p \in row THEN UNCHANGED <<row, known>> ELSE row' = row \cup {p} /\ Knows(p, "dir")

\* file_modified
Upload(p) ==
    /\ IF p \in row /\ known[p] # None THEN Knows(p, ReadText(p)) ELSE UNCHANGED known
    /\ UNCHANGED row

\* delete_event: the rows below go too, the servers delete the path alone.
Delete(p) ==
    /\ row' = IF p \in row THEN {q \in row : ~IsPrefix(p, q)} ELSE row
    /\ Knows(p, None)

ProcessEvent ==
    /\ draining
    /\ queue' = Tail(queue) /\ draining' = (Tail(queue) # <<>>)
    /\ LET e == Head(queue) IN
       \/ /\ e.kind = "file" /\ e.path \in DirPath     \* not a .txt file
          /\ UNCHANGED <<row, known>>
       \/ /\ e.kind = "file" /\ e.path \notin DirPath
          /\ \/ e.type \in Adds /\ AddFile(e.path)
             \/ e.type = "Modified" /\ Upload(e.path)
             \/ e.type \in Removes /\ Delete(e.path)
       \/ /\ e.kind = "dir"
          /\ \/ e.type \in Adds /\ AddDir(e.path)
             \/ e.type \in Removes /\ Delete(e.path)
    /\ UNCHANGED <<tree, watcher, inotify, clean>>

-----------------------------------------------------------------------------
Next == User \/ Handle \/ Drain \/ ProcessEvent

Spec == Init /\ [][Next]_vars

-----------------------------------------------------------------------------
Settled == inotify = <<>> /\ queue = <<>>

\* When all events are processed the servers have the tree.
KnownIsTree == Settled /\ clean => known = Tree

\* Every watch of a directory in the tree has the directory's path.
PathsRight == inotify = <<>> /\ clean => \A i \in watched : InTree(i) => path[i] = place[i]
=============================================================================
