---------------------------- MODULE WatcherProofs ----------------------------
(***************************************************************************)
(* What TLAPS proves of the watcher and of process_local_events, for all    *)
(* directories, names and users' actions: the types, that the watches have  *)
(* the paths of their directories, and that the servers come to have the    *)
(* tree.  The theorems speak of the properties of Services, which are those *)
(* of Watcher.                                                              *)
(***************************************************************************)
EXTENDS SubsequenceProofs, Services

-----------------------------------------------------------------------------
(* Watcher: its types. *)

\* What the watcher's Distinct does is what SubsequenceProofs says.
LEMMA QueueKeeps ==
    ASSUME NEW S, NEW s \in Seq(S), NEW t \in Seq(S)
    PROVE  W!Distinct(s \o t) \in Seq(S) /\ W!IsInjective(W!Distinct(s \o t))
<1>1. \A q : W!Distinct(q) = Distinct(q)
  BY DEF W!Distinct, W!Picked, Distinct, Picked, W!Cardinality, Cardinality
<1>2. \A q : W!IsInjective(q) = IsInjective(q)
  BY DEF W!IsInjective, IsInjective
<1>3. s \o t \in Seq(S)
  OBVIOUS
<1> QED BY <1>1, <1>2, <1>3, DistinctKeeps

\* A finite set has a sequence of its elements.
LEMMA Listed ==
    ASSUME NEW S, IsFiniteSet(S)
    PROVE  W!SetToSeq(S) \in Seq(S)
<1>1. \A T : W!Cardinality(T) = Cardinality(T)
  BY DEF W!Cardinality, Cardinality
<1>2. Cardinality(S) \in Nat
  BY FS_CardinalityType
<1>3. PICK f : f \in Bijection(1..Cardinality(S), S)
  BY FS_CardinalityType DEF ExistsBijection
<1>4. f \in [1..W!Cardinality(S) -> S] /\ W!IsInjective(f)
  BY <1>1, <1>3 DEF Bijection, Injection, W!IsInjective, IsInjective
<1>5. W!SetToSeq(S) \in [1..Cardinality(S) -> S]
  BY <1>1, <1>4 DEF W!SetToSeq
<1> QED BY <1>2, <1>5, SeqDef

\* The paths of a tree are finitely many.
LEMMA PathsFinite == ASSUME NEW S \in SUBSET W!Path PROVE IsFiniteSet(S)
<1> DEFINE dir == [n \in Name |-> <<n>>]
           txt == [n \in Name |-> W!FileIn(n)]
<1>1. dir \in Surjection(Name, {dir[n] : n \in Name}) /\ txt \in Surjection(Name, {txt[n] : n \in Name})
  BY DEF Surjection
<1>3. IsFiniteSet({dir[n] : n \in Name}) /\ IsFiniteSet({txt[n] : n \in Name})
  <2> HIDE DEF dir, txt
  <2> QED BY <1>1, FS_Surjection, TreesFit
<1>2. {dir[n] : n \in Name} \cup {txt[n] : n \in Name} = W!Path
  BY DEF W!Path, W!DirPath
<1>4. IsFiniteSet({dir[n] : n \in Name} \cup {txt[n] : n \in Name})
  BY <1>3, FS_Union
<1> QED BY <1>2, <1>4, FS_Subset

\* The events that are made of the paths of a list.
LEMMA EventsOf ==
    ASSUME NEW p \in W!Path, NEW entries \in Seq(W!Path), NEW type \in {"Deleted", "MovedFrom"}
    PROVE  [k \in DOMAIN entries |-> W!Ev(type, entries[k], W!KindNow(entries[k]))]
             \o <<W!Ev(type, p, "dir")>> \in Seq(W!LocalEvent)
<1> DEFINE f == [k \in DOMAIN entries |-> W!Ev(type, entries[k], W!KindNow(entries[k]))]
<1>1. DOMAIN entries = 1..Len(entries) /\ Len(entries) \in Nat
  OBVIOUS
<1>2. f \in [1..Len(entries) -> W!LocalEvent]
  BY <1>1 DEF W!Ev, W!LocalEvent, W!KindNow
<1>3. f \in Seq(W!LocalEvent)
  BY <1>1, <1>2, SeqDef
<1> DEFINE e == W!Ev(type, p, "dir")
<1>4. e \in W!LocalEvent
  BY DEF W!Ev, W!LocalEvent
<1> HIDE DEF f, e
<1>5. f \o <<e>> \in Seq(W!LocalEvent)
  BY <1>3, <1>4
<1> QED BY <1>5 DEF f, e

\* The signals that the user's actions cause, and those that the watcher can
\* handle: wd_to_path has the directory.
Caused == {s \in W!Signal : s.wd = "root" => s.name \in Name}
Sound == {s \in Caused : s.wd # "root" => path[s.wd] \in Name}

WatcherType ==
    /\ W!TypeOK
    /\ inotify \in Seq(Sound)
    /\ \A i \in watched : path[i] \in Name
    /\ draining => eventQueue # <<>>

\* What a signal that is heard appends.
LEMMA HeardType ==
    ASSUME WatcherType, NEW signals, NEW heard \in Seq(Sound), W!HearsAll(signals, heard)
    PROVE  /\ inotify' \in Seq(Sound)' /\ clean' \in BOOLEAN
           /\ UNCHANGED <<path, snapshot, moved, eventQueue, draining, row, known>>
<1>1. inotify \in Seq(Sound) /\ clean \in BOOLEAN
  BY DEF WatcherType, W!TypeOK
<1>2. inotify \o heard \in Seq(Sound)
  BY <1>1
<1>3. path' = path => Sound' = Sound
  BY DEF Sound
<1> QED BY <1>1, <1>2, <1>3 DEF W!HearsAll, W!sync

\* The signals of the user's actions.
LEMMA RootSignal ==
    ASSUME NEW i \in Inode, NEW n \in Name, NEW mask \in {"create", "delete", "modify", "from", "to"},
           NEW b \in BOOLEAN
    PROVE  W!FromRoot(mask, i, n, b) \in Caused
BY DEF W!FromRoot, W!Signal, Caused

\* Those of a directory do not look like those of the root.
LEMMA DirSignal ==
    ASSUME NEW i \in Inode, NEW mask \in {"create", "delete", "modify", "from", "to"}
    PROVE  W!FromDir(i, mask) \in Caused
BY TreesFit DEF W!FromDir, W!Signal, Caused

\* A signal that is heard can be handled.
LEMMA HeardSound == ASSUME WatcherType, NEW s \in Caused PROVE W!Heard(s) \in Seq(Sound)
<1>1. CASE s.wd \in {"root"} \cup watched
  <2>1. s \in Sound
    BY <1>1 DEF WatcherType, Sound
  <2> QED BY <1>1, <2>1 DEF W!Heard
<1>2. CASE ~(s.wd \in {"root"} \cup watched)
  BY <1>2 DEF W!Heard
<1> QED BY <1>1, <1>2

\* A signal of the type is heard as such.
LEMMA HearsType ==
    ASSUME WatcherType, NEW s \in Caused, W!Hears(s)
    PROVE  /\ inotify' \in Seq(Sound)' /\ clean' \in BOOLEAN
           /\ UNCHANGED <<path, snapshot, moved, eventQueue, draining, row, known>>
BY HeardSound, HeardType DEF W!Hears

\* Two signals of the type are heard as such.
LEMMA HearsBothType ==
    ASSUME WatcherType, NEW s \in Caused, NEW t \in Caused, W!HearsBoth(s, t)
    PROVE  /\ inotify' \in Seq(Sound)' /\ clean' \in BOOLEAN
           /\ UNCHANGED <<path, snapshot, moved, eventQueue, draining, row, known>>
<1>1. W!Heard(s) \in Seq(Sound) /\ W!Heard(t) \in Seq(Sound)
  BY HeardSound
<1>2. W!Heard(s) \o W!Heard(t) \in Seq(Sound)
  BY <1>1
<1> QED BY <1>2, HeardType DEF W!HearsBoth

\* What the user does keeps the types.
LEMMA UserType == ASSUME WatcherType, W!User PROVE WatcherType'
<1>p. place \in [Inode -> {"new", "gone", "outside"} \cup Name] /\ file \in [Inode -> {None} \cup W!Text]
  BY DEF WatcherType, W!TypeOK
<1>d. ops \in 0..MaxOps /\ MaxOps \in Nat /\ (W!Does => ops' \in 0..MaxOps)
  BY TreesFit DEF WatcherType, W!TypeOK, W!Does
<1>1. PICK i \in Inode :
        \/ W!RemoveDir(i) \/ W!MoveOut(i) \/ W!CreateFile(i) \/ W!DeleteFile(i)
        \/ \E c \in W!Text : W!Save(i, c)
        \/ \E n \in Name : W!MakeDir(i, n) \/ W!Rename(i, n) \/ W!MoveIn(i, n)
        \/ \E j \in Inode : W!MoveFile(i, j)
  BY DEF W!User
<1> DEFINE Kept == /\ place' \in [Inode -> {"new", "gone", "outside"} \cup Name]
                   /\ file' \in [Inode -> {None} \cup W!Text]
                   /\ watched' \subseteq watched /\ ops' \in 0..MaxOps
                   /\ inotify' \in Seq(Sound)' /\ clean' \in BOOLEAN
                   /\ UNCHANGED <<path, snapshot, moved, eventQueue, draining, row, known>>
<1>2. ASSUME W!RemoveDir(i) PROVE Kept
  <2>1. W!FromRoot("delete", i, place[i], FALSE) \in Caused
    BY <1>2, RootSignal DEF W!RemoveDir, W!InTree
  <2> QED BY <1>2, <1>p, <1>d, <2>1, HearsType DEF W!RemoveDir, W!Puts
<1>3. ASSUME W!MoveOut(i) PROVE Kept
  <2>1. W!FromRoot("from", i, place[i], FALSE) \in Caused
    BY <1>3, RootSignal DEF W!MoveOut, W!InTree
  <2> QED BY <1>3, <1>p, <1>d, <2>1, HearsType DEF W!MoveOut, W!Puts
<1>4. ASSUME W!CreateFile(i) PROVE Kept
  <2>1. W!FromDir(i, "create") \in Caused
    BY DirSignal
  <2> QED BY <1>4, <1>p, <1>d, <2>1, HearsType DEF W!CreateFile, W!Writes, W!Text
<1>5. ASSUME W!DeleteFile(i) PROVE Kept
  <2>1. W!FromDir(i, "delete") \in Caused
    BY DirSignal
  <2> QED BY <1>5, <1>p, <1>d, <2>1, HearsType DEF W!DeleteFile, W!Writes
<1>6. ASSUME NEW c \in W!Text, W!Save(i, c) PROVE Kept
  <2>1. W!FromDir(i, "modify") \in Caused
    BY DirSignal
  <2> QED BY <1>6, <1>p, <1>d, <2>1, HearsType DEF W!Save, W!Writes
<1>7. ASSUME NEW n \in Name, W!MakeDir(i, n) PROVE Kept
  <2>1. W!FromRoot("create", i, n, FALSE) \in Caused
    BY RootSignal
  <2> QED BY <1>7, <1>p, <1>d, <2>1, HearsType DEF W!MakeDir, W!Puts
<1>8. ASSUME NEW n \in Name, W!Rename(i, n) PROVE Kept
  <2>1. W!FromRoot("from", i, place[i], TRUE) \in Caused /\ W!FromRoot("to", i, n, TRUE) \in Caused
    BY <1>8, RootSignal DEF W!Rename, W!InTree
  <2> QED BY <1>8, <1>p, <1>d, <2>1, HearsBothType DEF W!Rename, W!Puts
<1>9. ASSUME NEW n \in Name, W!MoveIn(i, n) PROVE Kept
  <2>1. W!FromRoot("to", i, n, FALSE) \in Caused
    BY RootSignal
  <2> QED BY <1>9, <1>p, <1>d, <2>1, HearsType DEF W!MoveIn, W!Puts
<1>10. ASSUME NEW j \in Inode, W!MoveFile(i, j) PROVE Kept
  <2>1. W!FromDir(i, "from") \in Caused /\ W!FromDir(j, "to") \in Caused
    BY DirSignal
  <2> QED BY <1>10, <1>p, <1>d, <2>1, HearsBothType DEF W!MoveFile
<1>11. Kept
  <2> HIDE DEF Kept
  <2> QED BY <1>1, <1>2, <1>3, <1>4, <1>5, <1>6, <1>7, <1>8, <1>9, <1>10
<1>12. inotify' \in Seq(W!Signal)
  <2>1. Sound' \subseteq W!Signal
    BY DEF Sound, Caused
  <2> QED BY <1>11, <2>1
<1> QED BY <1>11, <1>12 DEF WatcherType, W!TypeOK, W!IsInjective

\* What a handler pushes.
LEMMA PushType ==
    ASSUME WatcherType, NEW events \in Seq(W!LocalEvent), NEW inTime \in BOOLEAN, W!PushIf(events, inTime)
    PROVE  eventQueue' \in Seq(W!LocalEvent) /\ W!IsInjective(eventQueue') /\ clean' \in BOOLEAN
<1>1. eventQueue \in Seq(W!LocalEvent) /\ clean \in BOOLEAN
  BY DEF WatcherType, W!TypeOK
<1>2. eventQueue' = W!Distinct(eventQueue \o events)
      /\ clean' = (clean /\ inTime /\ \A e \in W!ToSet(events) : ~W!Mistaken(eventQueue, e))
  BY DEF W!PushIf
<1>3. eventQueue' \in Seq(W!LocalEvent) /\ W!IsInjective(W!Distinct(eventQueue \o events))
  BY <1>1, <1>2, QueueKeeps
<1> QED BY <1>1, <1>2, <1>3 DEF W!IsInjective

\* The paths that the watcher deals with.
LEMMA PathType ==
    ASSUME NEW n \in Name
    PROVE  <<n>> \in W!Path /\ W!FileIn(n) \in W!Path
BY DEF W!Path, W!DirPath

\* What is below a path in the snapshot is in lists of paths.
LEMMA BelowListed ==
    ASSUME WatcherType, NEW S \in SUBSET snapshot
    PROVE  /\ W!SetToSeq(S) \in Seq(W!Path)
           /\ \A entries \in W!SetToSeqs(S) : entries \in Seq(W!Path)
<1>1. S \in SUBSET W!Path /\ IsFiniteSet(S)
  BY PathsFinite DEF WatcherType, W!TypeOK
<1>2. Cardinality(S) \in Nat /\ \A T : W!Cardinality(T) = Cardinality(T)
  BY <1>1, FS_CardinalityType DEF W!Cardinality, Cardinality
<1>3. W!SetToSeq(S) \in Seq(S)
  BY <1>1, Listed
<1>4. \A entries \in W!SetToSeqs(S) : entries \in [1..Cardinality(S) -> S]
  BY <1>2 DEF W!SetToSeqs
<1>5. \A entries \in W!SetToSeqs(S) : entries \in Seq(S)
  BY <1>2, <1>4, SeqDef
<1> QED BY <1>1, <1>3, <1>5

\* What a handler of one signal leaves.
Handled ==
    /\ path' \in [Inode -> {None} \cup Name] /\ \A i \in Inode : path[i] \in Name => path'[i] \in Name
    /\ watched' \subseteq Inode /\ \A i \in watched' : path'[i] \in Name
    /\ snapshot' \subseteq W!Path /\ moved' \in {None} \cup Name
    /\ eventQueue' \in Seq(W!LocalEvent) /\ W!IsInjective(eventQueue') /\ clean' \in BOOLEAN

\* Each handler keeps the types.
LEMMA HandlersType ==
    ASSUME WatcherType, NEW s \in Sound,
           \/ W!HandleFile(s) \/ W!HandleNewDir(s) \/ W!HandleDeletedDir(s)
           \/ W!HandleMovedFrom(s) \/ W!HandleMovedTo(s)
    PROVE  Handled
<1>t. /\ path \in [Inode -> {None} \cup Name] /\ watched \subseteq Inode /\ snapshot \subseteq W!Path
      /\ moved \in {None} \cup Name /\ \A i \in watched : path[i] \in Name
  BY DEF WatcherType, W!TypeOK
<1>s. (s.wd = "root" => s.name \in Name) /\ (s.wd # "root" => path[s.wd] \in Name)
  BY DEF Sound, Caused
<1>1. ASSUME NEW events \in Seq(W!LocalEvent), W!Push(events)
      PROVE  eventQueue' \in Seq(W!LocalEvent) /\ W!IsInjective(eventQueue') /\ clean' \in BOOLEAN
  BY <1>1, PushType DEF W!Push
<1>2. ASSUME W!HandleFile(s) PROVE Handled
  <2> DEFINE p == W!FileIn(path[s.wd])
  <2>1. p \in W!Path
    BY <1>2, <1>s, PathType DEF W!HandleFile
  <2> HIDE DEF p
  <2>2. \A type \in {"Created", "Deleted", "Modified", "MovedFrom", "MovedTo"} :
          <<W!Ev(type, p, "file")>> \in Seq(W!LocalEvent)
    <3> SUFFICES ASSUME NEW type \in {"Created", "Deleted", "Modified", "MovedFrom", "MovedTo"}
                 PROVE  <<W!Ev(type, p, "file")>> \in Seq(W!LocalEvent)
      OBVIOUS
    <3>1. W!Ev(type, p, "file") \in W!LocalEvent
      BY <2>1 DEF W!Ev, W!LocalEvent
    <3> QED BY <3>1
  <2>3. UNCHANGED <<watched, path, moved>>
    BY <1>2 DEF W!HandleFile
  <2>4. /\ snapshot' \in {snapshot, snapshot \cup {p}, snapshot \ {p}}
        /\ \E type \in {"Created", "Deleted", "Modified", "MovedFrom", "MovedTo"} :
             W!Push(<<W!Ev(type, p, "file")>>)
    BY <1>2 DEF W!HandleFile, p
  <2>5. eventQueue' \in Seq(W!LocalEvent) /\ W!IsInjective(eventQueue') /\ clean' \in BOOLEAN
    BY <2>2, <2>4, <1>1
  <2>6. snapshot' \subseteq W!Path
    BY <2>1, <2>4, <1>t
  <2> QED BY <2>3, <2>5, <2>6, <1>t DEF Handled
<1>3. ASSUME W!HandleNewDir(s) PROVE Handled
  <2>1. s.name \in Name /\ <<s.name>> \in W!Path
    BY <1>3, <1>s, PathType DEF W!HandleNewDir, W!IsNewDir
  <2> DEFINE e == W!Ev(IF s.mask = "create" THEN "Created" ELSE "MovedTo", <<s.name>>, "dir")
  <2>2. e \in W!LocalEvent
    BY <2>1 DEF W!Ev, W!LocalEvent
  <2>3. W!PushIf(<<e>>, ~W!Untimely(s)) /\ W!AddWatch(s.name)
        /\ snapshot' = snapshot \cup {<<s.name>>} /\ moved' = moved
    BY <1>3 DEF W!HandleNewDir
  <2> HIDE DEF e
  <2>4. <<e>> \in Seq(W!LocalEvent) /\ (~W!Untimely(s)) \in BOOLEAN
    BY <2>2
  <2>5. eventQueue' \in Seq(W!LocalEvent) /\ W!IsInjective(eventQueue') /\ clean' \in BOOLEAN
    BY <2>3, <2>4, PushType
  <2>6. /\ path' \in [Inode -> {None} \cup Name] /\ watched' \subseteq Inode
        /\ \A i \in Inode : path[i] \in Name => path'[i] \in Name
        /\ \A i \in watched' : path'[i] \in Name
    BY <2>1, <2>3, <1>t DEF W!AddWatch, W!DirAt
  <2> QED BY <2>1, <2>3, <2>5, <2>6, <1>t DEF Handled
<1>4. ASSUME W!HandleDeletedDir(s) PROVE Handled
  <2>1. s.name \in Name /\ <<s.name>> \in W!Path
    BY <1>4, <1>s, PathType DEF W!HandleDeletedDir
  <2>2. PICK entries \in W!SetToSeqs(W!Below(<<s.name>>)) :
         W!Push([k \in DOMAIN entries |-> W!Ev("Deleted", entries[k], W!KindNow(entries[k]))]
                  \o <<W!Ev("Deleted", <<s.name>>, "dir")>>)
    BY <1>4 DEF W!HandleDeletedDir
  <2>3. entries \in Seq(W!Path)
    BY BelowListed DEF W!Below
  <2>4. [k \in DOMAIN entries |-> W!Ev("Deleted", entries[k], W!KindNow(entries[k]))]
                  \o <<W!Ev("Deleted", <<s.name>>, "dir")>> \in Seq(W!LocalEvent)
    BY <2>1, <2>3, EventsOf
  <2>5. eventQueue' \in Seq(W!LocalEvent) /\ W!IsInjective(eventQueue') /\ clean' \in BOOLEAN
    BY <2>2, <2>4, <1>1
  <2>6. UNCHANGED <<watched, path, moved>> /\ snapshot' \subseteq snapshot
    BY <1>4 DEF W!HandleDeletedDir
  <2> QED BY <2>5, <2>6, <1>t DEF Handled
<1>5. ASSUME W!HandleMovedFrom(s) PROVE Handled
  <2>1. s.name \in Name /\ <<s.name>> \in W!Path
    BY <1>5, <1>s, PathType DEF W!HandleMovedFrom
  <2> DEFINE p == <<s.name>>
             children == W!SetToSeq(W!Below(p) \ {p})
  <2>2. W!Push([k \in DOMAIN children |-> W!Ev("MovedFrom", children[k], W!KindNow(children[k]))]
                  \o <<W!Ev("MovedFrom", p, "dir")>>)
    BY <1>5 DEF W!HandleMovedFrom
  <2>3. children \in Seq(W!Path)
    <3>1. W!Below(p) \ {p} \in SUBSET snapshot
      BY DEF W!Below
    <3> QED BY <3>1, BelowListed
  <2>4. [k \in DOMAIN children |-> W!Ev("MovedFrom", children[k], W!KindNow(children[k]))]
                  \o <<W!Ev("MovedFrom", p, "dir")>> \in Seq(W!LocalEvent)
    <3> HIDE DEF children
    <3> QED BY <2>1, <2>3, EventsOf
  <2>5. eventQueue' \in Seq(W!LocalEvent) /\ W!IsInjective(eventQueue') /\ clean' \in BOOLEAN
    BY <2>2, <2>4, <1>1
  <2>6. UNCHANGED <<watched, path>> /\ snapshot' \subseteq snapshot /\ moved' \in {s.name, moved}
    BY <1>5 DEF W!HandleMovedFrom
  <2> QED BY <2>1, <2>5, <2>6, <1>t DEF Handled
<1>6. ASSUME W!HandleMovedTo(s) PROVE Handled
  <2>1. s.name \in Name /\ <<s.name>> \in W!Path /\ W!FileIn(s.name) \in W!Path
    BY <1>6, <1>s, PathType DEF W!HandleMovedTo
  <2> DEFINE found == IF W!TextAt(s.name) # None THEN <<W!FileIn(s.name)>> ELSE <<>>
             events == <<W!Ev("MovedTo", <<s.name>>, "dir")>>
                         \o [k \in DOMAIN found |-> W!Ev("MovedTo", found[k], "file")]
  <2>2. W!Push(events) /\ snapshot' = snapshot \cup W!ToSet(found) /\ moved' = None /\ watched' = watched
        /\ path' = [i \in Inode |-> IF path[i] = moved THEN s.name ELSE path[i]]
    BY <1>6 DEF W!HandleMovedTo
  <2>3. found \in Seq(W!Path) /\ W!ToSet(found) \subseteq W!Path
    BY <2>1 DEF W!ToSet
  <2>4. events \in Seq(W!LocalEvent)
    <3> DEFINE f == [k \in DOMAIN found |-> W!Ev("MovedTo", found[k], "file")]
               e == W!Ev("MovedTo", <<s.name>>, "dir")
    <3> HIDE DEF found
    <3>1. DOMAIN found = 1..Len(found) /\ Len(found) \in Nat
      BY <2>3
    <3>2. f \in [1..Len(found) -> W!LocalEvent]
      BY <2>3, <3>1 DEF W!Ev, W!LocalEvent
    <3>3. f \in Seq(W!LocalEvent)
      BY <3>1, <3>2, SeqDef
    <3>4. e \in W!LocalEvent
      BY <2>1 DEF W!Ev, W!LocalEvent
    <3> HIDE DEF f, e
    <3>5. <<e>> \o f \in Seq(W!LocalEvent)
      BY <3>3, <3>4
    <3> QED BY <3>5 DEF f, e
  <2> HIDE DEF events, found
  <2>5. eventQueue' \in Seq(W!LocalEvent) /\ W!IsInjective(eventQueue') /\ clean' \in BOOLEAN
    BY <2>2, <2>4, <1>1
  <2>6. path' \in [Inode -> {None} \cup Name] /\ \A i \in Inode : path[i] \in Name => path'[i] \in Name
    BY <2>1, <2>2, <1>t
  <2> QED BY <2>2, <2>3, <2>5, <2>6, <1>t DEF Handled
<1> QED BY <1>2, <1>3, <1>4, <1>5, <1>6

\* Handling the first of the signals.
LEMMA HandleType == ASSUME WatcherType, W!Handle PROVE WatcherType'
<1>1. inotify \in Seq(Sound) /\ inotify # <<>> /\ inotify' = Tail(inotify)
      /\ ~draining /\ UNCHANGED <<place, file, ops, draining, row, known>>
  BY DEF WatcherType, W!Handle, W!tree, W!sync
<1>2. Head(inotify) \in Sound /\ Tail(inotify) \in Seq(Sound)
  BY <1>1
<1>3. Handled
  BY <1>2, HandlersType DEF W!Handle
<1>4. Sound \subseteq Sound' /\ Sound' \subseteq W!Signal
  BY <1>3 DEF Sound, Caused, Handled, W!Signal
<1>5. inotify' \in Seq(Sound') /\ inotify' \in Seq(W!Signal)
  BY <1>1, <1>2, <1>4
<1> QED BY <1>1, <1>3, <1>5 DEF WatcherType, W!TypeOK, Handled

\* A text that is read.
LEMMA TextType ==
    ASSUME WatcherType, NEW n
    PROVE  W!TextAt(n) \in {None} \cup W!Text
<1>1. file \in [Inode -> {None} \cup W!Text] /\ W!DirAt(n) \subseteq Inode
  BY DEF WatcherType, W!TypeOK, W!DirAt
<1>2. CASE \E i \in W!DirAt(n) : file[i] # None
  BY <1>1, <1>2 DEF W!TextAt
<1>3. CASE ~ \E i \in W!DirAt(n) : file[i] # None
  BY <1>3 DEF W!TextAt
<1> QED BY <1>2, <1>3

\* The next event of the queue, applied.
LEMMA ProcessType == ASSUME WatcherType, W!ProcessEvent, eventQueue # <<>> PROVE WatcherType'
<1>t. /\ eventQueue \in Seq(W!LocalEvent) /\ W!IsInjective(eventQueue)
      /\ row \subseteq W!Path /\ known \in [W!Path -> {None, "dir"} \cup W!Text]
  BY DEF WatcherType, W!TypeOK
<1>1. /\ UNCHANGED <<place, file, ops, path, snapshot, moved, watched, inotify, clean>>
      /\ eventQueue' = Tail(eventQueue) /\ draining' = (Tail(eventQueue) # <<>>)
  BY DEF W!ProcessEvent, W!tree, W!watcher
<1>2. eventQueue' \in Seq(W!LocalEvent) /\ W!IsInjective(eventQueue')
  <2>1. /\ Tail(eventQueue) \in Seq(W!LocalEvent) /\ Len(eventQueue) \in Nat
        /\ DOMAIN Tail(eventQueue) = 1..(Len(eventQueue) - 1) /\ DOMAIN eventQueue = 1..Len(eventQueue)
        /\ \A k \in DOMAIN Tail(eventQueue) : Tail(eventQueue)[k] = eventQueue[k + 1]
    BY <1>t
  <2>2. \A k, l \in DOMAIN Tail(eventQueue) :
          Tail(eventQueue)[k] = Tail(eventQueue)[l] => k + 1 = l + 1
    BY <1>t, <2>1 DEF W!IsInjective
  <2>3. \A k, l \in DOMAIN Tail(eventQueue) : Tail(eventQueue)[k] = Tail(eventQueue)[l] => k = l
    BY <2>1, <2>2
  <2> QED BY <1>1, <2>1, <2>3 DEF W!IsInjective
<1> DEFINE e == Head(eventQueue)
<1>3. e \in W!LocalEvent /\ e.path \in W!Path
  <2>1. e \in W!LocalEvent
    BY <1>t
  <2> QED BY <2>1 DEF W!LocalEvent
<1>4. \/ UNCHANGED <<row, known>> \/ W!AddFile(e.path) \/ W!AddDir(e.path)
      \/ W!Upload(e.path) \/ W!Delete(e.path)
  BY DEF W!ProcessEvent
<1>5. \A n : W!TextAt(n) \in {None} \cup W!Text
  BY TextType
<1> HIDE DEF e
<1>6. /\ row' \in {row, row \cup {e.path}, {q \in row : ~W!IsPrefix(e.path, q)}}
      /\ known' \in {known} \cup {[known EXCEPT ![e.path] = v] : v \in {None, "dir"} \cup W!Text}
  BY <1>4, <1>5 DEF W!AddFile, W!AddDir, W!Upload, W!Delete, W!Knows, W!ReadText, W!Text
<1>7. row' \subseteq W!Path /\ known' \in [W!Path -> {None, "dir"} \cup W!Text]
  BY <1>3, <1>6, <1>t
<1> QED BY <1>1, <1>2, <1>7 DEF WatcherType, W!TypeOK, Sound

\* The watcher begins with types that are right.
LEMMA WatcherTypeInit == ASSUME W!Init PROVE WatcherType
<1>1. /\ place \in [Inode -> {"new", "gone", "outside"} \cup Name] /\ file \in [Inode -> {None} \cup W!Text]
      /\ watched \subseteq Inode /\ path \in [Inode -> {None} \cup Name]
      /\ \A i \in watched : path[i] \in Name
  BY DEF W!Init, W!InTree, W!Text
<1>2. \A n : W!TextAt(n) \in {None} \cup W!Text
  <2> SUFFICES ASSUME NEW n PROVE W!TextAt(n) \in {None} \cup W!Text
    OBVIOUS
  <2>1. W!DirAt(n) \subseteq Inode
    BY DEF W!DirAt
  <2>2. CASE \E i \in W!DirAt(n) : file[i] # None
    BY <1>1, <2>1, <2>2 DEF W!TextAt
  <2> QED BY <2>2 DEF W!TextAt
<1>3. known \in [W!Path -> {None, "dir"} \cup W!Text] /\ row \subseteq W!Path /\ snapshot \subseteq W!Path
  BY <1>2 DEF W!Init, W!Tree
<1>4. /\ inotify = <<>> /\ moved = None /\ eventQueue = <<>> /\ draining = FALSE /\ clean = TRUE /\ ops = 0
  BY DEF W!Init
<1>5. ops \in 0..MaxOps
  BY <1>4, TreesFit
<1>6. /\ W!IsInjective(eventQueue) /\ eventQueue \in Seq(W!LocalEvent)
      /\ inotify \in Seq(W!Signal) /\ inotify \in Seq(Sound)
  BY <1>4 DEF W!IsInjective
<1>7. draining \in BOOLEAN /\ clean \in BOOLEAN /\ moved \in {None} \cup Name /\ ~draining
  BY <1>4
<1> QED BY <1>1, <1>3, <1>5, <1>6, <1>7 DEF WatcherType, W!TypeOK

\* WatcherType is inductive.
LEMMA WatcherTypeStep == ASSUME WatcherType, [W!Next]_(W!vars) PROVE WatcherType'
<1>1. CASE W!User
  BY <1>1, UserType
<1>2. CASE W!Handle
  BY <1>2, HandleType
<1>3. CASE W!Drain
  BY <1>3 DEF W!Drain, WatcherType, W!TypeOK, W!tree, W!watcher, W!IsInjective, Sound
<1>4. CASE W!ProcessEvent
  <2>1. eventQueue # <<>>
    BY <1>4 DEF W!ProcessEvent, WatcherType
  <2> QED BY <1>4, <2>1, ProcessType
<1>5. CASE UNCHANGED W!vars
  BY <1>5 DEF W!vars, W!tree, W!watcher, W!sync, WatcherType, W!TypeOK, W!IsInjective, Sound
<1> QED BY <1>1, <1>2, <1>3, <1>4, <1>5 DEF W!Next

-----------------------------------------------------------------------------
(* Watcher: what a queue of events comes to. *)

\* What is left of a thing that there is at first when before says so, when
\* the events of q have been applied that add it and that remove it.
Ends(q, adds, removes, before) ==
    \/ \E i \in DOMAIN q : q[i] \in adds /\ \A j \in (i + 1)..Len(q) : q[j] \notin removes
    \/ before /\ \A j \in DOMAIN q : q[j] \notin removes

\* x are the events of ev that q does not have, in their order.
Gets(q, ev, x) ==
    /\ \A e : (\E k \in DOMAIN x : x[k] = e) <=>
              (\E k \in DOMAIN ev : ev[k] = e) /\ \A k \in DOMAIN q : q[k] # e
    /\ \A k, l \in DOMAIN x : k < l => \E a, b \in DOMAIN ev : a < b /\ ev[a] = x[k] /\ ev[b] = x[l]

\* What a queue that takes no event twice gets: the new ones, in their order.
LEMMA QueueGets ==
    ASSUME NEW S, NEW q \in Seq(S), W!IsInjective(q), NEW ev \in Seq(S)
    PROVE  \E x \in Seq(S) : W!Distinct(q \o ev) = q \o x /\ Gets(q, ev, x)
<1> DEFINE s == q \o ev
           n == Len(q)
           first == {i \in DOMAIN s : \A j \in 1..(i - 1) : s[j] # s[i]}
           r == Distinct(s)
<1>1. /\ s \in Seq(S) /\ n \in Nat /\ Len(ev) \in Nat /\ Len(s) = n + Len(ev)
      /\ \A i \in 1..n : s[i] = q[i]
      /\ \A i \in 1..Len(ev) : s[n + i] = ev[i]
      /\ DOMAIN q = 1..n /\ DOMAIN ev = 1..Len(ev)
  OBVIOUS
<1>2. W!Distinct(s) = r
  BY DEF W!Distinct, W!Picked, Distinct, Picked, W!Cardinality, Cardinality
<1> HIDE DEF s, n
<1>3. DOMAIN s = 1..(n + Len(ev)) /\ first \in SUBSET DOMAIN s
  BY <1>1
<1>4. 1..n \subseteq first
  <2> SUFFICES ASSUME NEW i \in 1..n PROVE i \in first
    OBVIOUS
  <2>1. i \in DOMAIN s /\ i \in Nat /\ \A j \in 1..(i - 1) : j \in 1..n /\ j # i
    BY <1>1, <1>3
  <2>2. \A j \in 1..n : j # i => q[j] # q[i]
    BY <1>1 DEF W!IsInjective
  <2> QED BY <2>1, <2>2, <1>1
<1>5. r \in Seq(S) /\ ToSet(r) = ToSet(s) /\ IsInjective(r)
  BY <1>1, DistinctKeeps
<1>p. r = Picked(s, first)
  BY DEF Distinct
<1>6. /\ \A i \in first : \E k \in DOMAIN r : r[k] = s[i]
      /\ \E from \in [DOMAIN r -> first] :
                /\ \A k \in DOMAIN r : r[k] = s[from[k]]
                /\ \A k, l \in DOMAIN r : k < l => from[k] < from[l]
  <2> HIDE DEF first, r
  <2>1. s \in Seq(S) /\ first \in SUBSET DOMAIN s
    BY <1>1, <1>3
  <2>2. \A i \in first : \E k \in DOMAIN Picked(s, first) : Picked(s, first)[k] = s[i]
    BY <2>1, PickedFrom
  <2>3. \E from \in [DOMAIN Picked(s, first) -> first] :
          /\ \A k \in DOMAIN Picked(s, first) : Picked(s, first)[k] = s[from[k]]
          /\ \A k, l \in DOMAIN Picked(s, first) : k < l => from[k] < from[l]
    BY <2>1, PickedFrom
  <2> QED BY <2>2, <2>3, <1>p, Zenon
<1>7. PICK from \in [DOMAIN r -> first] :
        /\ \A k \in DOMAIN r : r[k] = s[from[k]]
        /\ \A k, l \in DOMAIN r : k < l => from[k] < from[l]
  BY <1>6
<1> HIDE DEF r
<1>8. DOMAIN r = 1..Len(r) /\ Len(r) \in Nat
  BY <1>5
<1>9. \A i \in first : \A j \in first : s[i] = s[j] => i = j
  <2>1. \A i, j \in first : i < j => s[i] # s[j]
    BY <1>3
  <2>2. \A i, j \in first : i \in Int /\ j \in Int
    BY <1>3
  <2> HIDE DEF first
  <2> QED BY <2>1, <2>2
<1> HIDE DEF first
<1>10. \A i \in first : \E k \in DOMAIN r : from[k] = i
  BY <1>6, <1>7, <1>9
<1>11. \A k \in 1..n : k \in DOMAIN r /\ from[k] = k
  <2> DEFINE T == {k \in Nat : k \in 1..n /\ ~(k \in DOMAIN r /\ from[k] = k)}
  <2>0. \A k \in 1..n : k \in Nat
    BY <1>1
  <2> SUFFICES ASSUME T # {} PROVE FALSE
    BY <2>0
  <2>1. PICK k \in T : \A j \in T : ~(<<j, k>> \in OpToRel(<, Nat))
    <3>1. T \subseteq Nat
      OBVIOUS
    <3> HIDE DEF T
    <3> QED BY <3>1, WFMin, NatLessThanWellFounded
  <2>2. \A j \in T : ~(j < k)
    BY <2>1 DEF OpToRel
  <2>3. k \in 1..n /\ k \in Nat
    BY <2>1
  <2>4. \A j \in 1..(k - 1) : j \in DOMAIN r /\ from[j] = j
    BY <2>2, <2>3, <1>1
  <2>5. PICK m \in DOMAIN r : from[m] = k
    BY <2>3, <1>4, <1>10
  <2>6. m \in Nat /\ m > 0 /\ ~(m < k)
    BY <2>3, <2>4, <2>5, <1>8
  <2>7. CASE m = k
    BY <2>1, <2>5, <2>7
  <2>8. CASE k < m
    <3>1. k \in DOMAIN r /\ from[k] < k
      BY <2>3, <2>5, <2>8, <1>7, <1>8
    <3>2. from[k] \in 1..(k - 1)
      BY <3>1, <2>3, <1>3
    <3>3. from[k] \in DOMAIN r /\ from[from[k]] = from[k]
      BY <3>2, <2>4
    <3>4. from[from[k]] < from[k]
      BY <3>1, <3>2, <3>3, <2>3, <1>7
    <3> QED BY <3>2, <3>3, <3>4, <2>3
  <2> QED BY <2>3, <2>6, <2>7, <2>8
<1>12. n <= Len(r) /\ \A k \in 1..n : r[k] = q[k]
  <2>1. n = 0 \/ n \in 1..n
    BY <1>1
  <2> QED BY <2>1, <1>1, <1>7, <1>8, <1>11
<1> DEFINE x == [k \in 1..(Len(r) - n) |-> r[n + k]]
<1>13. x \in Seq(S) /\ Len(x) = Len(r) - n /\ DOMAIN x = 1..(Len(r) - n)
  <2>1. Len(r) - n \in Nat /\ \A k \in 1..(Len(r) - n) : n + k \in DOMAIN r
    BY <1>1, <1>8, <1>12
  <2>2. \A k \in DOMAIN r : r[k] \in S
    BY <1>5
  <2>3. x \in [1..(Len(r) - n) -> S]
    BY <2>1, <2>2
  <2>4. x \in Seq(S)
    BY <2>1, <2>3, SeqDef
  <2> QED BY <2>1, <2>3, <2>4
<1>14. \A k \in DOMAIN x : x[k] = r[n + k] /\ n + k \in DOMAIN r /\ n + k \in Nat /\ k \in Nat
  BY <1>1, <1>8, <1>12, <1>13
<1> HIDE DEF x
<1>15. r = q \o x
  <2>1. q \o x \in Seq(S) /\ Len(q \o x) = Len(r)
    <3>1. q \o x \in Seq(S) /\ Len(q \o x) = n + Len(x)
      BY <1>13 DEF n
    <3> QED BY <3>1, <1>1, <1>8, <1>12, <1>13
  <2>2. ASSUME NEW k \in 1..Len(r) PROVE r[k] = (q \o x)[k]
    <3>1. CASE k \in 1..n
      <4>1. (q \o x)[k] = q[k]
        BY <3>1, <1>13 DEF n
      <4> QED BY <3>1, <4>1, <1>12
    <3>2. CASE k \in (n + 1)..Len(r)
      <4>1. PICK l \in DOMAIN x : n + l = k
        <5>1. k - n \in DOMAIN x /\ n + (k - n) = k
          BY <3>2, <1>1, <1>8, <1>13
        <5> QED BY <5>1
      <4>2. (q \o x)[n + l] = x[l]
        BY <4>1, <1>13, <1>1 DEF n
      <4>3. x[l] = r[n + l]
        BY <1>14
      <4> QED BY <4>1, <4>2, <4>3
    <3>3. k \in 1..n \/ k \in (n + 1)..Len(r)
      BY <1>1, <1>8
    <3> QED BY <3>1, <3>2, <3>3
  <2>3. \A k \in 1..Len(q \o x) : r[k] = (q \o x)[k]
    BY <2>1, <2>2
  <2> DEFINE y == q \o x
  <2> HIDE DEF y
  <2>4. r \in Seq(S) /\ y \in Seq(S) /\ Len(r) = Len(y) /\ \A k \in 1..Len(r) : r[k] = y[k]
    BY <2>1, <2>2, <1>5 DEF y
  <2>5. r = y
    BY <2>4
  <2> QED BY <2>5 DEF y
<1>16. ASSUME NEW k \in DOMAIN x
       PROVE  from[n + k] - n \in DOMAIN ev /\ ev[from[n + k] - n] = x[k]
  <2>1. from[n + k] \in 1..(n + Len(ev)) /\ x[k] = s[from[n + k]]
    BY <1>3, <1>7, <1>14
  <2>2. from[n + k] \notin 1..n
    <3> SUFFICES ASSUME from[n + k] \in 1..n PROVE FALSE
      OBVIOUS
    <3>1. from[from[n + k]] = from[n + k] /\ from[n + k] \in DOMAIN r /\ from[n + k] < n + k
      BY <1>11, <1>13, <1>14, <1>1
    <3>2. from[from[n + k]] < from[n + k]
      BY <3>1, <1>7, <1>14
    <3> QED BY <3>1, <3>2, <1>1
  <2>3. from[n + k] - n \in 1..Len(ev) /\ n + (from[n + k] - n) = from[n + k]
    BY <2>1, <2>2, <1>1
  <2> QED BY <2>1, <2>3, <1>1
<1>17. ASSUME NEW e
       PROVE  (\E k \in DOMAIN x : x[k] = e) <=>
                  (\E k \in DOMAIN ev : ev[k] = e) /\ \A k \in DOMAIN q : q[k] # e
  <2>1. ASSUME NEW k \in DOMAIN x, x[k] = e, NEW l \in DOMAIN q PROVE q[l] # e
    <3>1. l \in 1..n /\ l \in DOMAIN r /\ n + k \in DOMAIN r /\ n + k # l /\ r[l] = q[l] /\ r[n + k] = e
      BY <2>1, <1>1, <1>8, <1>12, <1>13, <1>14
    <3> QED BY <3>1, <1>5 DEF IsInjective
  <2>2. ASSUME NEW k \in DOMAIN ev, ev[k] = e, \A l \in DOMAIN q : q[l] # e
        PROVE  \E l \in DOMAIN x : x[l] = e
    <3>1. n + k \in DOMAIN s /\ s[n + k] = e
      BY <2>2, <1>1, <1>3
    <3>2. PICK m \in DOMAIN r : r[m] = e
      BY <3>1, <1>5 DEF ToSet
    <3>3. m \notin 1..n
      BY <3>2, <2>2, <1>1, <1>12
    <3>4. m - n \in DOMAIN x /\ n + (m - n) = m
      BY <3>3, <1>1, <1>8, <1>13
    <3> QED BY <3>2, <3>4, <1>14
  <2> QED BY <2>1, <2>2, <1>16
<1>18. ASSUME NEW k \in DOMAIN x, NEW l \in DOMAIN x, k < l
       PROVE  \E a, b \in DOMAIN ev : a < b /\ ev[a] = x[k] /\ ev[b] = x[l]
  <2>1. from[n + k] < from[n + l]
    BY <1>1, <1>7, <1>14, <1>18
  <2>2. from[n + k] \in Int /\ from[n + l] \in Int
    BY <1>3, <1>7, <1>14
  <2>3. from[n + k] - n < from[n + l] - n
    BY <2>1, <2>2, <1>1
  <2> QED BY <2>3, <1>16, <1>18
<1>19. W!Distinct(s) = q \o x
  BY <1>2, <1>15
<1>20. Gets(q, ev, x)
  BY <1>17, <1>18 DEF Gets
<1> QED BY <1>13, <1>19, <1>20 DEF s

\* The elements of two sequences, one after the other.
LEMMA Joined ==
    ASSUME NEW S, NEW q \in Seq(S), NEW x \in Seq(S)
    PROVE  /\ DOMAIN q = 1..Len(q) /\ DOMAIN x = 1..Len(x) /\ Len(q) \in Nat /\ Len(x) \in Nat
           /\ q \o x \in Seq(S) /\ Len(q \o x) = Len(q) + Len(x)
           /\ DOMAIN (q \o x) = 1..(Len(q) + Len(x))
           /\ \A k \in DOMAIN q : (q \o x)[k] = q[k]
           /\ \A k \in DOMAIN x : (q \o x)[Len(q) + k] = x[k]
           /\ \A k \in DOMAIN (q \o x) :
                k \in DOMAIN q \/ (k > Len(q) /\ \E l \in DOMAIN x : k = Len(q) + l)
<1>1. /\ DOMAIN q = 1..Len(q) /\ DOMAIN x = 1..Len(x) /\ Len(q) \in Nat /\ Len(x) \in Nat
      /\ q \o x \in Seq(S) /\ Len(q \o x) = Len(q) + Len(x)
      /\ \A k \in DOMAIN q : (q \o x)[k] = q[k]
      /\ \A k \in DOMAIN x : (q \o x)[Len(q) + k] = x[k]
  OBVIOUS
<1> DEFINE r == q \o x
           n == Len(q)
           m == Len(x)
<1>2. r \in Seq(S) /\ Len(r) = n + m
  BY <1>1
<1> HIDE DEF r
<1>3. DOMAIN r = 1..(n + m)
  BY <1>2
<1>4. ASSUME NEW k \in 1..(n + m), k \notin 1..n
      PROVE  k > n /\ \E l \in 1..m : k = n + l
  <2>1. n \in Nat /\ m \in Nat
    BY <1>1
  <2> HIDE DEF n, m
  <2>2. k > n /\ k - n \in 1..m /\ k = n + (k - n)
    BY <2>1, <1>4
  <2> QED BY <2>2
<1>5. \A k \in DOMAIN r : k \in DOMAIN q \/ (k > Len(q) /\ \E l \in DOMAIN x : k = Len(q) + l)
  BY <1>1, <1>3, <1>4
<1> QED BY <1>1, <1>3, <1>5 DEF r

\* An event that adds comes, or has come and was not undone.
LEMMA EndsAdded ==
    ASSUME NEW S, NEW q \in Seq(S), NEW x \in Seq(S), NEW adds, NEW removes, NEW before, NEW e \in adds,
           \/ \E k \in DOMAIN x : x[k] = e
           \/ \E i \in DOMAIN q : q[i] = e /\ \A j \in (i + 1)..Len(q) : q[j] \notin removes,
           \A k \in DOMAIN x : x[k] \notin removes
    PROVE  Ends(q \o x, adds, removes, before)
<1> DEFINE r == q \o x
           n == Len(q)
<1>1. /\ DOMAIN q = 1..n /\ DOMAIN x = 1..Len(x) /\ n \in Nat /\ Len(x) \in Nat
      /\ Len(r) = n + Len(x) /\ DOMAIN r = 1..(n + Len(x))
      /\ \A k \in DOMAIN q : r[k] = q[k]
      /\ \A k \in DOMAIN x : r[n + k] = x[k]
      /\ \A k \in DOMAIN r : k \in DOMAIN q \/ (k > n /\ \E l \in DOMAIN x : k = n + l)
  BY Joined
<1> HIDE DEF r, n
<1>2. \A j \in DOMAIN r : j > n => r[j] \notin removes
  BY <1>1
<1>3. CASE \E k \in DOMAIN x : x[k] = e
  <2>1. PICK k \in DOMAIN x : x[k] = e
    BY <1>3
  <2>2. n + k \in DOMAIN r /\ r[n + k] \in adds /\ \A j \in (n + k + 1)..Len(r) : j \in DOMAIN r /\ j > n
    BY <2>1, <1>1
  <2> QED BY <2>2, <1>2 DEF Ends, r
<1>4. CASE \E i \in DOMAIN q : q[i] = e /\ \A j \in (i + 1)..Len(q) : q[j] \notin removes
  <2>1. PICK i \in DOMAIN q : q[i] = e /\ \A j \in (i + 1)..n : q[j] \notin removes
    BY <1>4 DEF n
  <2>2. i \in DOMAIN r /\ r[i] \in adds
    BY <2>1, <1>1
  <2>3. ASSUME NEW j \in (i + 1)..Len(r) PROVE r[j] \notin removes
    <3>1. j \in DOMAIN r /\ (j > n \/ (j \in (i + 1)..n /\ j \in DOMAIN q))
      BY <2>1, <1>1
    <3> QED BY <3>1, <2>1, <1>1, <1>2
  <2> QED BY <2>2, <2>3 DEF Ends, r
<1> QED BY <1>3, <1>4

\* An event that removes comes, or has come and was not undone.
LEMMA EndsRemoved ==
    ASSUME NEW S, NEW q \in Seq(S), NEW x \in Seq(S), NEW adds, NEW removes, NEW before, NEW e \in removes,
           adds \cap removes = {},
           \/ \E k \in DOMAIN x : x[k] = e
           \/ \E i \in DOMAIN q : q[i] = e /\ \A j \in (i + 1)..Len(q) : q[j] \notin adds,
           \A k \in DOMAIN x : x[k] \notin adds
    PROVE  ~Ends(q \o x, adds, removes, before)
<1> DEFINE r == q \o x
           n == Len(q)
<1>1. /\ DOMAIN q = 1..n /\ DOMAIN x = 1..Len(x) /\ n \in Nat /\ Len(x) \in Nat
      /\ Len(r) = n + Len(x) /\ DOMAIN r = 1..(n + Len(x))
      /\ \A k \in DOMAIN q : r[k] = q[k]
      /\ \A k \in DOMAIN x : r[n + k] = x[k]
      /\ \A k \in DOMAIN r : k \in DOMAIN q \/ (k > n /\ \E l \in DOMAIN x : k = n + l)
  BY Joined
<1> HIDE DEF r, n
<1>2. PICK m \in DOMAIN r : r[m] = e /\ \A k \in DOMAIN r : k > m => r[k] \notin adds
  <2>1. CASE \E k \in DOMAIN x : x[k] = e
    <3>1. PICK k \in DOMAIN x : x[k] = e
      BY <2>1
    <3>2. n + k \in DOMAIN r /\ r[n + k] = e
      BY <3>1, <1>1
    <3>3. ASSUME NEW l \in DOMAIN r, l > n + k PROVE r[l] \notin adds
      <4>1. l \notin DOMAIN q
        BY <3>1, <3>3, <1>1
      <4> QED BY <4>1, <1>1
    <3> QED BY <3>2, <3>3
  <2>2. CASE \E i \in DOMAIN q : q[i] = e /\ \A j \in (i + 1)..Len(q) : q[j] \notin adds
    <3>1. PICK i \in DOMAIN q : q[i] = e /\ \A j \in (i + 1)..n : q[j] \notin adds
      BY <2>2 DEF n
    <3>2. i \in DOMAIN r /\ r[i] = e
      BY <3>1, <1>1
    <3>3. ASSUME NEW l \in DOMAIN r, l > i PROVE r[l] \notin adds
      <4>1. CASE l \in DOMAIN q
        <5>1. l \in (i + 1)..n
          BY <4>1, <3>1, <3>3, <1>1
        <5> QED BY <5>1, <4>1, <3>1, <1>1
      <4> QED BY <4>1, <1>1
    <3> QED BY <3>2, <3>3
  <2> QED BY <2>1, <2>2
<1>3. ASSUME NEW i \in DOMAIN r, r[i] \in adds PROVE \E j \in (i + 1)..Len(r) : r[j] \in removes
  <2>1. ~(i > m) /\ i # m
    BY <1>2, <1>3
  <2>2. m \in (i + 1)..Len(r)
    BY <2>1, <1>1, <1>2
  <2> QED BY <2>2, <1>2
<1>4. ~Ends(r, adds, removes, before)
  BY <1>2, <1>3 DEF Ends
<1> QED BY <1>4 DEF r

\* Events of other things change nothing.
LEMMA EndsKept ==
    ASSUME NEW S, NEW q \in Seq(S), NEW x \in Seq(S), NEW adds, NEW removes, NEW before,
           \A k \in DOMAIN x : x[k] \notin adds \cup removes
    PROVE  Ends(q \o x, adds, removes, before) <=> Ends(q, adds, removes, before)
<1> DEFINE r == q \o x
           n == Len(q)
<1>1. /\ DOMAIN q = 1..n /\ DOMAIN x = 1..Len(x) /\ n \in Nat /\ Len(x) \in Nat
      /\ Len(r) = n + Len(x) /\ DOMAIN r = 1..(n + Len(x))
      /\ \A k \in DOMAIN q : r[k] = q[k]
      /\ \A k \in DOMAIN x : r[n + k] = x[k]
      /\ \A k \in DOMAIN r : k \in DOMAIN q \/ (k > n /\ \E l \in DOMAIN x : k = n + l)
  BY Joined
<1> HIDE DEF r, n
<1>2. /\ DOMAIN q \subseteq DOMAIN r
      /\ \A k \in DOMAIN r : k \in DOMAIN q \/ r[k] \notin adds \cup removes
  BY <1>1
<1>3. ASSUME NEW i \in DOMAIN q
      PROVE  (\A j \in (i + 1)..Len(r) : r[j] \notin removes) <=> (\A j \in (i + 1)..n : q[j] \notin removes)
  <2>1. \A j \in (i + 1)..n : j \in (i + 1)..Len(r) /\ j \in DOMAIN q
    BY <1>1
  <2>2. \A j \in (i + 1)..Len(r) : j \in DOMAIN r /\ (j \in DOMAIN q => j \in (i + 1)..n)
    BY <1>1
  <2> QED BY <2>1, <2>2, <1>1, <1>2
<1>4. (\A j \in DOMAIN r : r[j] \notin removes) <=> (\A j \in DOMAIN q : q[j] \notin removes)
  BY <1>1, <1>2
<1>5. ASSUME NEW i \in DOMAIN r, r[i] \in adds PROVE i \in DOMAIN q /\ q[i] \in adds
  BY <1>5, <1>1, <1>2
<1>6. Ends(r, adds, removes, before) <=> Ends(q, adds, removes, before)
  BY <1>1, <1>2, <1>3, <1>4, <1>5 DEF Ends, n
<1> QED BY <1>6 DEF r

\* The first event is applied.
LEMMA EndsLess ==
    ASSUME NEW S, NEW q \in Seq(S), q # <<>>, NEW adds, NEW removes, NEW before \in BOOLEAN,
           NEW after \in BOOLEAN,
           Head(q) \in adds => after, Head(q) \in removes => ~after,
           Head(q) \notin adds \cup removes => after = before
    PROVE  Ends(Tail(q), adds, removes, after) <=> Ends(q, adds, removes, before)
<1> DEFINE r == Tail(q)
           n == Len(q)
<1>1. /\ n \in Nat /\ n > 0 /\ DOMAIN q = 1..n /\ r \in Seq(S) /\ Len(r) = n - 1
      /\ DOMAIN r = 1..(n - 1) /\ \A k \in 1..(n - 1) : r[k] = q[k + 1]
      /\ Head(q) = q[1]
  OBVIOUS
<1> HIDE DEF r, n
<1>2. /\ \A k \in DOMAIN r : k + 1 \in DOMAIN q /\ r[k] = q[k + 1]
      /\ \A k \in DOMAIN q : k = 1 \/ (k - 1 \in DOMAIN r /\ r[k - 1] = q[k])
  <2>1. \A k \in DOMAIN r : k + 1 \in DOMAIN q /\ r[k] = q[k + 1]
    BY <1>1
  <2>2. ASSUME NEW k \in DOMAIN q, k # 1 PROVE k - 1 \in DOMAIN r /\ r[k - 1] = q[k]
    <3>1. k - 1 \in 1..(n - 1) /\ (k - 1) + 1 = k
      BY <2>2, <1>1
    <3> QED BY <3>1, <1>1
  <2> QED BY <2>1, <2>2
<1>3. ASSUME NEW i \in DOMAIN r
      PROVE  (\A j \in (i + 1)..Len(r) : r[j] \notin removes) <=> (\A j \in (i + 1 + 1)..n : q[j] \notin removes)
  <2>1. \A j \in (i + 1)..Len(r) : j \in DOMAIN r /\ j + 1 \in (i + 1 + 1)..n
    BY <1>1
  <2>2. \A j \in (i + 1 + 1)..n : j \in DOMAIN q /\ j # 1 /\ j - 1 \in (i + 1)..Len(r)
    BY <1>1
  <2> QED BY <2>1, <2>2, <1>2
<1>4. (\A j \in DOMAIN r : r[j] \notin removes) <=> (\A j \in 2..n : q[j] \notin removes)
  <2>1. \A j \in 2..n : j \in DOMAIN q /\ j # 1
    BY <1>1
  <2>2. \A j \in DOMAIN r : j + 1 \in 2..n
    BY <1>1
  <2> QED BY <2>1, <2>2, <1>2
<1>5. (\A j \in DOMAIN q : q[j] \notin removes) <=> q[1] \notin removes /\ (\A j \in 2..n : q[j] \notin removes)
  <2>1. DOMAIN q = {1} \cup 2..n
    BY <1>1
  <2> QED BY <2>1
<1> DEFINE Rest == \E i \in DOMAIN r : r[i] \in adds /\ \A j \in (i + 1)..Len(r) : r[j] \notin removes
<1>6. (\E i \in DOMAIN q : q[i] \in adds /\ \A j \in (i + 1)..n : q[j] \notin removes)
        <=> Rest \/ (q[1] \in adds /\ \A j \in 2..n : q[j] \notin removes)
  <2>1. ASSUME NEW i \in DOMAIN q, i # 1, q[i] \in adds, \A j \in (i + 1)..n : q[j] \notin removes
        PROVE  Rest
    <3>1. PICK k \in DOMAIN r : k + 1 = i
      <4>1. i - 1 \in DOMAIN r /\ (i - 1) + 1 = i
        BY <2>1, <1>1, <1>2
      <4> QED BY <4>1
    <3>2. r[k] \in adds /\ \A j \in (k + 1 + 1)..n : q[j] \notin removes
      BY <3>1, <2>1, <1>2
    <3> QED BY <3>2, <1>3
  <2>2. ASSUME Rest
        PROVE  \E i \in DOMAIN q : q[i] \in adds /\ \A j \in (i + 1)..n : q[j] \notin removes
    <3>1. PICK k \in DOMAIN r : r[k] \in adds /\ \A j \in (k + 1)..Len(r) : r[j] \notin removes
      BY <2>2
    <3>2. k + 1 \in DOMAIN q /\ q[k + 1] \in adds /\ \A j \in (k + 1 + 1)..n : q[j] \notin removes
      BY <3>1, <1>2, <1>3
    <3> QED BY <3>2
  <2>3. 1 \in DOMAIN q /\ 1 + 1 = 2
    BY <1>1
  <2> HIDE DEF Rest
  <2> QED BY <2>1, <2>2, <2>3
<1>7. Ends(r, adds, removes, after) <=> Rest \/ (after /\ \A j \in 2..n : q[j] \notin removes)
  BY <1>4 DEF Ends
<1>8. Ends(q, adds, removes, before)
        <=> \/ Rest \/ (q[1] \in adds /\ \A j \in 2..n : q[j] \notin removes)
            \/ before /\ q[1] \notin removes /\ \A j \in 2..n : q[j] \notin removes
  <2>1. Ends(q, adds, removes, before)
          <=> \/ \E i \in DOMAIN q : q[i] \in adds /\ \A j \in (i + 1)..n : q[j] \notin removes
              \/ before /\ \A j \in DOMAIN q : q[j] \notin removes
    BY DEF Ends, n
  <2> HIDE DEF Rest
  <2> QED BY <2>1, <1>5, <1>6
<1> HIDE DEF Rest
<1>9. Ends(r, adds, removes, after) <=> Ends(q, adds, removes, before)
  BY <1>1, <1>7, <1>8
<1> QED BY <1>9 DEF r

-----------------------------------------------------------------------------
(* Watcher: where the signals say the directories were. *)

Placing == [Inode -> Name \cup {"gone"}]
Apart(x) == \A i, j \in Inode : x[i] = x[j] /\ x[i] # "gone" => i = j
Creates(s) == s.wd = "root" /\ s.mask = "create"
Paired(s, mask) == s.wd = "root" /\ s.mask = mask /\ s.paired

\* What a signal says of where the directories were before and after.
Tells(s, x, y) ==
    \/ s.wd # "root" /\ y = x
    \/ /\ s.wd = "root" /\ s.mask \in {"delete", "from"}
       /\ x[s.dir] = s.name /\ y = [x EXCEPT ![s.dir] = "gone"]
    \/ /\ s.wd = "root" /\ s.mask \in {"create", "to"}
       /\ x[s.dir] = "gone" /\ y = [x EXCEPT ![s.dir] = s.name]

\* v[k] is where the directories were before the k-th of the signals q: no
\* two of them in one place, nowhere before they were made, and the second
\* half of a move comes right after the first.
Told(v, q) ==
    /\ v \in [Nat -> Placing]
    /\ \A k \in 1..(Len(q) + 1) : Apart(v[k])
    /\ \A k \in 1..Len(q) :
         /\ Tells(q[k], v[k], v[k + 1])
         /\ Creates(q[k]) => \A l \in 1..k : v[l][q[k].dir] = "gone"
         /\ Paired(q[k], "to") /\ k > 1 => Paired(q[k - 1], "from") /\ q[k - 1].dir = q[k].dir

\* One signal more.
LEMMA ToldMore ==
    ASSUME NEW q \in Seq(Caused), NEW v, Told(v, q), NEW s \in Caused, NEW x \in Placing,
           Tells(s, v[Len(q) + 1], x), Apart(x),
           Creates(s) => \A l \in 1..(Len(q) + 1) : v[l][s.dir] = "gone",
           Paired(s, "to") => Len(q) > 0 /\ Paired(q[Len(q)], "from") /\ q[Len(q)].dir = s.dir
    PROVE  Told([v EXCEPT ![Len(q) + 2] = x], q \o <<s>>)
<1> DEFINE w == [v EXCEPT ![Len(q) + 2] = x]
           r == q \o <<s>>
           n == Len(q)
<1>1. /\ r \in Seq(Caused) /\ Len(r) = n + 1 /\ n \in Nat
      /\ r[n + 1] = s /\ \A k \in 1..n : r[k] = q[k]
  OBVIOUS
<1>2. /\ w \in [Nat -> Placing] /\ w[n + 2] = x
      /\ \A k \in 1..(n + 1) : w[k] = v[k]
  BY <1>1 DEF Told
<1> HIDE DEF w, r, n
<1>3. \A k \in 1..(Len(r) + 1) : Apart(w[k])
  <2> SUFFICES ASSUME NEW k \in 1..(Len(r) + 1) PROVE Apart(w[k])
    OBVIOUS
  <2>1. CASE k = n + 2
    BY <1>2, <2>1
  <2>2. CASE k \in 1..(n + 1)
    BY <1>2, <2>2 DEF Told, n
  <2> QED BY <1>1, <2>1, <2>2
<1>4. ASSUME NEW k \in 1..Len(r)
      PROVE  /\ Tells(r[k], w[k], w[k + 1])
             /\ Creates(r[k]) => \A l \in 1..k : w[l][r[k].dir] = "gone"
             /\ Paired(r[k], "to") /\ k > 1 => Paired(r[k - 1], "from") /\ r[k - 1].dir = r[k].dir
  <2>1. CASE k \in 1..n
    <3>1. r[k] = q[k] /\ w[k] = v[k] /\ w[k + 1] = v[k + 1] /\ \A l \in 1..k : w[l] = v[l]
      BY <1>1, <1>2, <2>1
    <3>2. k > 1 => r[k - 1] = q[k - 1]
      BY <1>1, <2>1
    <3> QED BY <2>1, <3>1, <3>2 DEF Told, n
  <2>2. CASE k = n + 1
    <3>1. r[k] = s /\ w[k] = v[n + 1] /\ w[k + 1] = x /\ \A l \in 1..k : w[l] = v[l]
      BY <1>1, <1>2, <2>2
    <3>2. k > 1 => r[k - 1] = q[n]
      BY <1>1, <2>2
    <3> QED BY <1>1, <2>2, <3>1, <3>2 DEF n
  <2> QED BY <1>1, <2>1, <2>2
<1>5. Told(w, r)
  BY <1>2, <1>3, <1>4 DEF Told
<1> QED BY <1>5 DEF w, r

\* One signal less.
LEMMA ToldLess ==
    ASSUME NEW q \in Seq(Caused), q # <<>>, NEW v, Told(v, q)
    PROVE  Told([k \in Nat |-> v[k + 1]], Tail(q))
<1> DEFINE w == [k \in Nat |-> v[k + 1]]
           r == Tail(q)
           n == Len(q)
<1>1. /\ n \in Nat /\ n > 0 /\ Len(r) = n - 1
      /\ \A k \in 1..(n - 1) : r[k] = q[k + 1]
  OBVIOUS
<1>2. w \in [Nat -> Placing] /\ \A k \in Nat : w[k] = v[k + 1]
  BY DEF Told
<1> HIDE DEF w, r
<1>3. \A k \in 1..(Len(r) + 1) : Apart(w[k])
  <2> SUFFICES ASSUME NEW k \in 1..(Len(r) + 1) PROVE Apart(w[k])
    OBVIOUS
  <2>0. k \in 1..n /\ k \in Nat
    BY <1>1
  <2>1. k + 1 \in 1..(n + 1) /\ w[k] = v[k + 1]
    BY <1>1, <1>2, <2>0
  <2> QED BY <2>1 DEF Told
<1>4. ASSUME NEW k \in 1..Len(r)
      PROVE  /\ Tells(r[k], w[k], w[k + 1])
             /\ Creates(r[k]) => \A l \in 1..k : w[l][r[k].dir] = "gone"
             /\ Paired(r[k], "to") /\ k > 1 => Paired(r[k - 1], "from") /\ r[k - 1].dir = r[k].dir
  <2>0. k \in 1..(n - 1) /\ k \in Nat /\ k + 1 \in Nat /\ k + 1 \in 1..n
    BY <1>1
  <2>1. k + 1 \in 1..n /\ r[k] = q[k + 1] /\ w[k] = v[k + 1] /\ w[k + 1] = v[(k + 1) + 1]
    BY <1>1, <1>2, <2>0
  <2>2. \A l \in 1..k : l + 1 \in 1..(k + 1) /\ w[l] = v[l + 1]
    <3> SUFFICES ASSUME NEW l \in 1..k PROVE l + 1 \in 1..(k + 1) /\ w[l] = v[l + 1]
      OBVIOUS
    <3>1. l \in Nat /\ l + 1 \in 1..(k + 1)
      BY <2>0
    <3> QED BY <3>1, <1>2
  <2>3. k > 1 => r[k - 1] = q[(k + 1) - 1] /\ k + 1 > 1
    BY <1>1
  <2> QED BY <2>1, <2>2, <2>3 DEF Told
<1>5. Told(w, r)
  BY <1>2, <1>3, <1>4 DEF Told
<1> QED BY <1>5 DEF w, r

-----------------------------------------------------------------------------
(* Watcher: what it makes of the signals. *)

\* Where a directory is in the tree.
Where(i) == IF W!InTree(i) THEN place[i] ELSE "gone"
Steps == 1..(Len(inotify) + 1)

\* The directories that have a watch, or signals of one they had.
Heeded == {i \in Inode : i \in watched \/ \E k \in 1..Len(inotify) : inotify[k].wd = i}

\* v tells how the directories came from where the watcher believes them to
\* be to where they are.  As long as no change was missed, the watches of the
\* directories have their paths, a directory has none before its creation is
\* handled, and between the halves of a move the old path is the one to
\* replace.
Story(v) ==
    /\ Told(v, inotify)
    /\ \A i \in Inode : v[Len(inotify) + 1][i] = Where(i)
    /\ \A i \in Inode : place[i] = "new" => \A k \in Steps : v[k][i] = "gone"
    /\ clean =>
         /\ \A i \in Heeded : /\ v[1][i] # "gone" => path[i] = v[1][i]
                              /\ place[i] # "new"
         /\ \A k \in 1..Len(inotify) : Creates(inotify[k]) => inotify[k].dir \notin Heeded
    /\ inotify # <<>> /\ Paired(inotify[1], "to") =>
         /\ \A i \in Inode : v[1][i] # moved
         /\ clean /\ inotify[1].dir \in Heeded => path[inotify[1].dir] = moved

\* w begins as v does.
Continues(w, v) == \A k \in Steps : w[k] = v[k]

\* w leaves out the first step of v.
Goes(w, v) == \A k \in Nat : w[k] = v[k + 1]

\* There is such a story at first.
LEMMA StoryInit == ASSUME W!Init PROVE \E v : Story(v)
<1> DEFINE x == [i \in Inode |-> Where(i)]
           v == [k \in Nat |-> x]
<1>1. place \in [Inode -> {"new", "gone", "outside"} \cup Name] /\ inotify = <<>>
      /\ \A n \in Name : \A i, j \in W!DirAt(n) : i = j
  BY DEF W!Init
<1>9. /\ watched \subseteq Inode
      /\ \A i \in Inode : (i \in watched <=> W!InTree(i)) /\ (W!InTree(i) => path[i] = place[i])
  BY DEF W!Init
<1>2. x \in Placing /\ Apart(x)
  BY <1>1, TreesFit DEF Placing, Apart, Where, W!InTree, W!DirAt
<1>3. /\ v \in [Nat -> Placing] /\ v[1] = x /\ Len(inotify) = 0
      /\ \A k \in Nat : v[k] = x
  BY <1>1, <1>2
<1>4. ASSUME NEW i \in Inode, place[i] = "new" PROVE x[i] = "gone" /\ i \notin watched
  <2>1. ~W!InTree(i) /\ Where(i) = "gone"
    BY <1>4, TreesFit DEF Where, W!InTree
  <2> QED BY <2>1, <1>9
<1>5. ASSUME NEW i \in watched PROVE i \in Inode /\ path[i] = x[i] /\ place[i] # "new"
  <2>1. i \in Inode /\ W!InTree(i)
    BY <1>9
  <2> QED BY <2>1, <1>9, <1>4 DEF Where
<1>6. (\A i \in Inode : x[i] = Where(i)) /\ Heeded = watched
  BY <1>3, <1>9 DEF Heeded
<1> HIDE DEF x, v
<1>7. Told(v, inotify)
  BY <1>2, <1>3 DEF Told
<1>8. Story(v)
  BY <1>1, <1>3, <1>4, <1>5, <1>6, <1>7 DEF Story, Steps
<1> QED BY <1>8

\* The story tells where the watches are.
LEMMA StoryTells == ASSUME WatcherType, NEW v, Story(v) PROVE PathsRight
<1> SUFFICES ASSUME inotify = <<>>, clean, NEW i \in watched, W!InTree(i) PROVE path[i] = place[i]
  BY DEF PathsRight, W!PathsRight
<1>1. i \in Inode /\ Len(inotify) = 0
  BY DEF WatcherType, W!TypeOK
<1>2. v[1][i] = Where(i) /\ Where(i) = place[i] /\ place[i] # "gone"
  BY <1>1, TreesFit DEF Story, Where, W!InTree
<1>3. i \in Heeded
  BY <1>1 DEF Heeded
<1> QED BY <1>2, <1>3 DEF Story

\* What is heard comes from directories that have a watch.
LEMMA HeededMore ==
    ASSUME WatcherType, NEW h \in Seq(Caused), inotify' = inotify \o h, watched' \subseteq watched,
           \A k \in 1..Len(h) : h[k].wd \in {"root"} \cup watched
    PROVE  Heeded' \subseteq Heeded
<1>1. inotify \in Seq(Caused)
  BY DEF WatcherType, Sound
<1>2. /\ DOMAIN inotify = 1..Len(inotify) /\ DOMAIN h = 1..Len(h)
      /\ DOMAIN (inotify \o h) = 1..(Len(inotify) + Len(h)) /\ Len(inotify \o h) = Len(inotify) + Len(h)
      /\ \A k \in DOMAIN inotify : (inotify \o h)[k] = inotify[k]
      /\ \A k \in DOMAIN h : (inotify \o h)[Len(inotify) + k] = h[k]
      /\ \A k \in DOMAIN (inotify \o h) :
           k \in DOMAIN inotify \/ (k > Len(inotify) /\ \E l \in DOMAIN h : k = Len(inotify) + l)
  BY <1>1, Joined
<1>3. ASSUME NEW i \in Inode, NEW k \in 1..Len(inotify'), inotify'[k].wd = i PROVE i \in Heeded
  <2>1. CASE k \in DOMAIN inotify
    BY <2>1, <1>2, <1>3 DEF Heeded
  <2>2. CASE \E l \in DOMAIN h : k = Len(inotify) + l
    BY <2>2, <1>2, <1>3, TreesFit DEF Heeded
  <2> QED BY <2>1, <2>2, <1>2, <1>3
<1> QED BY <1>3 DEF Heeded

\* One signal less.
LEMMA HeededLess ==
    ASSUME WatcherType, inotify # <<>>, inotify' = Tail(inotify)
    PROVE  Heeded' \subseteq Heeded \cup watched'
<1>1. /\ Len(inotify) \in Nat /\ Len(inotify') = Len(inotify) - 1
      /\ \A k \in 1..(Len(inotify) - 1) : inotify'[k] = inotify[k + 1]
  BY DEF WatcherType
<1> QED BY <1>1 DEF Heeded

\* Two placements are apart if they are apart, and what is moved goes to a
\* place that is free.
LEMMA StaysApart ==
    ASSUME NEW x \in Placing, Apart(x), NEW i \in Inode, NEW n \in Name \cup {"gone"},
           n = "gone" \/ \A j \in Inode : x[j] # n
    PROVE  [x EXCEPT ![i] = n] \in Placing /\ Apart([x EXCEPT ![i] = n])
BY DEF Placing, Apart

\* The user acts: the story goes on with what is heard.
LEMMA StoryMore ==
    ASSUME WatcherType, NEW v, Story(v), NEW h \in Seq(Caused), inotify' = inotify \o h,
           UNCHANGED <<path, moved>>, Heeded' \subseteq Heeded, clean' => clean,
           NEW w, Told(w, inotify'), \A k \in Steps : w[k] = v[k],
           \A i \in Inode : w[Len(inotify) + Len(h) + 1][i] = Where(i)',
           \A i \in Inode : place'[i] = "new" =>
              /\ place[i] = "new"
              /\ \A k \in (Len(inotify) + 2)..(Len(inotify) + Len(h) + 1) : w[k][i] = "gone",
           \A k \in 1..Len(h) : Creates(h[k]) => place[h[k].dir] = "new",
           h # <<>> => ~Paired(h[1], "to")
    PROVE  Story(w)'
<1> DEFINE n == Len(inotify)
           m == Len(h)
<1>1. /\ n \in Nat /\ m \in Nat /\ Len(inotify') = n + m
      /\ \A k \in 1..n : inotify'[k] = inotify[k]
      /\ \A k \in 1..m : inotify'[n + k] = h[k]
  <2>1. inotify \in Seq(Caused)
    BY DEF WatcherType, Sound
  <2> QED BY <2>1
<1>2. Heeded \subseteq Inode /\ inotify \in Seq(Caused)
  BY DEF WatcherType, Sound, Heeded
<1>3. 1 \in Steps /\ w[1] = v[1] /\ Steps = 1..(n + 1)
  BY <1>1 DEF Steps
<1> HIDE DEF n, m
<1>4. \A i \in Inode : w[Len(inotify') + 1][i] = Where(i)'
  BY <1>1 DEF n, m
<1>5. ASSUME NEW i \in Inode, place'[i] = "new", NEW k \in 1..(n + m + 1) PROVE w[k][i] = "gone"
  <2>1. CASE k \in 1..(n + 1)
    BY <2>1, <1>3, <1>5 DEF Story
  <2>2. CASE k \in (n + 2)..(n + m + 1)
    BY <2>2, <1>5 DEF n, m
  <2> QED BY <1>1, <2>1, <2>2
<1>6. ASSUME clean', NEW i \in Heeded'
      PROVE (w[1][i] # "gone" => path'[i] = w[1][i]) /\ place'[i] # "new"
  BY <1>2, <1>3, <1>6 DEF Story
<1>7. ASSUME clean', NEW k \in 1..(n + m), Creates(inotify'[k]) PROVE inotify'[k].dir \notin Heeded'
  <2>1. CASE k \in 1..n
    BY <2>1, <1>1, <1>7 DEF Story, n
  <2>2. CASE k \in (n + 1)..(n + m)
    <3>1. k - n \in 1..m /\ inotify'[k] = h[k - n]
      <4>1. k - n \in 1..m /\ n + (k - n) = k
        BY <1>1, <2>2
      <4> QED BY <4>1, <1>1
    <3> QED BY <3>1, <1>7 DEF Story, m
  <2> QED BY <1>1, <2>1, <2>2
<1>8. ASSUME inotify' # <<>>, Paired(inotify'[1], "to")
      PROVE  /\ \A i \in Inode : w[1][i] # moved'
             /\ clean' /\ inotify'[1].dir \in Heeded' => path'[inotify'[1].dir] = moved'
  <2>0. n = 0 \/ (n > 0 /\ 1 \in 1..n)
    BY <1>1
  <2>1. CASE n = 0
    <3>1. m > 0 /\ inotify'[1] = h[1] /\ h # <<>>
      BY <1>1, <1>2, <1>8, <2>1 DEF m, n
    <3> QED BY <3>1, <1>8
  <2>2. CASE n > 0
    <3>1. inotify'[1] = inotify[1]
      BY <1>1, <2>0, <2>2
    <3>2. inotify # <<>>
      BY <2>2 DEF n
    <3> QED BY <3>1, <3>2, <1>3, <1>8 DEF Story
  <2> QED BY <2>0, <2>1, <2>2
<1>9. Steps' = 1..(n + m + 1)
  BY <1>1 DEF Steps
<1> QED BY <1>1, <1>4, <1>5, <1>6, <1>7, <1>8, <1>9 DEF Story

\* Signals that are not about where directories are.
LEMMA ToldQuiet ==
    ASSUME NEW q \in Seq(Caused), NEW v, Told(v, q), NEW h \in Seq(Caused),
           \A k \in 1..Len(h) : h[k].wd # "root"
    PROVE  \E w : /\ Told(w, q \o h) /\ \A k \in 1..(Len(q) + 1) : w[k] = v[k]
                  /\ \A k \in (Len(q) + 1)..(Len(q) + Len(h) + 1) : w[k] = v[Len(q) + 1]
<1> DEFINE n == Len(q)
           m == Len(h)
           r == q \o h
           w == [k \in Nat |-> IF k <= n + 1 THEN v[k] ELSE v[n + 1]]
<1>1. /\ n \in Nat /\ m \in Nat /\ Len(r) = n + m
      /\ \A k \in 1..n : r[k] = q[k]
      /\ \A k \in 1..m : r[n + k] = h[k]
  OBVIOUS
<1>2. /\ w \in [Nat -> Placing]
      /\ \A k \in 1..(n + 1) : w[k] = v[k]
      /\ \A k \in (n + 1)..(n + m + 1) : w[k] = v[n + 1]
  BY <1>1 DEF Told
<1>3. \A k \in 1..(n + 1) : Apart(v[k])
  BY DEF Told
<1> HIDE DEF w, r, n, m
<1>4. ASSUME NEW k \in 1..(n + m + 1) PROVE Apart(w[k])
  <2>1. CASE k \in 1..(n + 1)
    BY <2>1, <1>2, <1>3
  <2>2. CASE k \in (n + 1)..(n + m + 1)
    <3>1. w[k] = v[n + 1] /\ n + 1 \in 1..(n + 1)
      BY <2>2, <1>1, <1>2
    <3> QED BY <3>1, <1>3
  <2> QED BY <2>1, <2>2, <1>1
<1>5. ASSUME NEW k \in 1..(n + m)
      PROVE  /\ Tells(r[k], w[k], w[k + 1])
             /\ Creates(r[k]) => \A l \in 1..k : w[l][r[k].dir] = "gone"
             /\ Paired(r[k], "to") /\ k > 1 => Paired(r[k - 1], "from") /\ r[k - 1].dir = r[k].dir
  <2>1. CASE k \in 1..n
    <3>0. k \in 1..(n + 1) /\ k + 1 \in 1..(n + 1) /\ \A l \in 1..k : l \in 1..(n + 1)
      BY <1>1, <2>1
    <3>1. r[k] = q[k] /\ w[k] = v[k] /\ w[k + 1] = v[k + 1] /\ \A l \in 1..k : w[l] = v[l]
      BY <1>1, <1>2, <2>1, <3>0
    <3>2. k > 1 => r[k - 1] = q[k - 1]
      BY <1>1, <2>1
    <3> QED BY <2>1, <3>1, <3>2 DEF Told, n
  <2>2. CASE k \in (n + 1)..(n + m)
    <3>1. k - n \in 1..m /\ n + (k - n) = k /\ k \in (n + 1)..(n + m + 1) /\ k + 1 \in (n + 1)..(n + m + 1)
      BY <1>1, <2>2
    <3>2. r[k].wd # "root"
      <4>1. r[k] = h[k - n]
        BY <3>1, <1>1
      <4> QED BY <3>1, <4>1 DEF m
    <3>3. w[k] = w[k + 1]
      BY <1>2, <3>1
    <3> QED BY <3>2, <3>3 DEF Tells, Creates, Paired
  <2> QED BY <2>1, <2>2, <1>1
<1>6. Told(w, r)
  BY <1>1, <1>2, <1>4, <1>5 DEF Told
<1> QED BY <1>2, <1>6 DEF r, n, m

\* What happens in the directories leaves them where they are.
LEMMA StoryFiles ==
    ASSUME WatcherType, NEW v, Story(v), NEW h \in Seq(Caused), \A k \in 1..Len(h) : h[k].wd \in watched,
           inotify' = inotify \o h, UNCHANGED <<place, path, moved, watched>>, clean' => clean
    PROVE  \E w : Story(w)' /\ Continues(w, v)
<1> DEFINE n == Len(inotify)
           m == Len(h)
<1>1. inotify \in Seq(Caused) /\ n \in Nat /\ m \in Nat
  BY DEF WatcherType, Sound
<1>2. Told(v, inotify)
  BY DEF Story
<1>r. \A k \in 1..Len(h) : h[k].wd # "root" /\ h[k].wd \in {"root"} \cup watched
  BY TreesFit DEF WatcherType, W!TypeOK
<1>h. Heeded' \subseteq Heeded
  BY <1>r, HeededMore
<1>3. PICK w : /\ Told(w, inotify \o h) /\ \A k \in 1..(n + 1) : w[k] = v[k]
               /\ \A k \in (n + 1)..(n + m + 1) : w[k] = v[n + 1]
  BY <1>1, <1>2, <1>r, ToldQuiet
<1>4. Told(w, inotify') /\ \A k \in Steps : w[k] = v[k]
  BY <1>3 DEF Steps
<1>5. ASSUME NEW i \in Inode PROVE Where(i)' = Where(i) /\ w[n + m + 1][i] = Where(i)'
  <2>1. w[n + m + 1] = v[n + 1]
    BY <1>1, <1>3
  <2> QED BY <2>1 DEF Where, W!InTree, Story
<1>6. ASSUME NEW i \in Inode, place'[i] = "new"
      PROVE  place[i] = "new" /\ \A k \in (n + 2)..(n + m + 1) : w[k][i] = "gone"
  <2>1. place[i] = "new" /\ v[n + 1][i] = "gone"
    BY <1>1, <1>6 DEF Story, Steps
  <2>2. \A k \in (n + 2)..(n + m + 1) : w[k] = v[n + 1]
    BY <1>1, <1>3
  <2> QED BY <2>1, <2>2
<1>7. \A k \in 1..Len(h) : ~Creates(h[k])
  BY <1>r DEF Creates
<1>8. h # <<>> => ~Paired(h[1], "to")
  <2>1. h # <<>> => 1 \in 1..Len(h)
    OBVIOUS
  <2> QED BY <2>1, <1>r DEF Paired
<1>9. Story(w)'
  BY <1>h, <1>4, <1>5, <1>6, <1>7, <1>8, StoryMore
<1> QED BY <1>4, <1>9 DEF Continues

\* A signal of monitoring_path that is no half of a move.
LEMMA StoryRoot ==
    ASSUME WatcherType, NEW v, Story(v), NEW i \in Inode, NEW called \in Name,
           NEW mask \in {"create", "delete", "from", "to"},
           W!Hears(W!FromRoot(mask, i, called, FALSE)), watched' \subseteq watched,
           NEW n, \/ n = "gone" /\ mask \in {"delete", "from"} /\ called = place[i]
                  \/ n = called /\ mask \in {"create", "to"} /\ ~W!InTree(i) /\ W!DirAt(called) = {},
           mask = "create" => place[i] = "new",
           \A j \in Inode : Where(j)' = IF j = i THEN n ELSE Where(j),
           \A j \in Inode : place'[j] = "new" => j # i /\ place[j] = "new"
    PROVE  \E w : Story(w)' /\ Continues(w, v)
<1> DEFINE s == W!FromRoot(mask, i, called, FALSE)
           L == Len(inotify)
           x == [v[L + 1] EXCEPT ![i] = n]
<1>w. PICK w : w = [v EXCEPT ![L + 2] = x]
  OBVIOUS
<1>1. inotify \in Seq(Caused) /\ L \in Nat /\ s \in Caused
  <2>1. s \in Caused
    BY RootSignal
  <2> HIDE DEF s
  <2> QED BY <2>1 DEF WatcherType, Sound
<1>2. /\ s.wd = "root" /\ s.dir = i /\ s.name = called /\ s.mask = mask /\ ~s.paired
  BY DEF W!FromRoot
<1>3. inotify' = inotify \o <<s>> /\ (clean' => clean) /\ UNCHANGED <<path, moved>>
  BY <1>2 DEF W!Hears, W!HearsAll, W!Heard
<1>4. /\ v[L + 1] \in Placing /\ Apart(v[L + 1]) /\ v \in [Nat -> Placing] /\ Told(v, inotify)
      /\ \A j \in Inode : v[L + 1][j] = Where(j)
  <2>1. Told(v, inotify) /\ \A j \in Inode : v[L + 1][j] = Where(j)
    BY DEF Story
  <2>2. v \in [Nat -> Placing] /\ \A k \in 1..L + 1 : Apart(v[k])
    BY <2>1 DEF Told
  <2>3. L + 1 \in 1..L + 1 /\ L + 1 \in Nat
    <3>1. L \in Nat
      BY <1>1
    <3> HIDE DEF L
    <3> QED BY <3>1
  <2> HIDE DEF L
  <2> QED BY <2>1, <2>2, <2>3
<1>5. n \in Name \cup {"gone"} /\ (n = "gone" \/ \A j \in Inode : v[L + 1][j] # n)
  BY <1>4, TreesFit DEF Where, W!DirAt
<1>6. x \in Placing /\ Apart(x)
  <2> HIDE DEF L
  <2> QED BY <1>4, <1>5, StaysApart
<1>7. Tells(s, v[L + 1], x)
  <2>1. mask \in {"delete", "from"} => n = "gone" /\ v[L + 1][i] = called
    BY <1>4, TreesFit DEF Where, W!InTree
  <2>2. mask \in {"create", "to"} => n = called /\ v[L + 1][i] = "gone"
    BY <1>4 DEF Where
  <2> HIDE DEF s, L
  <2> QED BY <2>1, <2>2, <1>2 DEF Tells
<1>8. Creates(s) => \A k \in 1..(L + 1) : v[k][s.dir] = "gone"
  BY <1>2 DEF Creates, Story, Steps
<1>9. ~Paired(s, "to")
  BY <1>2 DEF Paired
<1> HIDE DEF s, x
<1>10. Told([v EXCEPT ![L + 2] = x], inotify \o <<s>>)
  BY <1>1, <1>4, <1>6, <1>7, <1>8, <1>9, ToldMore
<1>11. Told(w, inotify')
  BY <1>w, <1>3, <1>10
<1>12. /\ \A k \in Steps : w[k] = v[k]
       /\ w[L + 2] = x
  BY <1>w, <1>1, <1>4 DEF Steps
<1>13. \A j \in Inode : x[j] = Where(j)' /\ (j # i => x[j] = v[L + 1][j])
  <2> HIDE DEF L
  <2> QED BY <1>4 DEF x, Placing
<1>14. /\ <<s>> \in Seq(Caused) /\ Len(<<s>>) = 1 /\ <<s>>[1] = s
       /\ \A k \in 1..1 : <<s>>[k] = s
  BY <1>1
<1> DEFINE h == <<s>>
<1> HIDE DEF h
<1>15. h \in Seq(Caused) /\ Len(h) = 1 /\ h[1] = s /\ (\A k \in 1..1 : h[k] = s) /\ inotify' = inotify \o h
  BY <1>3, <1>14 DEF h
<1>16. ASSUME NEW j \in Inode PROVE w[L + Len(h) + 1][j] = Where(j)'
  BY <1>1, <1>12, <1>13, <1>15
<1>17. ASSUME NEW j \in Inode, place'[j] = "new"
       PROVE  place[j] = "new" /\ \A k \in (L + 2)..(L + Len(h) + 1) : w[k][j] = "gone"
  <2>1. place[j] = "new" /\ v[L + 1][j] = "gone" /\ x[j] = "gone"
    BY <1>1, <1>13, <1>17 DEF Story, Steps
  <2>2. \A k \in (L + 2)..(L + Len(h) + 1) : w[k] = x
    BY <1>1, <1>12, <1>15
  <2> QED BY <2>1, <2>2
<1>18. \A k \in 1..Len(h) : Creates(h[k]) => place[h[k].dir] = "new"
  BY <1>2, <1>15 DEF Creates, s
<1>19. h # <<>> => ~Paired(h[1], "to")
  BY <1>9, <1>15
<1>20. h \in Seq(Caused) /\ inotify' = inotify \o h /\ (\A k \in Steps : w[k] = v[k])
  BY <1>12, <1>15
<1>h. Heeded' \subseteq Heeded
  <2>1. \A k \in 1..Len(h) : h[k].wd \in {"root"} \cup watched
    BY <1>2, <1>15
  <2> QED BY <2>1, <1>15, HeededMore
<1>21. Story(w)'
  BY <1>h, <1>3, <1>11, <1>16, <1>17, <1>18, <1>19, <1>20, StoryMore
<1> QED BY <1>20, <1>21 DEF Continues

\* Both halves of a move.
LEMMA StoryRename ==
    ASSUME WatcherType, NEW v, Story(v), NEW i \in Inode, NEW n \in Name, W!Rename(i, n)
    PROVE  \E w : Story(w)' /\ Continues(w, v)
<1> DEFINE s == W!FromRoot("from", i, place[i], TRUE)
           t == W!FromRoot("to", i, n, TRUE)
           L == Len(inotify)
           x == [v[L + 1] EXCEPT ![i] = "gone"]
           y == [x EXCEPT ![i] = n]
<1>1. /\ place[i] \in Name /\ W!DirAt(n) = {} /\ place' = [place EXCEPT ![i] = n]
      /\ W!HearsBoth(s, t) /\ UNCHANGED watched
  BY DEF W!Rename, W!InTree, W!Puts
<1>2. s \in Caused /\ t \in Caused
  BY <1>1, RootSignal
<1>3. /\ s.wd = "root" /\ s.dir = i /\ s.name = place[i] /\ s.mask = "from" /\ s.paired
      /\ t.wd = "root" /\ t.dir = i /\ t.name = n /\ t.mask = "to" /\ t.paired
  BY DEF W!FromRoot
<1>p. place \in [Inode -> {"new", "gone", "outside"} \cup Name]
  BY DEF WatcherType, W!TypeOK
<1> HIDE DEF s, t
<1>4. inotify \in Seq(Caused) /\ L \in Nat
  BY DEF WatcherType, Sound
<1>5. inotify' = inotify \o (<<s>> \o <<t>>) /\ (clean' => clean) /\ UNCHANGED <<path, moved>>
  BY <1>1, <1>3 DEF W!HearsBoth, W!HearsAll, W!Heard
<1>6. /\ v[L + 1] \in Placing /\ Apart(v[L + 1]) /\ v \in [Nat -> Placing] /\ Told(v, inotify)
      /\ \A j \in Inode : v[L + 1][j] = Where(j)
  <2>1. Told(v, inotify) /\ \A j \in Inode : v[L + 1][j] = Where(j)
    BY DEF Story
  <2>2. v \in [Nat -> Placing] /\ \A k \in 1..(L + 1) : Apart(v[k])
    BY <2>1 DEF Told
  <2>3. L + 1 \in 1..(L + 1) /\ L + 1 \in Nat
    BY <1>4
  <2> QED BY <2>1, <2>2, <2>3
<1> HIDE DEF L
<1>7. x \in Placing /\ Apart(x) /\ x[i] = "gone" /\ \A j \in Inode : j # i => x[j] = Where(j)
  <2>1. x \in Placing /\ Apart(x)
    BY <1>6, StaysApart
  <2> QED BY <2>1, <1>6 DEF Placing
<1>8. y \in Placing /\ Apart(y) /\ y[i] = n /\ \A j \in Inode : j # i => y[j] = Where(j)
  <2>1. \A j \in Inode : x[j] # n
    BY <1>1, <1>7, TreesFit DEF Where, W!DirAt
  <2> HIDE DEF x
  <2>2. y \in Placing /\ Apart(y)
    BY <2>1, <1>7, StaysApart
  <2> QED BY <2>2, <1>7 DEF Placing
<1>9. Tells(s, v[L + 1], x) /\ Tells(t, x, y)
  <2>1. v[L + 1][i] = place[i]
    BY <1>1, <1>6 DEF Where, W!InTree
  <2>2. Tells(s, v[L + 1], x)
    BY <1>3, <2>1 DEF Tells
  <2> HIDE DEF x
  <2>3. Tells(t, x, y)
    BY <1>3, <1>7 DEF Tells
  <2> QED BY <2>2, <2>3
<1>10. ~Creates(s) /\ ~Creates(t) /\ ~Paired(s, "to") /\ Paired(s, "from")
  BY <1>3 DEF Creates, Paired
<1> HIDE DEF x, y
<1>11. PICK u : u = [v EXCEPT ![L + 2] = x]
  OBVIOUS
<1>12. Told(u, inotify \o <<s>>)
  <2>1. Told([v EXCEPT ![Len(inotify) + 2] = x], inotify \o <<s>>)
    BY <1>2, <1>4, <1>6, <1>7, <1>9, <1>10, ToldMore DEF L
  <2> QED BY <2>1, <1>11 DEF L
<1>13. /\ u \in [Nat -> Placing] /\ u[L + 2] = x /\ \A k \in 1..(L + 1) : u[k] = v[k]
  BY <1>4, <1>6, <1>7, <1>11
<1> DEFINE q == inotify \o <<s>>
<1>14. q \in Seq(Caused) /\ Len(q) = L + 1 /\ q[L + 1] = s /\ q \o <<t>> = inotify \o (<<s>> \o <<t>>)
  BY <1>2, <1>4 DEF L
<1>15. Told(u, q)
  BY <1>12
<1> HIDE DEF q
<1>16. PICK w : w = [u EXCEPT ![L + 3] = y]
  OBVIOUS
<1>17. Told(w, inotify')
  <2>1. Len(q) + 2 = L + 3 /\ Len(q) + 1 = L + 2 /\ Len(q) > 0
    BY <1>4, <1>14
  <2>2. Tells(t, u[Len(q) + 1], y)
    BY <2>1, <1>9, <1>13
  <2>3. q[Len(q)] = s
    BY <1>14
  <2>4. Len(q) > 0 /\ Paired(q[Len(q)], "from") /\ q[Len(q)].dir = t.dir
    BY <2>1, <2>3, <1>3, <1>10
  <2>5. Told([u EXCEPT ![Len(q) + 2] = y], q \o <<t>>)
    BY <2>2, <2>4, <1>2, <1>8, <1>10, <1>14, <1>15, ToldMore
  <2> QED BY <2>1, <2>5, <1>5, <1>14, <1>16
<1>18. w[L + 2] = x /\ w[L + 3] = y /\ \A k \in 1..(L + 1) : w[k] = v[k]
  BY <1>4, <1>8, <1>13, <1>16
<1> DEFINE h == <<s>> \o <<t>>
<1>19. h \in Seq(Caused) /\ Len(h) = 2 /\ h[1] = s /\ h[2] = t
  BY <1>2
<1>20. inotify' = inotify \o h
  BY <1>5
<1> HIDE DEF h
<1>21. ASSUME NEW j \in Inode PROVE w[Len(inotify) + Len(h) + 1][j] = Where(j)'
  <2>1. Len(inotify) + Len(h) + 1 = L + 3
    BY <1>4, <1>19 DEF L
  <2>2. Where(j)' = IF j = i THEN n ELSE Where(j)
    BY <1>1, <1>p DEF Where, W!InTree
  <2> QED BY <2>1, <2>2, <1>8, <1>18
<1>22. ASSUME NEW j \in Inode, place'[j] = "new"
       PROVE  /\ place[j] = "new"
              /\ \A k \in (Len(inotify) + 2)..(Len(inotify) + Len(h) + 1) : w[k][j] = "gone"
  <2>1. j # i /\ place[j] = "new"
    BY <1>1, <1>22, <1>p, TreesFit
  <2>2. x[j] = "gone" /\ y[j] = "gone"
    BY <2>1, <1>7, <1>8, TreesFit DEF Where, W!InTree
  <2>3. \A k \in (Len(inotify) + 2)..(Len(inotify) + Len(h) + 1) : k = L + 2 \/ k = L + 3
    BY <1>4, <1>19 DEF L
  <2> QED BY <2>1, <2>2, <2>3, <1>18
<1>23. \A k \in 1..Len(h) : ~Creates(h[k])
  <2>1. \A k \in 1..Len(h) : k = 1 \/ k = 2
    BY <1>19
  <2> QED BY <2>1, <1>10, <1>19
<1>24. h # <<>> => ~Paired(h[1], "to")
  BY <1>10, <1>19
<1>h. Heeded' \subseteq Heeded
  <2>1. \A k \in 1..Len(h) : k = 1 \/ k = 2
    BY <1>19
  <2>2. \A k \in 1..Len(h) : h[k].wd \in {"root"} \cup watched
    BY <2>1, <1>3, <1>19
  <2> QED BY <2>2, <1>1, <1>19, <1>20, HeededMore
<1>25. \A k \in Steps : w[k] = v[k]
  BY <1>18 DEF Steps, L
<1>26. h \in Seq(Caused)
  BY <1>19
<1>27. Story(w)'
  BY <1>h, <1>5, <1>17, <1>20, <1>21, <1>22, <1>23, <1>24, <1>25, <1>26, StoryMore
<1> QED BY <1>25, <1>27 DEF Continues

\* What is heard of a signal is the signal or nothing.
LEMMA HeardIs ==
    ASSUME NEW s \in Caused
    PROVE  /\ W!Heard(s) \in Seq(Caused)
           /\ W!Heard(s) = <<>> \/ (W!Heard(s) = <<s>> /\ s.wd \in {"root"} \cup watched)
<1>1. W!Heard(s) = <<>> \/ (W!Heard(s) = <<s>> /\ s.wd \in {"root"} \cup watched)
  BY DEF W!Heard
<1>2. <<>> \in Seq(Caused) /\ <<s>> \in Seq(Caused)
  OBVIOUS
<1> QED BY <1>1, <1>2

\* The story goes on with what the user does.
LEMMA StoryUser == ASSUME WatcherType, NEW v, Story(v), W!User PROVE \E w : Story(w)' /\ Continues(w, v)
<1> DEFINE Goal == \E w : Story(w)' /\ Continues(w, v)
<1>p. place \in [Inode -> {"new", "gone", "outside"} \cup Name]
  BY DEF WatcherType, W!TypeOK
<1>1. PICK i \in Inode :
        \/ W!RemoveDir(i) \/ W!MoveOut(i) \/ W!CreateFile(i) \/ W!DeleteFile(i)
        \/ \E c \in W!Text : W!Save(i, c)
        \/ \E n \in Name : W!MakeDir(i, n) \/ W!Rename(i, n) \/ W!MoveIn(i, n)
        \/ \E j \in Inode : W!MoveFile(i, j)
  BY DEF W!User
<1>2. ASSUME NEW p, W!Puts(i, p), p \in Name \cup {"gone", "outside"}
      PROVE  /\ \A j \in Inode : Where(j)' = IF j = i THEN (IF p \in Name THEN p ELSE "gone") ELSE Where(j)
             /\ \A j \in Inode : place'[j] = "new" => j # i /\ place[j] = "new"
  BY <1>2, <1>p, TreesFit DEF W!Puts, Where, W!InTree
<1>3. ASSUME W!RemoveDir(i) PROVE Goal
  <2>1. /\ place[i] \in Name /\ W!Puts(i, "gone") /\ watched' \subseteq watched
        /\ W!Hears(W!FromRoot("delete", i, place[i], FALSE))
    BY <1>3 DEF W!RemoveDir, W!InTree
  <2>2. \A j \in Inode : Where(j)' = IF j = i THEN "gone" ELSE Where(j)
    BY <2>1, <1>2, TreesFit
  <2> QED BY <2>1, <2>2, <1>2, StoryRoot
<1>4. ASSUME W!MoveOut(i) PROVE Goal
  <2>1. /\ place[i] \in Name /\ W!Puts(i, "outside") /\ watched' \subseteq watched
        /\ W!Hears(W!FromRoot("from", i, place[i], FALSE))
    BY <1>4 DEF W!MoveOut, W!InTree
  <2>2. \A j \in Inode : Where(j)' = IF j = i THEN "gone" ELSE Where(j)
    BY <2>1, <1>2, TreesFit
  <2> QED BY <2>1, <2>2, <1>2, StoryRoot
<1>5. ASSUME NEW n \in Name, W!MakeDir(i, n) PROVE Goal
  <2>1. /\ place[i] = "new" /\ W!DirAt(n) = {} /\ W!Puts(i, n) /\ watched' \subseteq watched
        /\ W!Hears(W!FromRoot("create", i, n, FALSE)) /\ ~W!InTree(i)
    BY <1>5, TreesFit DEF W!MakeDir, W!InTree
  <2>2. \A j \in Inode : Where(j)' = IF j = i THEN n ELSE Where(j)
    BY <2>1, <1>2
  <2> QED BY <2>1, <2>2, <1>2, StoryRoot
<1>6. ASSUME NEW n \in Name, W!MoveIn(i, n) PROVE Goal
  <2>1. /\ W!DirAt(n) = {} /\ W!Puts(i, n) /\ watched' \subseteq watched
        /\ W!Hears(W!FromRoot("to", i, n, FALSE)) /\ ~W!InTree(i)
    BY <1>6, TreesFit DEF W!MoveIn, W!InTree
  <2>2. \A j \in Inode : Where(j)' = IF j = i THEN n ELSE Where(j)
    BY <2>1, <1>2
  <2> QED BY <2>1, <2>2, <1>2, StoryRoot
<1>7. ASSUME NEW s \in Caused, s.wd # "root", W!Hears(s), UNCHANGED <<place, watched>> PROVE Goal
  <2>1. PICK h \in Seq(Caused) : h = W!Heard(s)
    BY HeardIs
  <2>2. \A k \in 1..Len(h) : h[k].wd \in watched
    <3>1. h = <<>> \/ (h = <<s>> /\ s.wd \in watched)
      BY <1>7, <2>1, HeardIs
    <3> QED BY <1>7, <3>1
  <2>3. inotify' = inotify \o h /\ (clean' => clean) /\ UNCHANGED <<path, moved>>
    BY <1>7, <2>1 DEF W!Hears, W!HearsAll
  <2> QED BY <1>7, <2>2, <2>3, StoryFiles
<1>8. ASSUME NEW s \in Caused, NEW t \in Caused, s.wd # "root", t.wd # "root", W!HearsBoth(s, t),
             UNCHANGED <<place, watched>>
      PROVE  Goal
  <2>1. PICK h \in Seq(Caused) : h = W!Heard(s) \o W!Heard(t)
    <3>1. W!Heard(s) \in Seq(Caused) /\ W!Heard(t) \in Seq(Caused)
      BY HeardIs
    <3>2. W!Heard(s) \o W!Heard(t) \in Seq(Caused)
      BY <3>1
    <3> QED BY <3>2
  <2>2. \A k \in 1..Len(h) : h[k].wd \in watched
    <3> DEFINE a == W!Heard(s)
               b == W!Heard(t)
    <3>1. /\ a = <<>> \/ (a = <<s>> /\ s.wd \in watched)
          /\ b = <<>> \/ (b = <<t>> /\ t.wd \in watched)
          /\ a \in Seq(Caused) /\ b \in Seq(Caused)
      BY <1>8, HeardIs
    <3>2. (\A k \in 1..Len(a) : a[k].wd \in watched) /\ (\A k \in 1..Len(b) : b[k].wd \in watched)
      <4> HIDE DEF a, b
      <4> QED BY <1>8, <3>1
    <3> HIDE DEF a, b
    <3>3. /\ Len(a) \in Nat /\ Len(b) \in Nat /\ Len(a \o b) = Len(a) + Len(b)
          /\ \A k \in 1..Len(a) : (a \o b)[k] = a[k]
          /\ \A k \in 1..Len(b) : (a \o b)[Len(a) + k] = b[k]
      BY <3>1
    <3>4. ASSUME NEW k \in 1..Len(a \o b) PROVE (a \o b)[k].wd \in watched
      <4>1. CASE k \in 1..Len(a)
        BY <4>1, <3>2, <3>3
      <4>2. CASE k \in (Len(a) + 1)..(Len(a) + Len(b))
        <5>1. k - Len(a) \in 1..Len(b) /\ Len(a) + (k - Len(a)) = k
          BY <4>2, <3>3
        <5> QED BY <5>1, <3>2, <3>3
      <4> QED BY <4>1, <4>2, <3>3
    <3>5. h = a \o b
      BY <2>1 DEF a, b
    <3> QED BY <3>4, <3>5
  <2>3. inotify' = inotify \o h /\ (clean' => clean) /\ UNCHANGED <<path, moved>>
    BY <1>8, <2>1 DEF W!HearsBoth, W!HearsAll
  <2> QED BY <1>8, <2>2, <2>3, StoryFiles
<1>9. ASSUME NEW j \in Inode, NEW mask \in {"create", "delete", "modify", "from", "to"}
      PROVE  W!FromDir(j, mask) \in Caused /\ W!FromDir(j, mask).wd # "root"
  BY DirSignal, TreesFit DEF W!FromDir
<1>10. ASSUME W!CreateFile(i) PROVE Goal
  BY <1>7, <1>9, <1>10 DEF W!CreateFile, W!Writes
<1>11. ASSUME W!DeleteFile(i) PROVE Goal
  BY <1>7, <1>9, <1>11 DEF W!DeleteFile, W!Writes
<1>12. ASSUME NEW c \in W!Text, W!Save(i, c) PROVE Goal
  BY <1>7, <1>9, <1>12 DEF W!Save, W!Writes
<1>13. ASSUME NEW j \in Inode, W!MoveFile(i, j) PROVE Goal
  BY <1>8, <1>9, <1>13 DEF W!MoveFile
<1>14. ASSUME NEW n \in Name, W!Rename(i, n) PROVE Goal
  BY <1>14, StoryRename
<1> HIDE DEF Goal
<1>15. Goal
  BY <1>1, <1>3, <1>4, <1>5, <1>6, <1>10, <1>11, <1>12, <1>13, <1>14
<1> QED BY <1>15 DEF Goal

\* A signal is handled: the story goes on without its first step.
LEMMA StoryLess ==
    ASSUME WatcherType, NEW v, Story(v), inotify # <<>>, inotify' = Tail(inotify), UNCHANGED place,
           clean' => /\ \A i \in Heeded' : (v[2][i] # "gone" => path'[i] = v[2][i]) /\ place[i] # "new"
                     /\ \A k \in 2..Len(inotify) : Creates(inotify[k]) => inotify[k].dir \notin Heeded',
           Len(inotify) > 1 /\ Paired(inotify[2], "to") =>
              /\ \A i \in Inode : v[2][i] # moved'
              /\ clean' /\ inotify[2].dir \in Heeded' => path'[inotify[2].dir] = moved'
    PROVE  \E w : Story(w)' /\ Goes(w, v)
<1> DEFINE n == Len(inotify)
<1>1. PICK w : w = [k \in Nat |-> v[k + 1]]
  OBVIOUS
<1>2. /\ inotify \in Seq(Caused) /\ n \in Nat /\ n > 0 /\ Len(inotify') = n - 1
      /\ \A k \in 1..(n - 1) : inotify'[k] = inotify[k + 1]
  <2>1. inotify \in Seq(Caused)
    BY DEF WatcherType, Sound
  <2> QED BY <2>1
<1>3. Told(w, inotify')
  <2>1. Told([k \in Nat |-> v[k + 1]], Tail(inotify))
    BY <1>2, ToldLess DEF Story
  <2> QED BY <1>1, <2>1
<1>4. \A k \in Nat : w[k] = v[k + 1]
  BY <1>1
<1>5. ASSUME NEW i \in Inode PROVE w[Len(inotify') + 1][i] = Where(i)'
  <2>1. w[Len(inotify') + 1] = v[n + 1]
    BY <1>2, <1>4
  <2> QED BY <2>1 DEF Story, Where, W!InTree
<1>6. ASSUME NEW i \in Inode, place'[i] = "new", NEW k \in 1..(Len(inotify') + 1) PROVE w[k][i] = "gone"
  <2>1. w[k] = v[k + 1] /\ k + 1 \in 1..(n + 1)
    BY <1>2, <1>4
  <2> QED BY <2>1, <1>6 DEF Story, Steps
<1>7. ASSUME clean', NEW i \in Heeded' PROVE (w[1][i] # "gone" => path'[i] = w[1][i]) /\ place'[i] # "new"
  <2>1. w[1] = v[2]
    BY <1>4
  <2> QED BY <2>1, <1>7
<1>8. ASSUME clean', NEW k \in 1..Len(inotify'), Creates(inotify'[k]) PROVE inotify'[k].dir \notin Heeded'
  <2>1. k + 1 \in 2..n /\ inotify'[k] = inotify[k + 1]
    BY <1>2
  <2> QED BY <2>1, <1>8
<1>9. ASSUME inotify' # <<>>, Paired(inotify'[1], "to")
      PROVE  /\ \A i \in Inode : w[1][i] # moved'
             /\ clean' /\ inotify'[1].dir \in Heeded' => path'[inotify'[1].dir] = moved'
  <2>1. inotify' \in Seq(Caused)
    BY <1>2
  <2>2. n > 1 /\ inotify'[1] = inotify[2] /\ w[1] = v[2]
    BY <2>1, <1>2, <1>4, <1>9
  <2> QED BY <2>2, <1>9
<1>10. Story(w)'
  BY <1>3, <1>5, <1>6, <1>7, <1>8, <1>9 DEF Story, Steps
<1> QED BY <1>4, <1>10 DEF Goes

\* The story goes on with what the watcher handles.
LEMMA StoryHandle == ASSUME WatcherType, NEW v, Story(v), W!Handle PROVE \E w : Story(w)' /\ Goes(w, v)
<1> DEFINE s == inotify[1]
           d == s.dir
           L == Len(inotify)
           Goal == \E w : Story(w)' /\ Goes(w, v)
<1>1. /\ inotify # <<>> /\ inotify' = Tail(inotify) /\ UNCHANGED place
      /\ \/ W!HandleFile(s) \/ W!HandleNewDir(s) \/ W!HandleDeletedDir(s)
         \/ W!HandleMovedFrom(s) \/ W!HandleMovedTo(s)
  <2>1. inotify \in Seq(Caused) /\ inotify # <<>>
    BY DEF WatcherType, Sound, W!Handle
  <2>2. Head(inotify) = inotify[1]
    BY <2>1
  <2> QED BY <2>2 DEF W!Handle, W!tree
<1>2. s \in Caused /\ L \in Nat /\ L > 0
  BY <1>1 DEF WatcherType, Sound
<1>3. d \in Inode /\ (s.wd = "root" => s.name \in Name /\ s.name # "gone" /\ s.name # "new")
  <2> HIDE DEF s
  <2> QED BY <1>2, TreesFit DEF Caused, W!Signal
<1>4. Heeded \subseteq Inode /\ path \in [Inode -> {None} \cup Name]
  BY DEF WatcherType, W!TypeOK, Heeded
<1>h. Heeded' \subseteq Heeded \cup watched' /\ (watched' = watched => Heeded' \subseteq Heeded)
  <2>1. Heeded' \subseteq Heeded \cup watched'
    BY <1>1, HeededLess
  <2>2. watched \subseteq Heeded
    BY DEF Heeded, WatcherType, W!TypeOK
  <2> QED BY <2>1, <2>2
<1>5. /\ Tells(s, v[1], v[2]) /\ v[1] \in Placing /\ Apart(v[1]) /\ v[2] \in Placing
      /\ Apart(v[L + 1]) /\ \A i \in Inode : v[L + 1][i] = Where(i)
  <2>1. Told(v, inotify) /\ \A i \in Inode : v[L + 1][i] = Where(i)
    BY DEF Story
  <2>2. 1 \in 1..L /\ {1, 2, L + 1} \subseteq 1..(L + 1) /\ 1 + 1 = 2 /\ 1..(L + 1) \subseteq Nat
    BY <1>2
  <2> HIDE DEF L
  <2>3. Tells(inotify[1], v[1], v[2]) /\ v[1] \in Placing /\ v[2] \in Placing
    BY <2>1, <2>2 DEF Told, L
  <2>4. Apart(v[1]) /\ Apart(v[L + 1])
    BY <2>1, <2>2 DEF Told, L
  <2> QED BY <2>1, <2>3, <2>4
<1>6. ASSUME L > 1, Paired(inotify[2], "to")
      PROVE  Paired(s, "from") /\ s.dir = inotify[2].dir
  <2>1. 2 \in 1..L /\ 2 > 1 /\ 2 - 1 = 1
    BY <1>2, <1>6
  <2> QED BY <2>1, <1>6 DEF Story, Told
<1>7. ASSUME NEW k \in 2..L, Creates(inotify[k]), clean
      PROVE  v[2][inotify[k].dir] = "gone" /\ inotify[k].dir \notin Heeded
  <2>1. k \in 1..L /\ 2 \in 1..k
    BY <1>2
  <2> QED BY <2>1, <1>7 DEF Story, Told
<1>8. ASSUME clean, NEW i \in Heeded PROVE (v[1][i] # "gone" => path[i] = v[1][i]) /\ place[i] # "new"
  BY <1>8 DEF Story
<1>9. ASSUME W!HandleFile(s) PROVE Goal
  <2>1. s.wd # "root" /\ (clean' => clean) /\ UNCHANGED <<path, watched>>
    BY <1>9 DEF W!HandleFile, W!Push, W!PushIf
  <2>2. v[2] = v[1] /\ ~Paired(s, "from")
    BY <2>1, <1>5 DEF Tells, Paired
  <2> HIDE DEF s, L
  <2> QED BY <2>1, <2>2, <1>1, <1>h, <1>6, <1>7, <1>8, StoryLess DEF L
<1>10. ASSUME W!HandleNewDir(s) PROVE Goal
  <2>1. /\ s.wd = "root" /\ (s.mask = "create" \/ (s.mask = "to" /\ ~s.paired))
        /\ W!AddWatch(s.name) /\ (clean' => clean /\ ~W!Untimely(s))
    BY <1>10 DEF W!HandleNewDir, W!IsNewDir, W!PushIf
  <2>2. v[1][d] = "gone" /\ v[2] = [v[1] EXCEPT ![d] = s.name] /\ ~Paired(s, "from")
    <3> HIDE DEF s
    <3> QED BY <2>1, <1>5 DEF Tells, Paired
  <2>3. \A i \in Inode : i # d => v[2][i] = v[1][i]
    BY <2>2, <1>5 DEF Placing
  <2>4. v[2][d] = s.name
    BY <2>2, <1>3, <1>5 DEF Placing
  <2>5. ASSUME clean'
        PROVE  W!DirAt(s.name) = {d} \/ (W!DirAt(s.name) = {} /\ s.mask = "create")
    <3>1. CASE place[d] = s.name
      <4>1. \A i \in Inode : place[i] = s.name => i = d
        BY <2>1, <3>1, <1>3, <1>5 DEF Where, W!InTree, Apart
      <4> QED BY <4>1, <3>1, <1>3 DEF W!DirAt
    <3>2. CASE place[d] # s.name
      BY <3>2, <2>1, <2>5 DEF W!Untimely
    <3> QED BY <3>1, <3>2
  <2>6. ASSUME clean', NEW i \in Heeded'
        PROVE  (v[2][i] # "gone" => path'[i] = v[2][i]) /\ place[i] # "new"
    <3> DEFINE D == W!DirAt(s.name)
    <3>0. clean /\ watched' = watched \cup D /\ D \subseteq Inode
          /\ path' = [j \in Inode |-> IF j \in D THEN s.name ELSE path[j]]
      BY <2>1, <2>6 DEF W!AddWatch, W!DirAt
    <3>1. CASE i \in D
      <4>1. i = d /\ place[i] = s.name /\ path'[i] = s.name
        BY <3>0, <3>1, <2>5, <2>6 DEF W!DirAt
      <4> QED BY <4>1, <2>1, <2>4, <1>3
    <3>2. CASE i \notin D
      <4>1. i \in Heeded /\ path'[i] = path[i]
        <5>1. watched \subseteq Heeded
          BY DEF Heeded, WatcherType, W!TypeOK
        <5>2. i \in Heeded
          BY <5>1, <3>0, <3>2, <2>6, <1>h
        <5> QED BY <5>2, <3>0, <3>2, <1>4
      <4>2. i # d
        <5>1. CASE D = {d}
          BY <5>1, <3>2
        <5>2. CASE s.mask = "create"
          <6>1. Creates(inotify[1]) /\ 1 \in 1..L
            BY <5>2, <2>1, <1>2 DEF Creates
          <6>2. d \notin Heeded
            BY <6>1, <3>0 DEF Story
          <6> QED BY <6>2, <4>1
        <5> QED BY <5>1, <5>2, <2>5, <2>6
      <4> QED BY <4>1, <4>2, <3>0, <2>3, <1>4, <1>8
    <3> QED BY <3>1, <3>2
  <2>7. ASSUME clean', NEW k \in 2..L, Creates(inotify[k]) PROVE inotify[k].dir \notin Heeded'
    <3>1. clean /\ Heeded' \subseteq Heeded \cup W!DirAt(s.name)
      <4>1. watched \subseteq Heeded
        BY DEF Heeded, WatcherType, W!TypeOK
      <4> QED BY <4>1, <1>h, <2>1, <2>7 DEF W!AddWatch
    <3>2. v[2][inotify[k].dir] = "gone" /\ inotify[k].dir \notin Heeded
      BY <3>1, <1>7, <2>7
    <3>3. inotify[k].dir # d
      BY <3>2, <2>1, <2>4, <1>3
    <3>4. W!DirAt(s.name) \subseteq {d}
      BY <2>5, <2>7
    <3> HIDE DEF s, d
    <3> QED BY <3>1, <3>2, <3>3, <3>4
  <2> HIDE DEF s, d, L
  <2> QED BY <2>2, <2>6, <2>7, <1>1, <1>6, StoryLess DEF L
<1>11. ASSUME s.wd = "root", s.mask \in {"delete", "from"}, UNCHANGED <<path, watched>>, clean' => clean,
              Paired(s, "from") => moved' = s.name
       PROVE  Goal
  <2>2. v[1][d] = s.name /\ v[2] = [v[1] EXCEPT ![d] = "gone"]
    <3> HIDE DEF s
    <3> QED BY <1>11, <1>5 DEF Tells
  <2>3. \A i \in Inode : i # d => v[2][i] = v[1][i]
    BY <2>2, <1>5 DEF Placing
  <2>4. v[2][d] = "gone"
    BY <2>2, <1>3, <1>5 DEF Placing
  <2>5. \A i \in Inode : v[2][i] # s.name
    BY <2>2, <2>3, <2>4, <1>3, <1>5, <1>11 DEF Apart
  <2>6. clean' => \A i \in Heeded' : (v[2][i] # "gone" => path'[i] = v[2][i]) /\ place[i] # "new"
    <3> HIDE DEF s, d
    <3> QED BY <1>h, <2>3, <2>4, <1>4, <1>8, <1>11
  <2>7. clean' => \A k \in 2..L : Creates(inotify[k]) => inotify[k].dir \notin Heeded'
    BY <1>h, <1>7, <1>11
  <2>8. ASSUME L > 1, Paired(inotify[2], "to")
        PROVE  /\ \A i \in Inode : v[2][i] # moved'
               /\ clean' /\ inotify[2].dir \in Heeded' => path'[inotify[2].dir] = moved'
    <3>1. moved' = s.name /\ d = inotify[2].dir
      BY <2>8, <1>6, <1>11
    <3>2. clean' /\ d \in Heeded' => path'[d] = s.name
      BY <1>h, <2>2, <1>3, <1>8, <1>11
    <3> QED BY <2>5, <3>1, <3>2
  <2> HIDE DEF s, d, L
  <2> QED BY <2>6, <2>7, <2>8, <1>1, StoryLess DEF L
<1>12. ASSUME W!HandleDeletedDir(s) PROVE Goal
  <2>1. s.wd = "root" /\ s.mask = "delete" /\ UNCHANGED <<path, watched>> /\ (clean' => clean)
    BY <1>12 DEF W!HandleDeletedDir, W!Push, W!PushIf
  <2>2. ~Paired(s, "from")
    BY <2>1 DEF Paired
  <2> HIDE DEF s, Goal
  <2> QED BY <2>1, <2>2, <1>11
<1>13. ASSUME W!HandleMovedFrom(s) PROVE Goal
  <2>1. /\ s.wd = "root" /\ s.mask = "from" /\ UNCHANGED <<path, watched>> /\ (clean' => clean)
        /\ moved' = IF s.paired THEN s.name ELSE moved
    BY <1>13 DEF W!HandleMovedFrom, W!Push, W!PushIf
  <2>2. Paired(s, "from") => moved' = s.name
    BY <2>1 DEF Paired
  <2> HIDE DEF s, Goal
  <2> QED BY <2>1, <2>2, <1>11
<1>14. ASSUME W!HandleMovedTo(s) PROVE Goal
  <2>1. /\ s.wd = "root" /\ s.mask = "to" /\ s.paired /\ watched' = watched /\ (clean' => clean)
        /\ path' = [i \in Inode |-> IF path[i] = moved THEN s.name ELSE path[i]]
    BY <1>14 DEF W!HandleMovedTo, W!Push, W!PushIf
  <2>2. v[1][d] = "gone" /\ v[2] = [v[1] EXCEPT ![d] = s.name] /\ ~Paired(s, "from")
    <3> HIDE DEF s
    <3> QED BY <2>1, <1>5 DEF Tells, Paired
  <2>3. \A i \in Inode : i # d => v[2][i] = v[1][i]
    BY <2>2, <1>5 DEF Placing
  <2>4. v[2][d] = s.name
    BY <2>2, <1>3, <1>5 DEF Placing
  <2>5. (\A i \in Inode : v[1][i] # moved) /\ (clean /\ d \in Heeded => path[d] = moved)
    BY <2>1, <1>1 DEF Story, Paired
  <2>6. ASSUME clean', NEW i \in Heeded'
        PROVE  (v[2][i] # "gone" => path'[i] = v[2][i]) /\ place[i] # "new"
    <3>1. clean /\ i \in Heeded /\ i \in Inode /\ path'[i] = IF path[i] = moved THEN s.name ELSE path[i]
      BY <1>h, <2>1, <2>6, <1>4
    <3>2. CASE i = d
      BY <3>1, <3>2, <2>4, <2>5, <1>8
    <3>3. CASE i # d
      BY <3>1, <3>3, <2>3, <2>5, <1>8
    <3> QED BY <3>2, <3>3
  <2>7. clean' => \A k \in 2..L : Creates(inotify[k]) => inotify[k].dir \notin Heeded'
    BY <1>h, <1>7, <2>1
  <2> HIDE DEF s, d, L
  <2> QED BY <2>2, <2>6, <2>7, <1>1, <1>6, StoryLess DEF L
<1> HIDE DEF Goal, s
<1>15. Goal
  BY <1>1, <1>9, <1>10, <1>12, <1>13, <1>14
<1> QED BY <1>15 DEF Goal

\* WatcherType and the existence of a story are inductive.
LEMMA StoryStep ==
    ASSUME WatcherType, \E v : Story(v), [W!Next]_(W!vars)
    PROVE  \E v : Story(v)'
<1>1. PICK v : Story(v)
  OBVIOUS
<1>2. CASE W!User
  BY <1>1, <1>2, StoryUser
<1>3. CASE W!Handle
  BY <1>1, <1>3, StoryHandle
<1>4. CASE UNCHANGED <<place, inotify, watched, path, moved, clean>>
  BY <1>1, <1>4 DEF Story, Steps, Heeded, Where, W!InTree
<1>5. W!User \/ W!Handle \/ UNCHANGED <<place, inotify, watched, path, moved, clean>>
  BY DEF W!Next, W!Drain, W!ProcessEvent, W!vars, W!tree, W!watcher
<1> QED BY <1>2, <1>3, <1>4, <1>5

\* Every watch of a directory in the tree has the directory's path.
THEOREM WatchesFollow == W!Spec => []PathsRight
<1> DEFINE Inv == WatcherType /\ \E v : Story(v)
<1>1. W!Init => Inv
  BY WatcherTypeInit, StoryInit
<1>2. Inv /\ [W!Next]_(W!vars) => Inv'
  BY WatcherTypeStep, StoryStep
<1>3. Inv => PathsRight
  BY StoryTells
<1> HIDE DEF Inv
<1> QED BY <1>1, <1>2, <1>3, PTL DEF W!Spec

-----------------------------------------------------------------------------
(* Watcher: what the servers know comes to be the tree. *)

\* Signals that a directory came or went, and that a file in it did.
Turns(s, i) == s.wd = "root" /\ s.dir = i
Fills(s, i) == s.wd = i /\ s.mask # "modify"

\* A directory of which no signal is left is where it is.
LEMMA ToldStays ==
    ASSUME NEW q \in Seq(Caused), NEW v, Told(v, q), NEW i \in Inode, NEW k \in 1..(Len(q) + 1),
           \A l \in k..Len(q) : ~Turns(q[l], i)
    PROVE  v[k][i] = v[Len(q) + 1][i]
<1> DEFINE n == Len(q)
           T == {l \in Nat : l \in k..(n + 1) /\ v[l][i] # v[k][i]}
<1>1. n \in Nat /\ k \in Nat /\ k <= n + 1
  OBVIOUS
<1> HIDE DEF n
<1> SUFFICES ASSUME T # {} PROVE FALSE
  <2>1. n + 1 \in k..(n + 1) /\ n + 1 \in Nat
    BY <1>1
  <2> QED BY <2>1 DEF n
<1>2. PICK l \in T : \A j \in T : ~(<<j, l>> \in OpToRel(<, Nat))
  <2>1. T \subseteq Nat
    OBVIOUS
  <2> HIDE DEF T
  <2> QED BY <2>1, WFMin, NatLessThanWellFounded
<1>3. \A j \in T : ~(j < l)
  BY <1>2 DEF OpToRel
<1>4. l \in k..(n + 1) /\ v[l][i] # v[k][i] /\ l # k
  BY <1>2
<1>5. PICK j \in k..n : l = j + 1
  <2>1. l - 1 \in k..n /\ l = (l - 1) + 1
    BY <1>1, <1>4
  <2> QED BY <2>1
<1>6. j \in Nat /\ j < l /\ j \in k..(n + 1) /\ j \in 1..n /\ j + 1 \in 1..(n + 1) /\ j + 1 \in Nat
  BY <1>1, <1>5
<1>7. v[j][i] = v[k][i]
  BY <1>3, <1>6
<1>8. Tells(q[j], v[j], v[j + 1]) /\ ~Turns(q[j], i) /\ v[j] \in Placing
  BY <1>5, <1>6 DEF Told, n
<1>9. v[j + 1][i] = v[j][i]
  <2>1. q[j].wd = "root" => q[j].dir # i
    BY <1>8 DEF Turns
  <2> QED BY <2>1, <1>8 DEF Tells, Placing
<1> QED BY <1>4, <1>5, <1>7, <1>9

\* What the signals h say of the files when no change was missed.
Hearing(h) ==
    /\ \A k, l \in DOMAIN h, i \in Inode : h[k].wd = i => W!InTree(i)' /\ h[l].wd # "root"
    /\ \A i \in Inode : file'[i] # file[i] => \E k \in DOMAIN h : h[k].wd = i
    /\ \A i \in Inode : ~(file'[i] = None <=> file[i] = None) => \E k \in DOMAIN h : Fills(h[k], i)
    /\ \A i \in Inode, k \in DOMAIN h :
         Fills(h[k], i) => (file'[i] # None <=> h[k].mask \in {"create", "to"})

\* What the user does is heard.
LEMMA UserHeard ==
    ASSUME WatcherType, W!User
    PROVE  /\ \E h \in Seq(Caused) : inotify' = inotify \o h /\ (clean' => clean /\ Hearing(h))
           /\ UNCHANGED <<path, snapshot, moved, eventQueue, draining, row, known>>
<1> DEFINE Heard == /\ \E h \in Seq(Caused) : inotify' = inotify \o h /\ (clean' => clean /\ Hearing(h))
                    /\ UNCHANGED <<path, snapshot, moved, eventQueue, draining, row, known>>
<1>p. /\ place \in [Inode -> {"new", "gone", "outside"} \cup Name]
      /\ file \in [Inode -> {None} \cup W!Text] /\ inotify \in Seq(Caused)
  BY DEF WatcherType, W!TypeOK, Sound
<1>1. PICK i \in Inode :
        \/ W!RemoveDir(i) \/ W!MoveOut(i) \/ W!CreateFile(i) \/ W!DeleteFile(i)
        \/ \E c \in W!Text : W!Save(i, c)
        \/ \E n \in Name : W!MakeDir(i, n) \/ W!Rename(i, n) \/ W!MoveIn(i, n)
        \/ \E j \in Inode : W!MoveFile(i, j)
  BY DEF W!User
<1>2. ASSUME NEW s \in Caused, W!Hears(s), clean' => Hearing(<<s>>) PROVE Heard
  <2>1. PICK h \in Seq(Caused) : h = W!Heard(s)
    BY HeardIs
  <2>2. /\ inotify' = inotify \o h /\ (clean' => clean)
        /\ UNCHANGED <<path, snapshot, moved, eventQueue, draining, row, known>>
    BY <1>2, <2>1 DEF W!Hears, W!HearsAll, W!sync
  <2>3. clean' => h = <<s>>
    BY <1>2, <2>1 DEF W!Hears, W!HearsAll, W!Heard
  <2>4. clean' => clean /\ Hearing(h)
    BY <1>2, <2>2, <2>3
  <2> QED BY <2>2, <2>4
<1>3. ASSUME NEW s \in Caused, NEW t \in Caused, W!HearsBoth(s, t), clean' => Hearing(<<s>> \o <<t>>) PROVE Heard
  <2>1. PICK h \in Seq(Caused) : h = W!Heard(s) \o W!Heard(t)
    <3>1. W!Heard(s) \in Seq(Caused) /\ W!Heard(t) \in Seq(Caused)
      BY HeardIs
    <3>2. W!Heard(s) \o W!Heard(t) \in Seq(Caused)
      BY <3>1
    <3> QED BY <3>2
  <2>2. /\ inotify' = inotify \o h /\ (clean' => clean)
        /\ UNCHANGED <<path, snapshot, moved, eventQueue, draining, row, known>>
    BY <1>3, <2>1 DEF W!HearsBoth, W!HearsAll, W!sync
  <2>3. clean' => h = <<s>> \o <<t>>
    <3>1. clean' => W!Heard(s) = <<s>> /\ W!Heard(t) = <<t>>
      BY <1>3 DEF W!HearsBoth, W!HearsAll, W!Heard
    <3> QED BY <3>1, <2>1
  <2>4. clean' => clean /\ Hearing(h)
    BY <1>3, <2>2, <2>3
  <2> QED BY <2>2, <2>4
<1>4. ASSUME NEW s \in Caused, s.wd = "root", file' = file PROVE Hearing(<<s>>)
  <2> DEFINE h == <<s>>
  <2>1. \A k \in DOMAIN h : h[k].wd = "root"
    BY <1>4
  <2> HIDE DEF h
  <2>2. Hearing(h)
    BY <2>1, <1>4, TreesFit DEF Hearing, Fills
  <2> QED BY <2>2 DEF h
<1>5. ASSUME NEW s \in Caused, NEW t \in Caused, s.wd = "root", t.wd = "root", file' = file
      PROVE  Hearing(<<s>> \o <<t>>)
  <2> DEFINE h == <<s>> \o <<t>>
  <2>1. \A k \in DOMAIN h : h[k].wd = "root"
    <3>1. h \in Seq(Caused) /\ Len(h) = 2 /\ h[1] = s /\ h[2] = t
      OBVIOUS
    <3>2. \A k \in DOMAIN h : k = 1 \/ k = 2
      <4> HIDE DEF h
      <4> QED BY <3>1
    <3> QED BY <3>1, <3>2, <1>5
  <2> HIDE DEF h
  <2>2. Hearing(h)
    BY <2>1, <1>5, TreesFit DEF Hearing, Fills
  <2> QED BY <2>2 DEF h
<1>6. ASSUME NEW s \in Caused, s.wd = i, UNCHANGED place, W!HearsAll({s}, W!Heard(s)),
             NEW c \in {None} \cup W!Text, file' = [file EXCEPT ![i] = c],
             IF s.mask = "modify" THEN file[i] # None /\ c # None ELSE (c # None <=> s.mask \in {"create", "to"})
      PROVE  clean' => Hearing(<<s>>)
  <2>1. clean' => W!InTree(i) /\ s.wd # "root" /\ W!InTree(i)'
    BY <1>6, TreesFit DEF W!HearsAll, W!InTree
  <2>2. file'[i] = c /\ \A j \in Inode : j # i => file'[j] = file[j]
    BY <1>6, <1>p
  <2>3. \A k \in DOMAIN <<s>> : <<s>>[k] = s
    OBVIOUS
  <2>4. 1 \in DOMAIN <<s>>
    OBVIOUS
  <2> DEFINE h == <<s>>
  <2>5. /\ \A k \in DOMAIN h : h[k] = s
        /\ 1 \in DOMAIN h
    BY <2>3, <2>4
  <2> HIDE DEF h
  <2>6. clean' => Hearing(h)
    BY <2>1, <2>2, <2>5, <1>6 DEF Hearing, Fills
  <2> QED BY <2>6 DEF h
<1>7. ASSUME NEW j \in Inode, NEW mask \in {"create", "delete", "modify", "from", "to"}
      PROVE  /\ W!FromDir(j, mask) \in Caused /\ W!FromDir(j, mask).wd = j /\ W!FromDir(j, mask).mask = mask
  BY DirSignal DEF W!FromDir
<1>8. ASSUME NEW n \in Name, NEW mask \in {"create", "delete", "modify", "from", "to"}, NEW b \in BOOLEAN
      PROVE  W!FromRoot(mask, i, n, b) \in Caused /\ W!FromRoot(mask, i, n, b).wd = "root"
  BY RootSignal DEF W!FromRoot
<1>9. ASSUME NEW n \in Name, NEW mask \in {"create", "delete", "from", "to"},
             W!Hears(W!FromRoot(mask, i, n, FALSE)), file' = file
      PROVE  Heard
  <2>1. W!FromRoot(mask, i, n, FALSE) \in Caused /\ W!FromRoot(mask, i, n, FALSE).wd = "root"
    BY <1>8
  <2> HIDE DEF Heard
  <2> QED BY <1>2, <1>4, <1>9, <2>1
<1>10. ASSUME W!RemoveDir(i) \/ W!MoveOut(i) \/ \E n \in Name : W!MakeDir(i, n) \/ W!MoveIn(i, n) PROVE Heard
  <2>1. /\ file' = file
        /\ \E n \in Name, mask \in {"create", "delete", "from", "to"} : W!Hears(W!FromRoot(mask, i, n, FALSE))
    BY <1>10 DEF W!RemoveDir, W!MoveOut, W!MakeDir, W!MoveIn, W!Puts, W!InTree
  <2> HIDE DEF Heard
  <2> QED BY <2>1, <1>9
<1>11. ASSUME NEW n \in Name, W!Rename(i, n) PROVE Heard
  <2> DEFINE s == W!FromRoot("from", i, place[i], TRUE)
             t == W!FromRoot("to", i, n, TRUE)
  <2>1. file' = file /\ W!HearsBoth(s, t) /\ place[i] \in Name
    BY <1>11 DEF W!Rename, W!Puts, W!InTree
  <2>2. s \in Caused /\ s.wd = "root" /\ t \in Caused /\ t.wd = "root"
    BY <2>1, <1>8
  <2> HIDE DEF Heard, s, t
  <2> QED BY <2>1, <2>2, <1>3, <1>5
<1>12. ASSUME NEW mask \in {"create", "delete", "modify", "from", "to"}, W!Hears(W!FromDir(i, mask)),
              UNCHANGED place, NEW c \in {None} \cup W!Text, file' = [file EXCEPT ![i] = c],
              IF mask = "modify" THEN file[i] # None /\ c # None ELSE (c # None <=> mask \in {"create", "to"})
       PROVE  Heard
  <2> DEFINE s == W!FromDir(i, mask)
  <2>1. s \in Caused /\ s.wd = i /\ s.mask = mask /\ W!Hears(s)
    BY <1>7, <1>12
  <2> HIDE DEF s
  <2>2. W!HearsAll({s}, W!Heard(s))
    BY <2>1 DEF W!Hears
  <2>3. clean' => Hearing(<<s>>)
    BY <2>1, <2>2, <1>6, <1>12
  <2> HIDE DEF Heard
  <2> QED BY <2>1, <2>3, <1>2
<1>13. ASSUME W!CreateFile(i) PROVE Heard
  <2>1. W!Hears(W!FromDir(i, "create")) /\ UNCHANGED place /\ file' = [file EXCEPT ![i] = ""]
    BY <1>13 DEF W!CreateFile, W!Writes
  <2>2. "" \in {None} \cup W!Text /\ "" # None
    BY PathsFit DEF W!Text
  <2> HIDE DEF Heard
  <2> QED BY <2>1, <2>2, <1>12
<1>14. ASSUME W!DeleteFile(i) PROVE Heard
  <2>1. W!Hears(W!FromDir(i, "delete")) /\ UNCHANGED place /\ file' = [file EXCEPT ![i] = None]
    BY <1>14 DEF W!DeleteFile, W!Writes
  <2> HIDE DEF Heard
  <2> QED BY <2>1, <1>12
<1>15. ASSUME NEW c \in W!Text, W!Save(i, c) PROVE Heard
  <2>1. W!Hears(W!FromDir(i, "modify")) /\ UNCHANGED place /\ file' = [file EXCEPT ![i] = c] /\ file[i] # None
    BY <1>15 DEF W!Save, W!Writes
  <2>2. c # None
    BY PathsFit DEF W!Text
  <2> HIDE DEF Heard
  <2> QED BY <2>1, <2>2, <1>12
<1>16. ASSUME NEW j \in Inode, W!MoveFile(i, j) PROVE Heard
  <2> DEFINE s == W!FromDir(i, "from")
             t == W!FromDir(j, "to")
  <2>1. /\ i # j /\ file[i] # None /\ file' = [file EXCEPT ![i] = None, ![j] = file[i]] /\ UNCHANGED place
        /\ W!HearsBoth(s, t) /\ W!InTree(i) /\ W!InTree(j)
    BY <1>16 DEF W!MoveFile
  <2>2. /\ s \in Caused /\ s.wd = i /\ s.mask = "from" /\ t \in Caused /\ t.wd = j /\ t.mask = "to"
        /\ s.wd # "root" /\ t.wd # "root"
    <3>1. s \in Caused /\ s.wd = i /\ s.mask = "from"
      BY <1>7
    <3>2. t \in Caused /\ t.wd = j /\ t.mask = "to"
      BY <1>7
    <3> HIDE DEF s, t
    <3> QED BY <3>1, <3>2, TreesFit
  <2>3. file'[i] = None /\ file'[j] # None /\ (\A k \in Inode : k # i /\ k # j => file'[k] = file[k])
        /\ W!InTree(i)' /\ W!InTree(j)'
    BY <2>1, <1>p DEF W!InTree
  <2> HIDE DEF s, t
  <2> DEFINE h == <<s>> \o <<t>>
  <2>4. h[1] = s /\ h[2] = t /\ DOMAIN h = {1, 2}
    <3>1. h \in Seq(Caused) /\ Len(h) = 2 /\ h[1] = s /\ h[2] = t
      BY <2>2
    <3> HIDE DEF h
    <3>2. DOMAIN h = 1..2 /\ 1..2 = {1, 2}
      BY <3>1
    <3> QED BY <3>1, <3>2
  <2> HIDE DEF h
  <2>5. Hearing(h)
    <3>1. \A k \in DOMAIN h : (h[k].wd = i /\ h[k].mask = "from") \/ (h[k].wd = j /\ h[k].mask = "to")
      BY <2>2, <2>4
    <3>2. (\E k \in DOMAIN h : Fills(h[k], i)) /\ (\E k \in DOMAIN h : Fills(h[k], j))
      BY <2>2, <2>4 DEF Fills
    <3>3. \A k \in DOMAIN h : h[k].wd # "root"
      BY <2>2, <2>4
    <3> QED BY <3>1, <3>2, <3>3, <2>1, <2>3 DEF Hearing, Fills
  <2>6. Hearing(<<s>> \o <<t>>)
    BY <2>5 DEF h
  <2> HIDE DEF Heard
  <2> QED BY <2>1, <2>2, <2>6, <1>3
<1> HIDE DEF Heard
<1>17. Heard
  BY <1>1, <1>10, <1>11, <1>13, <1>14, <1>15, <1>16
<1> QED BY <1>17 DEF Heard

\* The events of eventQueue that add or remove the directory n, and its file.
DirAdds(n) == {e \in W!LocalEvent : e.type \in W!Adds /\ e.path = <<n>> /\ e.kind = "dir"}
DirRemoves(n) == {e \in W!LocalEvent : e.type \in W!Removes /\ e.path = <<n>> /\ e.kind = "dir"}
FileAdds(n) == {e \in W!LocalEvent : e.type \in W!Adds /\ e.path = W!FileIn(n) /\ e.kind = "file"}
FileRemoves(n) == {e \in W!LocalEvent : e.type \in W!Removes /\ e.path = W!FileIn(n) /\ e.kind = "file"}
FileWrites(n) ==
    {e \in W!LocalEvent : e.type \in W!Adds \cup {"Modified"} /\ e.path = W!FileIn(n) /\ e.kind = "file"}

\* Will the servers have the directory n, and its file, when the queue is empty?
WillHaveDir(n) == Ends(eventQueue, DirAdds(n), DirRemoves(n), known[<<n>>] # None)
WillHaveFile(n) == Ends(eventQueue, FileAdds(n), FileRemoves(n), known[W!FileIn(n)] # None)

\* Whatever was missed: the client lists the directories that the servers have.
Listing ==
    /\ \A n \in Name :
         /\ known[<<n>>] \in {None, "dir"} /\ (<<n>> \in row <=> known[<<n>>] # None)
         /\ known[W!FileIn(n)] \in {None} \cup W!Text
    /\ \A j \in DOMAIN eventQueue : eventQueue[j].kind = "dir" => eventQueue[j].path \in W!DirPath

\* A directory's signals come while it is in the tree, and the last one about
\* its file tells whether it has one.
FilesTold(v) ==
    /\ \A k \in 1..Len(inotify), i \in Inode : inotify[k].wd = i => v[k][i] # "gone"
    /\ \A i \in Inode, k \in 1..Len(inotify) :
         Fills(inotify[k], i) /\ (\A l \in (k + 1)..Len(inotify) : ~Fills(inotify[l], i)) =>
            (file[i] # None <=> inotify[k].mask \in {"create", "to"})

\* A file's directory is added before it is; a file that is added is removed
\* if its directory is; a file that the servers have is listed or to be
\* removed.
Orderly(n) ==
    /\ \A j \in DOMAIN eventQueue : eventQueue[j] \in FileAdds(n) =>
         \/ /\ known[<<n>>] # None
            /\ \A l \in 1..(j - 1) : eventQueue[l] \notin DirRemoves(n)
         \/ \E i \in 1..(j - 1) :
              /\ eventQueue[i] \in DirAdds(n)
              /\ \A l \in (i + 1)..(j - 1) : eventQueue[l] \notin DirRemoves(n)
    /\ \A i, j \in DOMAIN eventQueue :
         i < j /\ eventQueue[i] \in FileAdds(n) /\ eventQueue[j] \in DirRemoves(n) =>
            \E k \in DOMAIN eventQueue : i < k /\ eventQueue[k] \in FileRemoves(n)
    /\ known[W!FileIn(n)] # None =>
         \/ \E k \in DOMAIN eventQueue : eventQueue[k] \in FileRemoves(n)
         \/ W!FileIn(n) \in row /\ \A j \in DOMAIN eventQueue : eventQueue[j] \notin DirRemoves(n)

\* Signals that are left about the directory i or its file, and about any text.
Pends(i) == \E k \in 1..Len(inotify) : Turns(inotify[k], i) \/ Fills(inotify[k], i)
Texts(i) == \E k \in 1..Len(inotify) : Turns(inotify[k], i) \/ inotify[k].wd = i

\* With the directories where x has them, the servers will have what the
\* signals told of the name n: the directory, its file only with it, and when
\* no signal of the directory is left the file and its text.
AgreesOn(x, n) ==
    /\ WillHaveDir(n) <=> \E i \in Inode : x[i] = n
    /\ WillHaveFile(n) => W!FileIn(n) \in snapshot /\ WillHaveDir(n)
    /\ \A i \in Inode : x[i] = n /\ ~Pends(i) => (WillHaveFile(n) <=> file[i] # None)
    /\ \A i \in Inode : x[i] = n /\ ~Texts(i) /\ file[i] # None =>
         \/ known[W!FileIn(n)] = file[i]
         \/ \E j \in DOMAIN eventQueue : eventQueue[j] \in FileWrites(n)
Agrees(v) == \A n \in Name : AgreesOn(v[1], n)

Knowing(v) ==
    /\ Listing
    /\ clean => FilesTold(v) /\ Agrees(v) /\ \A n \in Name : Orderly(n)

\* The user acts.
LEMMA KnowingUser ==
    ASSUME WatcherType, NEW v, Story(v), Knowing(v), W!User
    PROVE  \E w : Story(w)' /\ Knowing(w)'
<1>1. PICK w : Story(w)' /\ Continues(w, v)
  BY StoryUser
<1>2. PICK h \in Seq(Caused) : inotify' = inotify \o h /\ (clean' => clean /\ Hearing(h))
  BY UserHeard
<1>3. UNCHANGED <<path, snapshot, moved, eventQueue, draining, row, known>>
  BY UserHeard
<1> DEFINE n == Len(inotify)
           m == Len(h)
<1>4. /\ DOMAIN inotify = 1..n /\ DOMAIN h = 1..m /\ n \in Nat /\ m \in Nat
      /\ Len(inotify') = n + m /\ inotify' \in Seq(Caused)
      /\ \A k \in 1..n : inotify'[k] = inotify[k]
      /\ \A k \in 1..m : inotify'[n + k] = h[k]
      /\ \A k \in 1..(n + m) : k \in 1..n \/ (k > n /\ \E l \in 1..m : k = n + l)
  <2>1. inotify \in Seq(Caused)
    BY DEF WatcherType, Sound
  <2> DEFINE r == inotify \o h
  <2>2. /\ DOMAIN inotify = 1..n /\ DOMAIN h = 1..m /\ n \in Nat /\ m \in Nat
        /\ r \in Seq(Caused) /\ Len(r) = n + m /\ DOMAIN r = 1..(n + m)
        /\ \A k \in DOMAIN inotify : r[k] = inotify[k]
        /\ \A k \in DOMAIN h : r[n + k] = h[k]
        /\ \A k \in DOMAIN r : k \in DOMAIN inotify \/ (k > n /\ \E l \in DOMAIN h : k = n + l)
    BY <2>1, Joined
  <2> HIDE DEF r, n, m
  <2>3. inotify' = r
    BY <1>2 DEF r
  <2> QED BY <2>2, <2>3
<1>5. w[1] = v[1] /\ \A k \in 1..n : w[k] = v[k]
  <2>1. 1 \in Steps /\ \A k \in 1..n : k \in Steps
    BY <1>4 DEF Steps
  <2> QED BY <2>1, <1>1 DEF Continues
<1>6. Told(w, inotify') /\ \A i \in Inode : w[Len(inotify') + 1][i] = Where(i)'
  BY <1>1 DEF Story
<1> HIDE DEF n, m
<1>7. Listing'
  BY <1>3 DEF Knowing, Listing, W!LocalEvent
<1> SUFFICES ASSUME clean' PROVE FilesTold(w)' /\ Agrees(w)' /\ \A a \in Name : Orderly(a)'
  BY <1>1, <1>7 DEF Knowing
<1>8. clean /\ Hearing(h) /\ FilesTold(v) /\ Agrees(v) /\ \A a \in Name : Orderly(a)
  BY <1>2 DEF Knowing
<1>h. /\ \A k, l \in 1..m, i \in Inode : h[k].wd = i => W!InTree(i)' /\ h[l].wd # "root"
      /\ \A i \in Inode : (\A k \in 1..m : h[k].wd # i) => file'[i] = file[i]
      /\ \A i \in Inode : (\A k \in 1..m : ~Fills(h[k], i)) => (file'[i] # None <=> file[i] # None)
      /\ \A i \in Inode, k \in 1..m :
           Fills(h[k], i) => (file'[i] # None <=> h[k].mask \in {"create", "to"})
  <2>1. DOMAIN h = 1..m /\ Hearing(h)
    BY <1>4, <1>8
  <2> QED BY <2>1 DEF Hearing
<1>9. \A a \in Name : Orderly(a)'
  BY <1>3, <1>8 DEF Orderly, DirAdds, DirRemoves, FileAdds, FileRemoves
<1>10. FilesTold(w)'
  <2>1. ASSUME NEW k \in 1..(n + m), NEW i \in Inode, inotify'[k].wd = i PROVE w[k][i] # "gone"
    <3>1. CASE k \in 1..n
      <4>1. inotify[k].wd = i /\ w[k] = v[k]
        BY <2>1, <3>1, <1>4, <1>5
      <4> QED BY <3>1, <4>1, <1>8 DEF FilesTold, n
    <3>2. ASSUME NEW l \in 1..m, k = n + l PROVE w[k][i] # "gone"
      <4>1. h[l].wd = i
        BY <2>1, <3>2, <1>4
      <4>2. W!InTree(i)' /\ \A j \in 1..m : h[j].wd # "root"
        BY <4>1, <1>h
      <4>3. \A j \in k..Len(inotify') : ~Turns(inotify'[j], i)
        <5> SUFFICES ASSUME NEW j \in k..Len(inotify') PROVE ~Turns(inotify'[j], i)
          OBVIOUS
        <5>1. j \in 1..(n + m) /\ j \notin 1..n
          BY <3>2, <1>4
        <5>2. PICK a \in 1..m : j = n + a
          BY <5>1, <1>4
        <5>3. inotify'[j] = h[a]
          BY <5>2, <1>4
        <5> QED BY <5>3, <4>2 DEF Turns
      <4>4. w[k][i] = Where(i)'
        <5>1. k \in 1..(Len(inotify') + 1)
          BY <2>1, <1>4
        <5> QED BY <5>1, <4>3, <1>4, <1>6, ToldStays
      <4> QED BY <4>2, <4>4, TreesFit DEF Where, W!InTree
    <3> QED BY <3>1, <3>2, <1>4
  <2>2. ASSUME NEW i \in Inode, NEW k \in 1..(n + m), Fills(inotify'[k], i),
               \A l \in (k + 1)..(n + m) : ~Fills(inotify'[l], i)
        PROVE  file'[i] # None <=> inotify'[k].mask \in {"create", "to"}
    <3>1. CASE k \in 1..n
      <4>1. \A l \in (k + 1)..n : ~Fills(inotify[l], i)
        <5>1. \A l \in (k + 1)..n : l \in (k + 1)..(n + m) /\ l \in 1..n
          BY <3>1, <1>4
        <5> QED BY <5>1, <2>2, <1>4
      <4>2. file[i] # None <=> inotify[k].mask \in {"create", "to"}
        BY <2>2, <3>1, <4>1, <1>4, <1>8 DEF FilesTold, n
      <4>3. \A l \in 1..m : ~Fills(h[l], i)
        <5>1. \A l \in 1..m : n + l \in (k + 1)..(n + m)
          BY <3>1, <1>4
        <5> QED BY <5>1, <2>2, <1>4
      <4>4. file'[i] # None <=> file[i] # None
        BY <4>3, <1>h
      <4> QED BY <3>1, <4>2, <4>4, <1>4
    <3>2. ASSUME NEW l \in 1..m, k = n + l
          PROVE  file'[i] # None <=> inotify'[k].mask \in {"create", "to"}
      BY <2>2, <3>2, <1>4, <1>h
    <3> QED BY <3>1, <3>2, <1>4
  <2> QED BY <2>1, <2>2, <1>4 DEF FilesTold
<1>11. ASSUME NEW i \in Inode
       PROVE  /\ ~Pends(i)' => ~Pends(i) /\ (file'[i] # None <=> file[i] # None)
              /\ ~Texts(i)' => ~Texts(i) /\ file'[i] = file[i]
  <2>1. ASSUME NEW k \in 1..n PROVE k \in 1..(n + m) /\ inotify'[k] = inotify[k]
    BY <1>4
  <2>2. ASSUME NEW l \in 1..m PROVE n + l \in 1..(n + m) /\ inotify'[n + l] = h[l]
    BY <1>4
  <2>3. ~Pends(i)' => ~Pends(i) /\ \A l \in 1..m : ~Fills(h[l], i)
    BY <2>1, <2>2, <1>4 DEF Pends, n
  <2>4. ~Texts(i)' => ~Texts(i) /\ \A l \in 1..m : h[l].wd # i
    BY <2>1, <2>2, <1>4 DEF Texts, n
  <2> QED BY <2>3, <2>4, <1>h
<1>12. ASSUME NEW a \in Name PROVE (WillHaveDir(a)' <=> WillHaveDir(a)) /\ (WillHaveFile(a)' <=> WillHaveFile(a))
  BY <1>3 DEF WillHaveDir, WillHaveFile
<1>13. Agrees(w)'
  <2>1. \A a \in Name : WillHaveDir(a)' <=> \E i \in Inode : w[1][i] = a
    BY <1>5, <1>8, <1>12 DEF Agrees, AgreesOn
  <2>2. \A a \in Name : WillHaveFile(a)' => W!FileIn(a) \in snapshot' /\ WillHaveDir(a)'
    BY <1>3, <1>8, <1>12 DEF Agrees, AgreesOn
  <2>3. \A i \in Inode, a \in Name : w[1][i] = a /\ ~Pends(i)' => (WillHaveFile(a)' <=> file'[i] # None)
    BY <1>5, <1>8, <1>11, <1>12 DEF Agrees, AgreesOn
  <2>4. ASSUME NEW i \in Inode, NEW a \in Name, w[1][i] = a, ~Texts(i)', file'[i] # None
        PROVE  \/ known'[W!FileIn(a)] = file'[i]
               \/ \E j \in DOMAIN eventQueue' : eventQueue'[j] \in FileWrites(a)'
    <3>1. ~Texts(i) /\ file'[i] = file[i]
      BY <2>4, <1>11
    <3>2. FileWrites(a)' = FileWrites(a)
      BY DEF FileWrites
    <3>3. \/ known[W!FileIn(a)] = file[i]
          \/ \E j \in DOMAIN eventQueue : eventQueue[j] \in FileWrites(a)
      BY <2>4, <3>1, <1>5, <1>8 DEF Agrees, AgreesOn
    <3> QED BY <3>1, <3>2, <3>3, <1>3
  <2> HIDE DEF n, m
  <2> QED BY <2>1, <2>2, <2>3, <2>4 DEF Agrees, AgreesOn
<1> QED BY <1>9, <1>10, <1>13

\* What it is to be a prefix.
LEMMA PrefixIs ==
    ASSUME NEW S, NEW s \in Seq(S), NEW t \in Seq(S)
    PROVE  W!IsPrefix(s, t) <=> Len(s) <= Len(t) /\ \A i \in 1..Len(s) : s[i] = t[i]
<1> DEFINE a == SubSeq(s, 1, Len(s))
           b == SubSeq(t, 1, Len(s))
<1>1. a \in Seq(S) /\ Len(a) = Len(s) /\ \A i \in 1..Len(s) : a[i] = s[i]
  OBVIOUS
<1>2. Len(s) <= Len(t) => b \in Seq(S) /\ Len(b) = Len(s) /\ \A i \in 1..Len(s) : b[i] = t[i]
  OBVIOUS
<1>3. W!IsPrefix(s, t) <=> Len(s) <= Len(t) /\ a = b
  BY DEF W!IsPrefix
<1> HIDE DEF a, b
<1> QED BY <1>1, <1>2, <1>3

\* Paths of directories and files, and which are below which.
LEMMA PathsDiffer ==
    ASSUME NEW n \in Name, NEW m \in Name
    PROVE  /\ <<n>> = <<m>> => n = m
           /\ W!FileIn(n) = W!FileIn(m) => n = m
           /\ <<n>> # W!FileIn(m)
           /\ <<n>>[1] = n /\ W!FileIn(n)[1] = n
           /\ <<n>> \in W!DirPath /\ W!FileIn(n) \notin W!DirPath
           /\ W!IsPrefix(<<n>>, <<m>>) <=> n = m
           /\ W!IsPrefix(<<n>>, W!FileIn(m)) <=> n = m
           /\ ~W!IsPrefix(W!FileIn(n), <<m>>)
           /\ W!IsPrefix(W!FileIn(n), W!FileIn(m)) <=> n = m
<1>1. \A a, b \in Name : <<a>> # W!FileIn(b)
  BY DEF W!FileIn
<1>2. /\ Len(<<n>>) = 1 /\ Len(<<m>>) = 1 /\ Len(W!FileIn(n)) = 2 /\ Len(W!FileIn(m)) = 2
      /\ <<n>>[1] = n /\ <<m>>[1] = m /\ W!FileIn(n)[1] = n /\ W!FileIn(m)[1] = m
      /\ W!FileIn(n)[2] = "f.txt" /\ W!FileIn(m)[2] = "f.txt"
  BY DEF W!FileIn
<1>3. W!FileIn(n) \notin W!DirPath
  BY <1>1 DEF W!DirPath
<1>4. \A s, t \in Seq(Name \cup {"f.txt"}) :
        W!IsPrefix(s, t) <=> Len(s) <= Len(t) /\ \A i \in 1..Len(s) : s[i] = t[i]
  BY PrefixIs
<1>5. /\ <<n>> \in Seq(Name \cup {"f.txt"}) /\ <<m>> \in Seq(Name \cup {"f.txt"})
      /\ W!FileIn(n) \in Seq(Name \cup {"f.txt"}) /\ W!FileIn(m) \in Seq(Name \cup {"f.txt"})
  BY DEF W!FileIn
<1>a. 1..1 = {1} /\ 1..2 = {1, 2}
  OBVIOUS
<1>6. (<<n>> = <<m>> => n = m) /\ (W!FileIn(n) = W!FileIn(m) => n = m)
  BY <1>2
<1> DEFINE d == <<n>>
           e == <<m>>
           f == W!FileIn(n)
           g == W!FileIn(m)
<1>b. /\ W!IsPrefix(d, e) <=> Len(d) <= Len(e) /\ \A i \in 1..Len(d) : d[i] = e[i]
      /\ W!IsPrefix(d, g) <=> Len(d) <= Len(g) /\ \A i \in 1..Len(d) : d[i] = g[i]
      /\ W!IsPrefix(f, e) <=> Len(f) <= Len(e) /\ \A i \in 1..Len(f) : f[i] = e[i]
      /\ W!IsPrefix(f, g) <=> Len(f) <= Len(g) /\ \A i \in 1..Len(f) : f[i] = g[i]
  <2> HIDE DEF d, e, f, g
  <2>1. d \in Seq(Name \cup {"f.txt"}) /\ e \in Seq(Name \cup {"f.txt"})
        /\ f \in Seq(Name \cup {"f.txt"}) /\ g \in Seq(Name \cup {"f.txt"})
    BY <1>5 DEF d, e, f, g
  <2> QED BY <1>4, <2>1
<1>c. /\ Len(d) = 1 /\ Len(e) = 1 /\ Len(f) = 2 /\ Len(g) = 2
      /\ d[1] = n /\ e[1] = m /\ f[1] = n /\ g[1] = m /\ f[2] = "f.txt" /\ g[2] = "f.txt"
  BY <1>2
<1>7. (W!IsPrefix(d, e) <=> n = m) /\ (W!IsPrefix(d, g) <=> n = m) /\ ~W!IsPrefix(f, e)
      /\ (W!IsPrefix(f, g) <=> n = m)
  <2> HIDE DEF d, e, f, g
  <2>1. (1 <= 1) /\ (1 <= 2) /\ ~(2 <= 1) /\ (2 <= 2)
    OBVIOUS
  <2> QED BY <1>a, <1>b, <1>c, <2>1
<1>8. <<n>> \in W!DirPath
  BY DEF W!DirPath
<1> QED BY <1>1, <1>2, <1>3, <1>6, <1>7, <1>8

\* An event that adds does not remove.
LEMMA KindsDiffer ==
    ASSUME NEW n \in Name
    PROVE  /\ DirAdds(n) \cap DirRemoves(n) = {} /\ FileAdds(n) \cap FileRemoves(n) = {}
           /\ (DirAdds(n) \cup DirRemoves(n)) \cap (FileWrites(n) \cup FileRemoves(n)) = {}
           /\ FileAdds(n) \subseteq FileWrites(n) /\ FileWrites(n) \cap FileRemoves(n) = {}
BY DEF DirAdds, DirRemoves, FileAdds, FileRemoves, FileWrites, W!Adds, W!Removes

\* What the servers know of a directory and its file, and what the client
\* lists, when the first event of the queue is applied.
LEMMA KnowsNow ==
    ASSUME WatcherType, Listing, W!ProcessEvent, NEW n \in Name, NEW e, eventQueue # <<>>, e = Head(eventQueue)
    PROVE  /\ e \in W!LocalEvent /\ (e.kind = "dir" => e.path \in W!DirPath)
           /\ e \in DirAdds(n) => known'[<<n>>] = "dir"
           /\ e \in DirRemoves(n) => known'[<<n>>] = None
           /\ e \notin DirAdds(n) \cup DirRemoves(n) => known'[<<n>>] = known[<<n>>]
           /\ e \notin DirRemoves(n) \cup FileRemoves(n) => (W!FileIn(n) \in row => W!FileIn(n) \in row')
           /\ e \notin FileWrites(n) \cup FileRemoves(n) => known'[W!FileIn(n)] = known[W!FileIn(n)]
           /\ e \in FileRemoves(n) => known'[W!FileIn(n)] = None
           /\ e \in FileAdds(n) =>
                 /\ W!FileIn(n) \in row'
                 /\ known'[W!FileIn(n)] = IF known[<<n>>] = None THEN known[W!FileIn(n)] ELSE W!ReadText(W!FileIn(n))
           /\ e \in FileWrites(n) \ FileAdds(n) =>
                 known'[W!FileIn(n)] = IF W!FileIn(n) \in row /\ known[W!FileIn(n)] # None
                                       THEN W!ReadText(W!FileIn(n)) ELSE known[W!FileIn(n)]
           /\ <<n>> \in row' <=> known'[<<n>>] # None
<1> DEFINE D == <<n>>
           F == W!FileIn(n)
<1>t. /\ eventQueue \in Seq(W!LocalEvent) /\ row \subseteq W!Path
      /\ known \in [W!Path -> {None, "dir"} \cup W!Text]
  BY DEF WatcherType, W!TypeOK
<1>1. e \in W!LocalEvent /\ e = eventQueue[1] /\ 1 \in DOMAIN eventQueue
  BY <1>t
<1>2. e.kind = "dir" => e.path \in W!DirPath
  BY <1>1 DEF Listing
<1>3. D \in W!Path /\ F \in W!Path /\ D # F /\ D \in W!DirPath /\ F \notin W!DirPath
      /\ F[1] = n
  BY PathType, PathsDiffer
<1>4. /\ known[D] \in {None, "dir"} /\ (D \in row <=> known[D] # None)
  BY DEF Listing
<1>5. /\ e.type \in {"Created", "Deleted", "Modified", "MovedFrom", "MovedTo"}
      /\ e.path \in W!Path /\ e.kind \in {"file", "dir"}
  BY <1>1 DEF W!LocalEvent
<1>6. /\ D \in DOMAIN known /\ F \in DOMAIN known /\ e.path \in DOMAIN known
      /\ \A v : /\ [known EXCEPT ![e.path] = v][e.path] = v
                /\ \A p \in W!Path : p # e.path => [known EXCEPT ![e.path] = v][p] = known[p]
  BY <1>t, <1>3, <1>5
<1>7. /\ W!IsPrefix(e.path, D) <=> e.path = D
      /\ W!IsPrefix(e.path, F) <=> e.path \in {D, F}
  <2>1. PICK m \in Name : e.path = <<m>> \/ e.path = W!FileIn(m)
    BY <1>5 DEF W!Path, W!DirPath
  <2>2. CASE e.path = <<m>>
    <3>1. (<<m>> = <<n>> => m = n) /\ <<m>> # W!FileIn(n)
          /\ (W!IsPrefix(<<m>>, <<n>>) <=> m = n) /\ (W!IsPrefix(<<m>>, W!FileIn(n)) <=> m = n)
      BY PathsDiffer
    <3>2. m = n => <<m>> = <<n>>
      OBVIOUS
    <3> QED BY <2>2, <3>1, <3>2
  <2>3. CASE e.path = W!FileIn(m)
    <3>1. (W!FileIn(m) = W!FileIn(n) => m = n) /\ <<n>> # W!FileIn(m)
          /\ ~W!IsPrefix(W!FileIn(m), <<n>>) /\ (W!IsPrefix(W!FileIn(m), W!FileIn(n)) <=> m = n)
      BY PathsDiffer
    <3>2. m = n => W!FileIn(m) = W!FileIn(n)
      OBVIOUS
    <3> QED BY <2>3, <3>1, <3>2
  <2> QED BY <2>1, <2>2, <2>3
<1> HIDE DEF D, F
<1>8. None # "dir"
  BY PathsFit
<1>9. CASE e.kind = "file" /\ e.path \in W!DirPath /\ UNCHANGED <<row, known>>
  <2>1. e \notin DirAdds(n) \cup DirRemoves(n) \cup FileWrites(n) \cup FileRemoves(n) \cup FileAdds(n)
    BY <1>9, <1>3 DEF DirAdds, DirRemoves, FileWrites, FileAdds, FileRemoves, F
  <2> QED BY <2>1, <1>1, <1>3, <1>4, <1>9 DEF D, F
<1>10. CASE e.kind = "file" /\ e.path \notin W!DirPath /\ e.type \in W!Adds /\ W!AddFile(e.path)
  <2>1. /\ e \notin DirAdds(n) \cup DirRemoves(n) \cup FileRemoves(n)
        /\ e \in FileWrites(n) <=> e.path = F
        /\ e \in FileAdds(n) <=> e.path = F
    BY <1>10, <1>1 DEF DirAdds, DirRemoves, FileWrites, FileAdds, FileRemoves, F, W!Adds, W!Removes
  <2>2. e.path # D /\ known'[D] = known[D] /\ (e.path # F => known'[F] = known[F])
    BY <1>3, <1>6, <1>10 DEF W!AddFile, W!Knows
  <2>3. e.path = F => known'[F] = IF known[D] = None THEN known[F] ELSE W!ReadText(F)
    BY <1>3, <1>6, <1>10 DEF W!AddFile, W!Knows, D
  <2>4. row' = row \cup {e.path}
    BY <1>10 DEF W!AddFile
  <2> QED BY <2>1, <2>2, <2>3, <2>4, <1>1, <1>2, <1>4 DEF D, F
<1>11. CASE e.kind = "file" /\ e.path \notin W!DirPath /\ e.type = "Modified" /\ W!Upload(e.path)
  <2>1. /\ e \notin DirAdds(n) \cup DirRemoves(n) \cup FileRemoves(n) \cup FileAdds(n)
        /\ e \in FileWrites(n) <=> e.path = F
    BY <1>11, <1>1 DEF DirAdds, DirRemoves, FileWrites, FileAdds, FileRemoves, F, W!Adds, W!Removes
  <2>2. e.path # D /\ known'[D] = known[D] /\ (e.path # F => known'[F] = known[F]) /\ row' = row
    BY <1>3, <1>6, <1>11 DEF W!Upload, W!Knows
  <2>3. e.path = F => known'[F] = IF F \in row /\ known[F] # None THEN W!ReadText(F) ELSE known[F]
    BY <1>3, <1>6, <1>11 DEF W!Upload, W!Knows
  <2> QED BY <2>1, <2>2, <2>3, <1>1, <1>2, <1>4 DEF D, F
<1>12. CASE e.kind = "file" /\ e.path \notin W!DirPath /\ e.type \in W!Removes /\ W!Delete(e.path)
  <2>1. /\ e \notin DirAdds(n) \cup DirRemoves(n) \cup FileWrites(n) \cup FileAdds(n)
        /\ e \in FileRemoves(n) <=> e.path = F
    BY <1>12, <1>1 DEF DirAdds, DirRemoves, FileWrites, FileAdds, FileRemoves, F, W!Adds, W!Removes
  <2>2. e.path # D /\ known'[D] = known[D] /\ (e.path # F => known'[F] = known[F]) /\ known'[e.path] = None
    BY <1>3, <1>6, <1>12 DEF W!Delete, W!Knows
  <2>3. (D \in row' <=> D \in row) /\ (e.path # F => (F \in row => F \in row'))
    BY <2>2, <1>7, <1>12 DEF W!Delete
  <2> QED BY <2>1, <2>2, <2>3, <1>1, <1>2, <1>4 DEF D, F
<1>13. CASE e.kind = "dir" /\ e.type \in W!Adds /\ W!AddDir(e.path)
  <2>1. /\ e \notin DirRemoves(n) \cup FileWrites(n) \cup FileAdds(n) \cup FileRemoves(n)
        /\ e \in DirAdds(n) <=> e.path = D
    BY <1>13, <1>1 DEF DirAdds, DirRemoves, FileWrites, FileAdds, FileRemoves, D, W!Adds, W!Removes
  <2>2. e.path # F /\ known'[F] = known[F] /\ (e.path # D => known'[D] = known[D])
    BY <1>2, <1>3, <1>6, <1>13 DEF W!AddDir, W!Knows
  <2>3. e.path = D => known'[D] = "dir" /\ D \in row'
    BY <1>4, <1>6, <1>13 DEF W!AddDir, W!Knows
  <2>4. row \subseteq row' /\ (e.path # D => (D \in row' <=> D \in row))
    BY <1>13 DEF W!AddDir
  <2> QED BY <2>1, <2>2, <2>3, <2>4, <1>1, <1>2, <1>4, <1>8 DEF D, F
<1>14. CASE e.kind = "dir" /\ e.type \in W!Removes /\ W!Delete(e.path)
  <2>1. /\ e \notin DirAdds(n) \cup FileWrites(n) \cup FileAdds(n) \cup FileRemoves(n)
        /\ e \in DirRemoves(n) <=> e.path = D
    BY <1>14, <1>1 DEF DirAdds, DirRemoves, FileWrites, FileAdds, FileRemoves, D, W!Adds, W!Removes
  <2>2. e.path # F /\ known'[F] = known[F] /\ (e.path # D => known'[D] = known[D]) /\ known'[e.path] = None
    BY <1>2, <1>3, <1>6, <1>14 DEF W!Delete, W!Knows
  <2>3. /\ e.path # D => (D \in row' <=> D \in row) /\ (F \in row => F \in row')
        /\ e.path = D => D \notin row'
    BY <2>2, <1>7, <1>14 DEF W!Delete
  <2> QED BY <2>1, <2>2, <2>3, <1>1, <1>2, <1>4 DEF D, F
<1> QED BY <1>9, <1>10, <1>11, <1>12, <1>13, <1>14 DEF W!ProcessEvent

\* The events that are left when the first one is applied.
LEMMA QueueLess ==
    ASSUME WatcherType, W!ProcessEvent, eventQueue # <<>>
    PROVE  /\ eventQueue' = Tail(eventQueue) /\ Head(eventQueue) = eventQueue[1]
           /\ UNCHANGED <<place, file, watched, inotify, path, snapshot, moved, clean>>
           /\ DOMAIN eventQueue = 1..Len(eventQueue) /\ Len(eventQueue) \in Nat /\ Len(eventQueue) > 0
           /\ DOMAIN eventQueue' = 1..(Len(eventQueue) - 1) /\ Len(eventQueue') = Len(eventQueue) - 1
           /\ \A j \in DOMAIN eventQueue' : j + 1 \in DOMAIN eventQueue /\ eventQueue'[j] = eventQueue[j + 1]
           /\ \A j \in DOMAIN eventQueue : j # 1 => j - 1 \in DOMAIN eventQueue' /\ eventQueue'[j - 1] = eventQueue[j]
<1> DEFINE n == Len(eventQueue)
           r == Tail(eventQueue)
<1>1. eventQueue' = r /\ UNCHANGED <<place, file, watched, inotify, path, snapshot, moved, clean>>
  BY DEF W!ProcessEvent, W!tree, W!watcher
<1>2. /\ DOMAIN eventQueue = 1..n /\ n \in Nat /\ n > 0 /\ Head(eventQueue) = eventQueue[1]
      /\ r \in Seq(W!LocalEvent) /\ Len(r) = n - 1
      /\ \A j \in 1..(n - 1) : r[j] = eventQueue[j + 1]
  <2>1. eventQueue \in Seq(W!LocalEvent)
    BY DEF WatcherType, W!TypeOK
  <2> QED BY <2>1
<1> HIDE DEF n, r
<1>3. DOMAIN r = 1..(n - 1)
  BY <1>2
<1>4. /\ \A j \in 1..(n - 1) : j + 1 \in 1..n /\ r[j] = eventQueue[j + 1]
      /\ \A j \in 1..n : j # 1 => j - 1 \in 1..(n - 1) /\ (j - 1) + 1 = j
  BY <1>2
<1>5. \A j \in 1..n : j # 1 => j - 1 \in 1..(n - 1) /\ r[j - 1] = eventQueue[j]
  BY <1>2, <1>4
<1> QED BY <1>1, <1>2, <1>3, <1>4, <1>5 DEF n

\* A file that is read has a text.
LEMMA ReadHas == ASSUME WatcherType, NEW n \in Name PROVE W!ReadText(W!FileIn(n)) \in W!Text
<1>1. W!TextAt(W!FileIn(n)[1]) \in {None} \cup W!Text
  BY TextType
<1> QED BY <1>1 DEF W!ReadText, W!Text

\* The file of a directory is one of the servers' after its addition.
LEMMA AddHas ==
    ASSUME WatcherType, Listing, W!ProcessEvent, eventQueue # <<>>, NEW n \in Name, Orderly(n),
           Head(eventQueue) \in FileAdds(n)
    PROVE  known'[W!FileIn(n)] = W!ReadText(W!FileIn(n)) /\ W!FileIn(n) \in row'
<1>1. PICK e : e = Head(eventQueue)
  OBVIOUS
<1>2. 1 \in DOMAIN eventQueue /\ eventQueue[1] = e /\ 1..(1 - 1) = {}
  BY <1>1, QueueLess
<1>3. known[<<n>>] # None
  BY <1>1, <1>2 DEF Orderly
<1> QED BY <1>1, <1>3, KnowsNow

\* The client goes on to list what the servers have.
LEMMA ListingProcess ==
    ASSUME WatcherType, Listing, W!ProcessEvent, eventQueue # <<>>
    PROVE  Listing'
<1>1. ASSUME NEW n \in Name
      PROVE  /\ known'[<<n>>] \in {None, "dir"} /\ (<<n>> \in row' <=> known'[<<n>>] # None)
             /\ known'[W!FileIn(n)] \in {None} \cup W!Text
  <2>1. PICK e : e = Head(eventQueue)
    OBVIOUS
  <2>2. W!ReadText(W!FileIn(n)) \in W!Text
    BY ReadHas
  <2>3. known[<<n>>] \in {None, "dir"} /\ known[W!FileIn(n)] \in {None} \cup W!Text
    BY DEF Listing
  <2>4. known'[<<n>>] \in {None, "dir"} /\ (<<n>> \in row' <=> known'[<<n>>] # None)
    BY <2>1, <2>3, KnowsNow
  <2>5. known'[W!FileIn(n)] \in {None} \cup W!Text
    BY <2>1, <2>2, <2>3, KnowsNow
  <2> QED BY <2>4, <2>5
<1>2. \A j \in DOMAIN eventQueue' : eventQueue'[j].kind = "dir" => eventQueue'[j].path \in W!DirPath
  BY QueueLess DEF Listing
<1> QED BY <1>1, <1>2 DEF Listing, W!DirPath, W!Text, W!FileIn

\* What is to come of a directory and its file stays.
LEMMA WillProcess ==
    ASSUME WatcherType, Listing, W!ProcessEvent, eventQueue # <<>>, NEW n \in Name, Orderly(n)
    PROVE  (WillHaveDir(n)' <=> WillHaveDir(n)) /\ (WillHaveFile(n)' <=> WillHaveFile(n))
<1>1. PICK e : e = Head(eventQueue)
  OBVIOUS
<1>2. eventQueue \in Seq(W!LocalEvent) /\ eventQueue' = Tail(eventQueue)
  BY QueueLess DEF WatcherType, W!TypeOK
<1>3. None \notin {"dir"} \cup W!Text
  BY PathsFit DEF W!Text
<1>4. W!ReadText(W!FileIn(n)) \in W!Text
  BY ReadHas
<1>5. /\ DirAdds(n)' = DirAdds(n) /\ DirRemoves(n)' = DirRemoves(n)
      /\ FileAdds(n)' = FileAdds(n) /\ FileRemoves(n)' = FileRemoves(n)
  BY DEF DirAdds, DirRemoves, FileAdds, FileRemoves
<1>6. WillHaveDir(n)' <=> WillHaveDir(n)
  <2> DEFINE before == known[<<n>>] # None
             after == known'[<<n>>] # None
  <2>1. e \in DirAdds(n) => after
    BY <1>1, <1>3, KnowsNow
  <2>2. e \in DirRemoves(n) => ~after
    BY <1>1, KnowsNow
  <2>3. e \notin DirAdds(n) \cup DirRemoves(n) => after = before
    BY <1>1, KnowsNow
  <2>4. before \in BOOLEAN /\ after \in BOOLEAN
    OBVIOUS
  <2> HIDE DEF before, after
  <2>5. Ends(Tail(eventQueue), DirAdds(n), DirRemoves(n), after)
          <=> Ends(eventQueue, DirAdds(n), DirRemoves(n), before)
    BY <1>1, <1>2, <2>1, <2>2, <2>3, <2>4, EndsLess
  <2>6. WillHaveDir(n)' <=> Ends(Tail(eventQueue), DirAdds(n), DirRemoves(n), after)
    BY <1>2, <1>5 DEF WillHaveDir, after, Ends
  <2>7. WillHaveDir(n) <=> Ends(eventQueue, DirAdds(n), DirRemoves(n), before)
    BY DEF WillHaveDir, before
  <2> QED BY <2>5, <2>6, <2>7
<1>7. WillHaveFile(n)' <=> WillHaveFile(n)
  <2> DEFINE before == known[W!FileIn(n)] # None
             after == known'[W!FileIn(n)] # None
  <2>1. e \in FileAdds(n) => after
    BY <1>1, <1>3, <1>4, AddHas
  <2>2. e \in FileRemoves(n) => ~after
    BY <1>1, KnowsNow
  <2>3. e \notin FileAdds(n) \cup FileRemoves(n) => after = before
    <3>1. CASE e \in FileWrites(n)
      BY <3>1, <1>1, <1>3, <1>4, KnowsNow
    <3>2. CASE e \notin FileWrites(n)
      BY <3>2, <1>1, KnowsNow
    <3> QED BY <3>1, <3>2
  <2>4. before \in BOOLEAN /\ after \in BOOLEAN
    OBVIOUS
  <2> HIDE DEF before, after
  <2>5. Ends(Tail(eventQueue), FileAdds(n), FileRemoves(n), after)
          <=> Ends(eventQueue, FileAdds(n), FileRemoves(n), before)
    BY <1>1, <1>2, <2>1, <2>2, <2>3, <2>4, EndsLess
  <2>6. WillHaveFile(n)' <=> Ends(Tail(eventQueue), FileAdds(n), FileRemoves(n), after)
    BY <1>2, <1>5 DEF WillHaveFile, after, Ends, W!FileIn
  <2>7. WillHaveFile(n) <=> Ends(eventQueue, FileAdds(n), FileRemoves(n), before)
    BY DEF WillHaveFile, before
  <2> QED BY <2>5, <2>6, <2>7
<1> QED BY <1>6, <1>7

\* The order of the events that are left.
LEMMA OrderlyProcess ==
    ASSUME WatcherType, Listing, W!ProcessEvent, eventQueue # <<>>, NEW n \in Name, Orderly(n)
    PROVE  Orderly(n)'
<1> DEFINE D == <<n>>
           F == W!FileIn(n)
<1>1. PICK e : e = Head(eventQueue) /\ e = eventQueue[1]
  BY QueueLess
<1>2. PICK q : q = eventQueue
  OBVIOUS
<1>3. PICK r : r = eventQueue'
  OBVIOUS
<1>4. PICK m \in Nat : m = Len(q)
  BY <1>2, QueueLess
<1>5. /\ DOMAIN q = 1..m /\ DOMAIN r = 1..(m - 1) /\ m > 0 /\ q[1] = e
      /\ \A j \in DOMAIN r : j + 1 \in DOMAIN q /\ r[j] = q[j + 1]
      /\ \A j \in DOMAIN q : j # 1 => j - 1 \in DOMAIN r /\ r[j - 1] = q[j]
  BY <1>1, <1>2, <1>3, <1>4, QueueLess
<1>6. /\ DirAdds(n)' = DirAdds(n) /\ DirRemoves(n)' = DirRemoves(n)
      /\ FileAdds(n)' = FileAdds(n) /\ FileRemoves(n)' = FileRemoves(n)
  BY DEF DirAdds, DirRemoves, FileAdds, FileRemoves
<1>7. PICK DA, DR, FA, FR : DA = DirAdds(n) /\ DR = DirRemoves(n) /\ FA = FileAdds(n) /\ FR = FileRemoves(n)
  OBVIOUS
<1>8. DA \cap DR = {} /\ FA \cap FR = {} /\ (DA \cup DR) \cap (FA \cup FR) = {}
  BY <1>7, KindsDiffer
<1>9. /\ \A j \in DOMAIN q : q[j] \in FA =>
           \/ known[D] # None /\ \A l \in 1..(j - 1) : q[l] \notin DR
           \/ \E i \in 1..(j - 1) : q[i] \in DA /\ \A l \in (i + 1)..(j - 1) : q[l] \notin DR
      /\ \A i, j \in DOMAIN q : i < j /\ q[i] \in FA /\ q[j] \in DR => \E k \in DOMAIN q : i < k /\ q[k] \in FR
      /\ known[F] # None => \/ \E k \in DOMAIN q : q[k] \in FR
                            \/ F \in row /\ \A j \in DOMAIN q : q[j] \notin DR
  BY <1>2, <1>7 DEF Orderly
<1>10. None # "dir"
  BY PathsFit
<1>11. /\ e \in DA => known'[D] = "dir"
       /\ e \notin DA \cup DR => known'[D] = known[D]
       /\ e \notin DR \cup FR => (F \in row => F \in row')
       /\ e \in FR => known'[F] = None
       /\ e \in FA => F \in row'
       /\ e \notin FA \cup FR => (known'[F] # None => known[F] # None)
  <2>1. e \notin FA \cup FR => (known'[F] # None => known[F] # None)
    <3>1. CASE e \in FileWrites(n)
      BY <3>1, <1>1, <1>7, KnowsNow
    <3>2. CASE e \notin FileWrites(n)
      BY <3>2, <1>1, <1>7, KnowsNow
    <3> QED BY <3>1, <3>2
  <2>2. e \in FA => F \in row'
    BY <1>1, <1>7, AddHas
  <2>3. /\ e \in DA => known'[D] = "dir"
        /\ e \notin DA \cup DR => known'[D] = known[D]
        /\ e \notin DR \cup FR => (F \in row => F \in row')
        /\ e \in FR => known'[F] = None
    BY <1>1, <1>7, KnowsNow
  <2> QED BY <2>1, <2>2, <2>3
<1> HIDE DEF D, F
<1>12. ASSUME NEW j \in DOMAIN r, r[j] \in FA
       PROVE  \/ known'[D] # None /\ \A l \in 1..(j - 1) : r[l] \notin DR
              \/ \E i \in 1..(j - 1) : r[i] \in DA /\ \A l \in (i + 1)..(j - 1) : r[l] \notin DR
  <2>1. j + 1 \in DOMAIN q /\ q[j + 1] \in FA /\ (j + 1) - 1 = j /\ j \in Nat /\ j > 0
    BY <1>5, <1>12
  <2>2. CASE known[D] # None /\ \A l \in 1..j : q[l] \notin DR
    <3>1. e \notin DR
      BY <2>1, <2>2, <1>5
    <3>2. known'[D] # None
      BY <2>2, <3>1, <1>10, <1>11
    <3>3. ASSUME NEW l \in 1..(j - 1) PROVE r[l] \notin DR
      <4>1. l \in DOMAIN r /\ l + 1 \in 1..j
        BY <1>5, <2>1
      <4> QED BY <4>1, <1>5, <2>2
    <3> QED BY <3>2, <3>3
  <2>3. ASSUME NEW i \in 1..j, q[i] \in DA, \A l \in (i + 1)..j : q[l] \notin DR
        PROVE  \/ known'[D] # None /\ \A l \in 1..(j - 1) : r[l] \notin DR
               \/ \E a \in 1..(j - 1) : r[a] \in DA /\ \A l \in (a + 1)..(j - 1) : r[l] \notin DR
    <3>1. ASSUME NEW l \in i..(j - 1) PROVE r[l] \notin DR
      <4>1. l \in DOMAIN r /\ l + 1 \in (i + 1)..j
        BY <1>5, <2>1
      <4> QED BY <4>1, <1>5, <2>3
    <3>2. CASE i = 1
      BY <3>1, <3>2, <2>3, <1>5, <1>10, <1>11
    <3>3. CASE i # 1
      <4>1. i \in DOMAIN q /\ i - 1 \in 1..(j - 1) /\ (i - 1) + 1 = i
        BY <3>3, <2>1, <1>5
      <4>2. r[i - 1] \in DA
        BY <4>1, <3>3, <2>3, <1>5
      <4> QED BY <4>1, <4>2, <3>1
    <3> QED BY <3>2, <3>3
  <2>4. \/ known[D] # None /\ \A l \in 1..j : q[l] \notin DR
        \/ \E i \in 1..j : q[i] \in DA /\ \A l \in (i + 1)..j : q[l] \notin DR
    BY <2>1, <1>9
  <2> QED BY <2>2, <2>3, <2>4
<1>13. ASSUME NEW i \in DOMAIN r, NEW j \in DOMAIN r, i < j, r[i] \in FA, r[j] \in DR
       PROVE  \E k \in DOMAIN r : i < k /\ r[k] \in FR
  <2>1. i + 1 \in DOMAIN q /\ j + 1 \in DOMAIN q /\ q[i + 1] \in FA /\ q[j + 1] \in DR /\ i + 1 < j + 1
        /\ i \in Nat /\ i > 0
    BY <1>5, <1>13
  <2>2. PICK k \in DOMAIN q : i + 1 < k /\ q[k] \in FR
    BY <2>1, <1>9
  <2>3. k # 1 /\ i < k - 1
    BY <2>1, <2>2, <1>5
  <2> QED BY <2>2, <2>3, <1>5
<1>14. ASSUME known'[F] # None
       PROVE  \/ \E k \in DOMAIN r : r[k] \in FR
              \/ F \in row' /\ \A j \in DOMAIN r : r[j] \notin DR
  <2>1. e \notin FR
    BY <1>11, <1>14
  <2>2. ASSUME NEW k \in DOMAIN q, q[k] \in FR PROVE k - 1 \in DOMAIN r /\ r[k - 1] \in FR
    BY <2>1, <2>2, <1>5
  <2>3. ASSUME NEW j \in DOMAIN r, r[j] \in DR, e \in FA PROVE \E k \in DOMAIN r : r[k] \in FR
    <3>1. j + 1 \in DOMAIN q /\ 1 < j + 1 /\ q[j + 1] \in DR /\ 1 \in DOMAIN q
      BY <2>3, <1>5
    <3>2. PICK k \in DOMAIN q : q[k] \in FR
      BY <3>1, <2>3, <1>5, <1>9
    <3> QED BY <3>2, <2>2
  <2>4. CASE e \in FA
    BY <2>3, <2>4, <1>11
  <2>5. CASE e \notin FA
    <3>1. known[F] # None
      BY <2>1, <2>5, <1>11, <1>14
    <3>2. CASE \E k \in DOMAIN q : q[k] \in FR
      BY <3>2, <2>2
    <3>3. CASE F \in row /\ \A j \in DOMAIN q : q[j] \notin DR
      <4>1. e \notin DR
        BY <3>3, <1>5
      <4> QED BY <4>1, <3>3, <2>1, <1>5, <1>11
    <3> QED BY <3>1, <3>2, <3>3, <1>9
  <2> QED BY <2>4, <2>5
<1>15. Orderly(n)' <=>
         /\ \A j \in DOMAIN r : r[j] \in FA =>
              \/ known'[D] # None /\ \A l \in 1..(j - 1) : r[l] \notin DR
              \/ \E i \in 1..(j - 1) : r[i] \in DA /\ \A l \in (i + 1)..(j - 1) : r[l] \notin DR
         /\ \A i, j \in DOMAIN r : i < j /\ r[i] \in FA /\ r[j] \in DR => \E k \in DOMAIN r : i < k /\ r[k] \in FR
         /\ known'[F] # None => \/ \E k \in DOMAIN r : r[k] \in FR
                                \/ F \in row' /\ \A j \in DOMAIN r : r[j] \notin DR
  BY <1>3, <1>6, <1>7 DEF Orderly, D, F, W!FileIn
<1> QED BY <1>12, <1>13, <1>14, <1>15

\* A directory of which no signal is left is where the signals told.
LEMMA PlaceIs ==
    ASSUME WatcherType, NEW v, Story(v), NEW k \in Steps, NEW i \in Inode, NEW n \in Name, v[k][i] = n,
           \A l \in k..Len(inotify) : ~Turns(inotify[l], i)
    PROVE  place[i] = n /\ W!DirAt(n) = {i} /\ W!TextAt(n) = file[i]
<1> DEFINE L == Len(inotify)
<1>1. inotify \in Seq(Caused) /\ L \in Nat /\ k \in 1..(L + 1)
  BY DEF WatcherType, Sound, Steps
<1>2. Told(v, inotify) /\ \A j \in Inode : v[L + 1][j] = Where(j)
  BY DEF Story
<1>3. L + 1 \in 1..(L + 1)
  BY <1>1
<1>4. v[k][i] = v[L + 1][i]
  BY <1>1, <1>2, ToldStays
<1>5. Apart(v[L + 1])
  BY <1>2, <1>3 DEF Told
<1>6. n # "gone" /\ place[i] = n
  BY <1>2, <1>4, TreesFit DEF Where
<1>7. \A j \in Inode : place[j] = n => j = i
  BY <1>2, <1>5, <1>6 DEF Apart, Where, W!InTree
<1>8. W!DirAt(n) = {i}
  BY <1>6, <1>7 DEF W!DirAt
<1>9. (CHOOSE j \in W!DirAt(n) : TRUE) = i
  BY <1>8
<1> QED BY <1>6, <1>8, <1>9 DEF W!TextAt

\* The servers' texts.
LEMMA TextsProcess ==
    ASSUME WatcherType, Listing, W!ProcessEvent, eventQueue # <<>>, NEW v, Story(v), Agrees(v),
           NEW n \in Name, Orderly(n), NEW i \in Inode, v[1][i] = n, ~Texts(i), file[i] # None
    PROVE  \/ known'[W!FileIn(n)] = file[i]
           \/ \E j \in DOMAIN eventQueue' : eventQueue'[j] \in FileWrites(n)
<1> DEFINE F == W!FileIn(n)
           Goal == known'[F] = file[i] \/ \E j \in DOMAIN eventQueue' : eventQueue'[j] \in FileWrites(n)
<1>1. PICK e : e = Head(eventQueue) /\ e = eventQueue[1]
  BY QueueLess
<1>2. W!ReadText(F) = file[i]
  <2>1. (\A k \in 1..Len(inotify) : ~Turns(inotify[k], i)) /\ 1 \in Steps
    BY DEF Texts, Steps, WatcherType
  <2>2. W!TextAt(n) = file[i]
    BY <2>1, PlaceIs
  <2>3. F[1] = n
    BY PathsDiffer
  <2> HIDE DEF F
  <2> QED BY <2>2, <2>3 DEF W!ReadText
<1>3. ASSUME NEW j \in DOMAIN eventQueue, eventQueue[j] \in FileWrites(n), j # 1 PROVE Goal
  BY <1>3, QueueLess
<1>4. WillHaveFile(n)
  BY DEF Agrees, AgreesOn, Pends, Texts, Fills
<1>5. FileAdds(n) \subseteq FileWrites(n) /\ FileWrites(n) \cap FileRemoves(n) = {}
  BY KindsDiffer
<1>6. ASSUME e \notin FileAdds(n), \/ known[F] = None \/ \E k \in DOMAIN eventQueue : eventQueue[k] \in FileRemoves(n)
      PROVE  Goal
  <2>1. PICK j \in DOMAIN eventQueue : eventQueue[j] \in FileAdds(n)
    BY <1>4, <1>6 DEF WillHaveFile, Ends
  <2>2. j # 1
    BY <2>1, <1>1, <1>6
  <2> HIDE DEF Goal
  <2> QED BY <2>1, <2>2, <1>3, <1>5
<1>7. known[F] = file[i] \/ \E j \in DOMAIN eventQueue : eventQueue[j] \in FileWrites(n)
  BY DEF Agrees, AgreesOn
<1>a. /\ known'[F] = file[i] => Goal
      /\ (\E j \in DOMAIN eventQueue' : eventQueue'[j] \in FileWrites(n)) => Goal
  OBVIOUS
<1> HIDE DEF Goal, F
<1>8. ASSUME e \in FileAdds(n) PROVE Goal
  <2>1. known'[F] = file[i]
    BY <1>1, <1>2, <1>8, AddHas DEF F
  <2> QED BY <2>1, <1>a
<1>9. ASSUME e \in FileWrites(n) \ FileAdds(n) PROVE Goal
  <2>1. known'[F] = IF F \in row /\ known[F] # None THEN file[i] ELSE known[F]
    BY <1>1, <1>2, <1>9, KnowsNow DEF F
  <2>2. CASE F \in row /\ known[F] # None
    BY <2>1, <2>2, <1>a
  <2>3. CASE known[F] = None
    BY <2>3, <1>6, <1>9
  <2>4. CASE F \notin row /\ known[F] # None
    <3>1. \E k \in DOMAIN eventQueue : eventQueue[k] \in FileRemoves(n)
      BY <2>4 DEF Orderly, F
    <3> QED BY <3>1, <1>6, <1>9
  <2> QED BY <2>2, <2>3, <2>4
<1>10. ASSUME e \in FileRemoves(n) PROVE Goal
  <2>1. 1 \in DOMAIN eventQueue
    BY QueueLess
  <2>2. e \notin FileAdds(n)
    BY <1>5, <1>10
  <2> QED BY <2>1, <2>2, <1>1, <1>6, <1>10
<1>11. ASSUME e \notin FileWrites(n) \cup FileRemoves(n) PROVE Goal
  <2>1. known'[F] = known[F]
    BY <1>1, <1>11, KnowsNow DEF F
  <2>2. CASE known[F] = file[i]
    BY <2>1, <2>2, <1>a
  <2>3. CASE \E j \in DOMAIN eventQueue : eventQueue[j] \in FileWrites(n)
    BY <2>3, <1>1, <1>3, <1>11
  <2> QED BY <2>2, <2>3, <1>7
<1>12. Goal
  BY <1>8, <1>9, <1>10, <1>11
<1> QED BY <1>12 DEF Goal, F

\* An event of the queue is applied.
LEMMA KnowingProcess ==
    ASSUME WatcherType, NEW v, Story(v), Knowing(v), W!ProcessEvent, eventQueue # <<>>
    PROVE  Knowing(v)'
<1>1. Listing /\ Listing'
  BY ListingProcess DEF Knowing
<1> SUFFICES ASSUME clean' PROVE FilesTold(v)' /\ Agrees(v)' /\ \A n \in Name : Orderly(n)'
  BY <1>1 DEF Knowing
<1>2. UNCHANGED <<place, file, inotify, snapshot, clean>>
  BY QueueLess
<1>3. FilesTold(v) /\ Agrees(v) /\ \A n \in Name : Orderly(n)
  BY <1>2 DEF Knowing
<1>4. FilesTold(v)'
  BY <1>2, <1>3 DEF FilesTold, Fills
<1>5. \A n \in Name : Orderly(n)'
  BY <1>1, <1>3, OrderlyProcess
<1>6. \A n \in Name : (WillHaveDir(n)' <=> WillHaveDir(n)) /\ (WillHaveFile(n)' <=> WillHaveFile(n))
  BY <1>1, <1>3, WillProcess
<1>7. \A i \in Inode : (Pends(i)' <=> Pends(i)) /\ (Texts(i)' <=> Texts(i))
  BY <1>2 DEF Pends, Texts, Turns, Fills
<1>8. ASSUME NEW i \in Inode, NEW n \in Name, v[1][i] = n, ~Texts(i), file[i] # None
      PROVE  \/ known'[W!FileIn(n)] = file[i]
             \/ \E j \in DOMAIN eventQueue' : eventQueue'[j] \in FileWrites(n)'
  <2>1. FileWrites(n)' = FileWrites(n)
    BY DEF FileWrites
  <2> QED BY <2>1, <1>1, <1>3, <1>8, TextsProcess
<1>9. Agrees(v)'
  <2>1. \A n \in Name : WillHaveDir(n)' <=> \E i \in Inode : v[1][i] = n
    BY <1>3, <1>6 DEF Agrees, AgreesOn
  <2>2. \A n \in Name : WillHaveFile(n)' => W!FileIn(n) \in snapshot' /\ WillHaveDir(n)'
    BY <1>2, <1>3, <1>6 DEF Agrees, AgreesOn
  <2>3. \A i \in Inode, n \in Name : v[1][i] = n /\ ~Pends(i)' => (WillHaveFile(n)' <=> file'[i] # None)
    BY <1>2, <1>3, <1>6, <1>7 DEF Agrees, AgreesOn
  <2>4. \A i \in Inode, n \in Name : v[1][i] = n /\ ~Texts(i)' /\ file'[i] # None =>
          \/ known'[W!FileIn(n)] = file'[i]
          \/ \E j \in DOMAIN eventQueue' : eventQueue'[j] \in FileWrites(n)'
    BY <1>2, <1>7, <1>8
  <2> QED BY <2>1, <2>2, <2>3, <2>4 DEF Agrees, AgreesOn
<1> QED BY <1>4, <1>5, <1>9

\* Does the event f undo what the event e is about?
Opposes(f, e) ==
    /\ W!IsPrefix(f.path, e.path) \/ W!IsPrefix(e.path, f.path)
    /\ IF e.type \in W!Removes THEN f.type \in W!Adds ELSE f.type \in W!Removes

\* Of the events ev the queue gets x, those it does not have, and if nothing
\* is missed no event that it has already was undone.
Pushes(ev, x) ==
    /\ x \in Seq(W!LocalEvent) /\ eventQueue' = eventQueue \o x /\ Gets(eventQueue, ev, x)
    /\ clean' => \A a \in DOMAIN ev, i \in DOMAIN eventQueue : eventQueue[i] = ev[a] =>
                    \A j \in (i + 1)..Len(eventQueue) : ~Opposes(eventQueue[j], ev[a])

\* What an action pushes.
LEMMA Pushed ==
    ASSUME WatcherType, NEW ev \in Seq(W!LocalEvent), NEW inTime, W!PushIf(ev, inTime)
    PROVE  (\E x : Pushes(ev, x)) /\ (clean' => clean /\ inTime)
<1>1. eventQueue \in Seq(W!LocalEvent) /\ W!IsInjective(eventQueue)
  BY DEF WatcherType, W!TypeOK
<1>2. /\ eventQueue' = W!Distinct(eventQueue \o ev)
      /\ clean' = (clean /\ inTime /\ \A e \in W!ToSet(ev) : ~W!Mistaken(eventQueue, e))
  BY DEF W!PushIf
<1>3. PICK x \in Seq(W!LocalEvent) : W!Distinct(eventQueue \o ev) = eventQueue \o x /\ Gets(eventQueue, ev, x)
  BY <1>1, QueueGets
<1>4. ASSUME clean', NEW a \in DOMAIN ev, NEW i \in DOMAIN eventQueue, eventQueue[i] = ev[a],
             NEW j \in (i + 1)..Len(eventQueue)
      PROVE  ~Opposes(eventQueue[j], ev[a])
  <2>1. ev[a] \in W!ToSet(ev)
    BY DEF W!ToSet
  <2>2. j \in DOMAIN eventQueue /\ i < j
    BY <1>1
  <2>3. ~W!Mistaken(eventQueue, ev[a])
    BY <1>2, <1>4, <2>1
  <2> QED BY <1>4, <2>2, <2>3 DEF W!Mistaken, Opposes
<1>5. Pushes(ev, x)
  BY <1>2, <1>3, <1>4 DEF Pushes
<1> QED BY <1>2, <1>5

\* The events that add a thing and those that remove it undo each other.
LEMMA KindsOppose ==
    ASSUME NEW n \in Name
    PROVE  /\ \A e \in DirAdds(n), f \in DirRemoves(n) : Opposes(e, f) /\ Opposes(f, e)
           /\ \A e \in FileAdds(n), f \in FileRemoves(n) : Opposes(e, f) /\ Opposes(f, e)
<1>1. W!IsPrefix(<<n>>, <<n>>) /\ W!IsPrefix(W!FileIn(n), W!FileIn(n))
  BY PathsDiffer
<1> QED BY <1>1 DEF Opposes, DirAdds, DirRemoves, FileAdds, FileRemoves, W!Adds, W!Removes

\* What is pushed adds a thing.
LEMMA PushAdds ==
    ASSUME WatcherType, NEW ev \in Seq(W!LocalEvent), NEW x, Pushes(ev, x), clean', NEW adds, NEW removes, NEW before,
           NEW e \in adds, \E a \in DOMAIN ev : ev[a] = e, \A a \in DOMAIN ev : ev[a] \notin removes,
           \A f \in removes : Opposes(f, e)
    PROVE  /\ Ends(eventQueue', adds, removes, before)
           /\ (\A k \in DOMAIN x : x[k] # e) => Ends(eventQueue, adds, removes, before)
<1>1. eventQueue \in Seq(W!LocalEvent) /\ x \in Seq(W!LocalEvent) /\ eventQueue' = eventQueue \o x
  BY DEF WatcherType, W!TypeOK, Pushes
<1>2. \A k \in DOMAIN x : x[k] \notin removes
  BY DEF Pushes, Gets
<1>3. \/ \E k \in DOMAIN x : x[k] = e
      \/ \E i \in DOMAIN eventQueue : eventQueue[i] = e
  BY DEF Pushes, Gets
<1>4. ASSUME NEW i \in DOMAIN eventQueue, eventQueue[i] = e, NEW j \in (i + 1)..Len(eventQueue)
      PROVE  eventQueue[j] \notin removes
  BY <1>4 DEF Pushes
<1>5. Ends(eventQueue \o x, adds, removes, before)
  BY <1>1, <1>2, <1>3, <1>4, EndsAdded
<1> QED BY <1>1, <1>3, <1>4, <1>5 DEF Ends

\* What is pushed removes a thing.
LEMMA PushRemoves ==
    ASSUME WatcherType, NEW ev \in Seq(W!LocalEvent), NEW x, Pushes(ev, x), clean', NEW adds, NEW removes, NEW before,
           NEW e \in removes, \E a \in DOMAIN ev : ev[a] = e, \A a \in DOMAIN ev : ev[a] \notin adds,
           \A f \in adds : Opposes(f, e), adds \cap removes = {}
    PROVE  /\ ~Ends(eventQueue', adds, removes, before)
           /\ \/ \E k \in DOMAIN x : x[k] \in removes
              \/ \E i \in DOMAIN eventQueue : /\ eventQueue[i] \in removes
                                              /\ \A j \in (i + 1)..Len(eventQueue) : eventQueue[j] \notin adds
<1>1. eventQueue \in Seq(W!LocalEvent) /\ x \in Seq(W!LocalEvent) /\ eventQueue' = eventQueue \o x
  BY DEF WatcherType, W!TypeOK, Pushes
<1>2. \A k \in DOMAIN x : x[k] \notin adds
  BY DEF Pushes, Gets
<1>3. \/ \E k \in DOMAIN x : x[k] = e
      \/ \E i \in DOMAIN eventQueue : eventQueue[i] = e
  BY DEF Pushes, Gets
<1>4. ASSUME NEW i \in DOMAIN eventQueue, eventQueue[i] = e, NEW j \in (i + 1)..Len(eventQueue)
      PROVE  eventQueue[j] \notin adds
  BY <1>4 DEF Pushes
<1>5. ~Ends(eventQueue \o x, adds, removes, before)
  BY <1>1, <1>2, <1>3, <1>4, EndsRemoved
<1> QED BY <1>1, <1>3, <1>4, <1>5

\* Events of other things change nothing.
LEMMA PushKeeps ==
    ASSUME WatcherType, NEW ev \in Seq(W!LocalEvent), NEW x, Pushes(ev, x), NEW adds, NEW removes, NEW before,
           \A a \in DOMAIN ev : ev[a] \notin adds \cup removes
    PROVE  Ends(eventQueue', adds, removes, before) <=> Ends(eventQueue, adds, removes, before)
<1>1. eventQueue \in Seq(W!LocalEvent) /\ x \in Seq(W!LocalEvent) /\ eventQueue' = eventQueue \o x
  BY DEF WatcherType, W!TypeOK, Pushes
<1>2. \A k \in DOMAIN x : x[k] \notin adds \cup removes
  BY DEF Pushes, Gets
<1> QED BY <1>1, <1>2, EndsKept

\* The queue with what was pushed.
LEMMA PushQueue ==
    ASSUME WatcherType, NEW ev \in Seq(W!LocalEvent), NEW x, Pushes(ev, x)
    PROVE  /\ DOMAIN eventQueue = 1..Len(eventQueue) /\ DOMAIN x = 1..Len(x)
           /\ Len(eventQueue) \in Nat /\ Len(x) \in Nat
           /\ DOMAIN eventQueue' = 1..(Len(eventQueue) + Len(x)) /\ Len(eventQueue') = Len(eventQueue) + Len(x)
           /\ \A k \in DOMAIN eventQueue : k \in DOMAIN eventQueue' /\ eventQueue'[k] = eventQueue[k]
           /\ \A k \in DOMAIN x : /\ Len(eventQueue) + k \in DOMAIN eventQueue'
                                 /\ eventQueue'[Len(eventQueue) + k] = x[k]
           /\ \A k \in DOMAIN eventQueue' :
                k \in DOMAIN eventQueue \/ (k > Len(eventQueue) /\ \E l \in DOMAIN x : k = Len(eventQueue) + l)
           /\ \A k \in DOMAIN eventQueue' : \/ \E l \in DOMAIN eventQueue : eventQueue'[k] = eventQueue[l]
                                            \/ \E l \in DOMAIN ev : eventQueue'[k] = ev[l]
           /\ \A a \in DOMAIN ev : \E k \in DOMAIN eventQueue' : eventQueue'[k] = ev[a]
<1>1. eventQueue \in Seq(W!LocalEvent) /\ x \in Seq(W!LocalEvent) /\ eventQueue' = eventQueue \o x
  BY DEF WatcherType, W!TypeOK, Pushes
<1> DEFINE r == eventQueue \o x
           q == eventQueue
<1>2. /\ DOMAIN q = 1..Len(q) /\ DOMAIN x = 1..Len(x) /\ Len(q) \in Nat /\ Len(x) \in Nat
      /\ r \in Seq(W!LocalEvent) /\ Len(r) = Len(q) + Len(x) /\ DOMAIN r = 1..(Len(q) + Len(x))
      /\ \A k \in DOMAIN q : r[k] = q[k]
      /\ \A k \in DOMAIN x : r[Len(q) + k] = x[k]
      /\ \A k \in DOMAIN r : k \in DOMAIN q \/ (k > Len(q) /\ \E l \in DOMAIN x : k = Len(q) + l)
  BY <1>1, Joined
<1>3. /\ \A k \in DOMAIN x : \E l \in DOMAIN ev : x[k] = ev[l]
      /\ \A a \in DOMAIN ev : (\E k \in DOMAIN x : x[k] = ev[a]) \/ \E k \in DOMAIN q : q[k] = ev[a]
  BY DEF Pushes, Gets
<1>4. r = eventQueue'
  BY <1>1
<1> HIDE DEF r
<1>5. /\ \A k \in DOMAIN q : k \in DOMAIN r /\ r[k] = q[k]
      /\ \A k \in DOMAIN x : Len(q) + k \in DOMAIN r /\ r[Len(q) + k] = x[k]
  BY <1>2
<1>6. \A k \in DOMAIN r : (\E l \in DOMAIN q : r[k] = q[l]) \/ \E l \in DOMAIN ev : r[k] = ev[l]
  BY <1>2, <1>3
<1>7. \A a \in DOMAIN ev : \E k \in DOMAIN r : r[k] = ev[a]
  BY <1>3, <1>5
<1> QED BY <1>2, <1>4, <1>5, <1>6, <1>7

\* The order of the events when some are pushed.
LEMMA OrderlyPush ==
    ASSUME WatcherType, NEW ev \in Seq(W!LocalEvent), NEW x, Pushes(ev, x), UNCHANGED <<known, row>>,
           NEW n \in Name, Orderly(n),
           \A k \in DOMAIN x : x[k] \in FileAdds(n) =>
              /\ \A l \in DOMAIN x : x[l] \notin DirRemoves(n)
              /\ WillHaveDir(n) \/ \E l \in DOMAIN x : l < k /\ x[l] \in DirAdds(n),
           (\E k \in DOMAIN x : x[k] \in DirRemoves(n)) =>
              \/ ~WillHaveFile(n)
              \/ \E k \in DOMAIN x : x[k] \in FileRemoves(n)
              \/ \E i \in DOMAIN eventQueue :
                   /\ eventQueue[i] \in FileRemoves(n)
                   /\ \A j \in (i + 1)..Len(eventQueue) : eventQueue[j] \notin FileAdds(n)
    PROVE  Orderly(n)'
<1> DEFINE D == <<n>>
           F == W!FileIn(n)
<1>1. PICK q : q = eventQueue
  OBVIOUS
<1>2. PICK r : r = eventQueue'
  OBVIOUS
<1>3. PICK m \in Nat : m = Len(q)
  BY <1>1, PushQueue
<1>4. PICK p \in Nat : p = Len(x)
  BY PushQueue
<1>5. /\ DOMAIN q = 1..m /\ DOMAIN x = 1..p /\ DOMAIN r = 1..(m + p)
      /\ \A k \in DOMAIN q : k \in DOMAIN r /\ r[k] = q[k]
      /\ \A k \in DOMAIN x : m + k \in DOMAIN r /\ r[m + k] = x[k]
      /\ \A k \in DOMAIN r : k \in DOMAIN q \/ (k > m /\ \E l \in DOMAIN x : k = m + l)
  <2> DEFINE a == Len(eventQueue)
             b == Len(x)
  <2>1. /\ DOMAIN eventQueue = 1..a /\ DOMAIN x = 1..b /\ DOMAIN eventQueue' = 1..(a + b)
        /\ \A k \in DOMAIN eventQueue : k \in DOMAIN eventQueue' /\ eventQueue'[k] = eventQueue[k]
        /\ \A k \in DOMAIN x : a + k \in DOMAIN eventQueue' /\ eventQueue'[a + k] = x[k]
        /\ \A k \in DOMAIN eventQueue' : k \in DOMAIN eventQueue \/ (k > a /\ \E l \in DOMAIN x : k = a + l)
    BY PushQueue
  <2>2. a = m /\ b = p
    BY <1>1, <1>3, <1>4
  <2> HIDE DEF a, b
  <2> QED BY <2>1, <2>2, <1>1, <1>2
<1>6. /\ DirAdds(n)' = DirAdds(n) /\ DirRemoves(n)' = DirRemoves(n)
      /\ FileAdds(n)' = FileAdds(n) /\ FileRemoves(n)' = FileRemoves(n)
  BY DEF DirAdds, DirRemoves, FileAdds, FileRemoves
<1>7. PICK DA, DR, FA, FR : DA = DirAdds(n) /\ DR = DirRemoves(n) /\ FA = FileAdds(n) /\ FR = FileRemoves(n)
  OBVIOUS
<1>9. /\ \A j \in DOMAIN q : q[j] \in FA =>
           \/ known[D] # None /\ \A l \in 1..(j - 1) : q[l] \notin DR
           \/ \E i \in 1..(j - 1) : q[i] \in DA /\ \A l \in (i + 1)..(j - 1) : q[l] \notin DR
      /\ \A i, j \in DOMAIN q : i < j /\ q[i] \in FA /\ q[j] \in DR => \E k \in DOMAIN q : i < k /\ q[k] \in FR
      /\ known[F] # None => \/ \E k \in DOMAIN q : q[k] \in FR
                            \/ F \in row /\ \A j \in DOMAIN q : q[j] \notin DR
  BY <1>1, <1>7 DEF Orderly
<1>10. \A k \in DOMAIN x : x[k] \in FA =>
              /\ \A l \in DOMAIN x : x[l] \notin DR
              /\ \/ \E i \in DOMAIN q : q[i] \in DA /\ \A j \in (i + 1)..m : q[j] \notin DR
                 \/ known[D] # None /\ \A j \in DOMAIN q : q[j] \notin DR
                 \/ \E l \in DOMAIN x : l < k /\ x[l] \in DA
  BY <1>1, <1>3, <1>7 DEF WillHaveDir, Ends
<1>11. ASSUME NEW d \in DOMAIN x, x[d] \in DR
       PROVE  /\ known[F] # None => (\E k \in DOMAIN q : q[k] \in FR) \/ \E k \in DOMAIN x : x[k] \in FR
              /\ \A i \in DOMAIN q : q[i] \in FA =>
                   (\E k \in DOMAIN q : i < k /\ q[k] \in FR) \/ \E k \in DOMAIN x : x[k] \in FR
  <2>1. CASE ~WillHaveFile(n)
    <3>1. /\ \A i \in DOMAIN q : q[i] \in FA => \E j \in (i + 1)..m : q[j] \in FR
          /\ known[F] # None => \E j \in DOMAIN q : q[j] \in FR
      BY <2>1, <1>1, <1>3, <1>7 DEF WillHaveFile, Ends
    <3>2. \A i \in DOMAIN q : \A j \in (i + 1)..m : j \in DOMAIN q /\ i < j
      BY <1>5
    <3> QED BY <3>1, <3>2
  <2>2. CASE \E k \in DOMAIN x : x[k] \in FR
    BY <2>2
  <2>3. ASSUME NEW i \in DOMAIN q, q[i] \in FR, \A j \in (i + 1)..m : q[j] \notin FA
        PROVE  \A j \in DOMAIN q : q[j] \in FA => j < i
    <3>1. FA \cap FR = {}
      BY <1>7, KindsDiffer
    <3>2. ASSUME NEW j \in DOMAIN q, q[j] \in FA, ~(j < i) PROVE FALSE
      <4>1. j # i
        BY <3>1, <3>2, <2>3
      <4>2. j \in (i + 1)..m
        BY <4>1, <3>2, <1>5
      <4> QED BY <4>2, <3>2, <2>3
    <3> QED BY <3>2
  <2> QED BY <2>1, <2>2, <2>3, <1>1, <1>3, <1>7, <1>11
<1> HIDE DEF D, F
<1>12. ASSUME NEW j \in DOMAIN r, r[j] \in FA
       PROVE  \/ known[D] # None /\ \A l \in 1..(j - 1) : r[l] \notin DR
              \/ \E i \in 1..(j - 1) : r[i] \in DA /\ \A l \in (i + 1)..(j - 1) : r[l] \notin DR
  <2>1. CASE j \in DOMAIN q
    <3>1. q[j] \in FA /\ j \in Nat /\ j > 0
      BY <2>1, <1>5, <1>12
    <3>2. \A l \in 1..(j - 1) : l \in DOMAIN q /\ r[l] = q[l]
      BY <2>1, <1>5
    <3>3. CASE known[D] # None /\ \A l \in 1..(j - 1) : q[l] \notin DR
      BY <3>2, <3>3
    <3>4. ASSUME NEW i \in 1..(j - 1), q[i] \in DA, \A l \in (i + 1)..(j - 1) : q[l] \notin DR
          PROVE  r[i] \in DA /\ \A l \in (i + 1)..(j - 1) : r[l] \notin DR
      <4>1. \A l \in (i + 1)..(j - 1) : l \in 1..(j - 1)
        BY <3>1
      <4> QED BY <4>1, <3>2, <3>4
    <3> QED BY <2>1, <3>1, <3>3, <3>4, <1>9
  <2>2. ASSUME NEW k \in DOMAIN x, j = m + k
        PROVE  \/ known[D] # None /\ \A l \in 1..(j - 1) : r[l] \notin DR
               \/ \E i \in 1..(j - 1) : r[i] \in DA /\ \A l \in (i + 1)..(j - 1) : r[l] \notin DR
    <3>1. x[k] \in FA /\ j \in Nat /\ j > 0
      BY <2>2, <1>5, <1>12
    <3>2. ASSUME NEW l \in 1..(j - 1), l \notin DOMAIN q PROVE r[l] \notin DR
      <4>1. l \in DOMAIN r
        BY <1>5, <2>2, <3>1
      <4>2. PICK a \in DOMAIN x : l = m + a
        BY <4>1, <3>2, <1>5
      <4> QED BY <4>2, <3>1, <1>5, <1>10
    <3>3. CASE known[D] # None /\ \A l \in DOMAIN q : q[l] \notin DR
      BY <3>2, <3>3, <1>5
    <3>4. ASSUME NEW i \in DOMAIN q, q[i] \in DA, \A l \in (i + 1)..m : q[l] \notin DR
          PROVE  i \in 1..(j - 1) /\ r[i] \in DA /\ \A l \in (i + 1)..(j - 1) : r[l] \notin DR
      <4>1. i \in 1..(j - 1) /\ r[i] \in DA
        BY <2>2, <3>4, <1>5
      <4>2. ASSUME NEW l \in (i + 1)..(j - 1) PROVE r[l] \notin DR
        <5>1. l \in 1..(j - 1) /\ (l \in DOMAIN q => l \in (i + 1)..m)
          BY <4>1, <1>5
        <5> QED BY <5>1, <3>2, <3>4, <1>5
      <4> QED BY <4>1, <4>2
    <3>5. ASSUME NEW a \in DOMAIN x, a < k, x[a] \in DA
          PROVE  m + a \in 1..(j - 1) /\ r[m + a] \in DA /\ \A l \in (m + a + 1)..(j - 1) : r[l] \notin DR
      <4>1. m + a \in 1..(j - 1) /\ r[m + a] \in DA
        BY <2>2, <3>5, <1>5
      <4>2. \A l \in (m + a + 1)..(j - 1) : l \in 1..(j - 1) /\ l \notin DOMAIN q
        BY <1>5
      <4> QED BY <4>1, <4>2, <3>2
    <3> QED BY <3>1, <3>3, <3>4, <3>5, <1>10
  <2> QED BY <2>1, <2>2, <1>5
<1>13. ASSUME NEW i \in DOMAIN r, NEW j \in DOMAIN r, i < j, r[i] \in FA, r[j] \in DR
       PROVE  \E k \in DOMAIN r : i < k /\ r[k] \in FR
  <2>1. CASE j \in DOMAIN q
    <3>1. i \in DOMAIN q
      BY <2>1, <1>5, <1>13
    <3>2. PICK k \in DOMAIN q : i < k /\ q[k] \in FR
      BY <2>1, <3>1, <1>5, <1>9, <1>13
    <3> QED BY <3>2, <1>5
  <2>2. ASSUME NEW a \in DOMAIN x, j = m + a PROVE \E k \in DOMAIN r : i < k /\ r[k] \in FR
    <3>1. x[a] \in DR
      BY <2>2, <1>5, <1>13
    <3>2. i \in DOMAIN q /\ q[i] \in FA
      <4>1. \A l \in DOMAIN x : x[l] \notin FA
        BY <3>1, <1>10
      <4> QED BY <4>1, <1>5, <1>13
    <3>3. CASE \E k \in DOMAIN q : i < k /\ q[k] \in FR
      BY <3>3, <1>5
    <3>4. ASSUME NEW k \in DOMAIN x, x[k] \in FR PROVE i < m + k
      BY <3>2, <1>5
    <3> QED BY <3>1, <3>2, <3>3, <3>4, <1>5, <1>11
  <2> QED BY <2>1, <2>2, <1>5
<1>14. ASSUME known[F] # None
       PROVE  \/ \E k \in DOMAIN r : r[k] \in FR
              \/ F \in row /\ \A j \in DOMAIN r : r[j] \notin DR
  <2>1. CASE \E k \in DOMAIN q : q[k] \in FR
    BY <2>1, <1>5
  <2>2. CASE \E k \in DOMAIN x : x[k] \in FR
    BY <2>2, <1>5
  <2>3. CASE F \in row /\ (\A j \in DOMAIN q : q[j] \notin DR) /\ \A k \in DOMAIN x : x[k] \notin DR
    BY <2>3, <1>5
  <2> QED BY <2>1, <2>2, <2>3, <1>9, <1>11, <1>14
<1>15. Orderly(n)' <=>
         /\ \A j \in DOMAIN r : r[j] \in FA =>
              \/ known[D] # None /\ \A l \in 1..(j - 1) : r[l] \notin DR
              \/ \E i \in 1..(j - 1) : r[i] \in DA /\ \A l \in (i + 1)..(j - 1) : r[l] \notin DR
         /\ \A i, j \in DOMAIN r : i < j /\ r[i] \in FA /\ r[j] \in DR => \E k \in DOMAIN r : i < k /\ r[k] \in FR
         /\ known[F] # None => \/ \E k \in DOMAIN r : r[k] \in FR
                               \/ F \in row /\ \A j \in DOMAIN r : r[j] \notin DR
  BY <1>2, <1>6, <1>7 DEF Orderly, D, F, W!FileIn
<1> QED BY <1>12, <1>13, <1>14, <1>15

\* What is pushed of other names leaves what the servers will have;
\* additions of a name without removals, or removals without additions, decide
\* what they will have of it.
LEMMA WillPush ==
    ASSUME WatcherType, NEW ev \in Seq(W!LocalEvent), NEW x, Pushes(ev, x), UNCHANGED known,
           NEW n \in Name
    PROVE  /\ (\A a \in DOMAIN ev : ev[a] \notin DirAdds(n) \cup DirRemoves(n)) =>
                 (WillHaveDir(n)' <=> WillHaveDir(n))
           /\ (\A a \in DOMAIN ev : ev[a] \notin FileAdds(n) \cup FileRemoves(n)) =>
                 (WillHaveFile(n)' <=> WillHaveFile(n))
           /\ (\E a \in DOMAIN ev : ev[a] \in DirAdds(n))
              /\ (\A a \in DOMAIN ev : ev[a] \notin DirRemoves(n)) /\ clean' =>
                 WillHaveDir(n)' /\ (WillHaveDir(n) \/ \E k \in DOMAIN x : x[k] \in DirAdds(n))
           /\ (\E a \in DOMAIN ev : ev[a] \in DirRemoves(n))
              /\ (\A a \in DOMAIN ev : ev[a] \notin DirAdds(n)) /\ clean' =>
                 ~WillHaveDir(n)'
           /\ (\E a \in DOMAIN ev : ev[a] \in FileAdds(n))
              /\ (\A a \in DOMAIN ev : ev[a] \notin FileRemoves(n)) /\ clean' =>
                 WillHaveFile(n)'
           /\ (\E a \in DOMAIN ev : ev[a] \in FileRemoves(n))
              /\ (\A a \in DOMAIN ev : ev[a] \notin FileAdds(n)) /\ clean' =>
                 /\ ~WillHaveFile(n)'
                 /\ \/ \E k \in DOMAIN x : x[k] \in FileRemoves(n)
                    \/ \E i \in DOMAIN eventQueue :
                         /\ eventQueue[i] \in FileRemoves(n)
                         /\ \A j \in (i + 1)..Len(eventQueue) : eventQueue[j] \notin FileAdds(n)
<1>1. PICK DA, DR, FA, FR : DA = DirAdds(n) /\ DR = DirRemoves(n) /\ FA = FileAdds(n) /\ FR = FileRemoves(n)
  OBVIOUS
<1>2. DA \cap DR = {} /\ FA \cap FR = {}
  BY <1>1, KindsDiffer
<1>3. PICK dir, txt : dir = (known[<<n>>] # None) /\ txt = (known[W!FileIn(n)] # None)
  OBVIOUS
<1>4. /\ WillHaveDir(n) <=> Ends(eventQueue, DA, DR, dir)
      /\ WillHaveFile(n) <=> Ends(eventQueue, FA, FR, txt)
  BY <1>1, <1>3 DEF WillHaveDir, WillHaveFile
<1>5. /\ WillHaveDir(n)' <=> Ends(eventQueue', DA, DR, dir)
      /\ WillHaveFile(n)' <=> Ends(eventQueue', FA, FR, txt)
  <2>1. /\ DirAdds(n)' = DirAdds(n) /\ DirRemoves(n)' = DirRemoves(n)
        /\ FileAdds(n)' = FileAdds(n) /\ FileRemoves(n)' = FileRemoves(n)
    BY DEF DirAdds, DirRemoves, FileAdds, FileRemoves
  <2> QED BY <2>1, <1>1, <1>3 DEF WillHaveDir, WillHaveFile, Ends, W!FileIn
<1>6. /\ \A e \in DA, f \in DR : Opposes(e, f) /\ Opposes(f, e)
      /\ \A e \in FA, f \in FR : Opposes(e, f) /\ Opposes(f, e)
  BY <1>1, KindsOppose
<1>7. (\A a \in DOMAIN ev : ev[a] \notin DA \cup DR) => (WillHaveDir(n)' <=> WillHaveDir(n))
  BY <1>4, <1>5, PushKeeps
<1>8. (\A a \in DOMAIN ev : ev[a] \notin FA \cup FR) => (WillHaveFile(n)' <=> WillHaveFile(n))
  BY <1>4, <1>5, PushKeeps
<1>9. ASSUME NEW a \in DOMAIN ev, ev[a] \in DA, \A b \in DOMAIN ev : ev[b] \notin DR, clean'
      PROVE  WillHaveDir(n)' /\ (WillHaveDir(n) \/ \E k \in DOMAIN x : x[k] \in DA)
  <2>1. (\E b \in DOMAIN ev : ev[b] = ev[a]) /\ \A f \in DR : Opposes(f, ev[a])
    BY <1>6, <1>9
  <2>2. Ends(eventQueue', DA, DR, dir) /\ ((\A k \in DOMAIN x : x[k] # ev[a]) => Ends(eventQueue, DA, DR, dir))
    BY <2>1, <1>9, PushAdds
  <2> QED BY <2>2, <1>4, <1>5, <1>9
<1>10. ASSUME NEW a \in DOMAIN ev, ev[a] \in DR, \A b \in DOMAIN ev : ev[b] \notin DA, clean' PROVE ~WillHaveDir(n)'
  <2>1. ~Ends(eventQueue', DA, DR, dir)
    BY <1>2, <1>6, <1>10, PushRemoves
  <2> QED BY <2>1, <1>5
<1>11. ASSUME NEW a \in DOMAIN ev, ev[a] \in FA, \A b \in DOMAIN ev : ev[b] \notin FR, clean' PROVE WillHaveFile(n)'
  <2>1. (\E b \in DOMAIN ev : ev[b] = ev[a]) /\ \A f \in FR : Opposes(f, ev[a])
    BY <1>6, <1>11
  <2>2. Ends(eventQueue', FA, FR, txt)
    BY <2>1, <1>11, PushAdds
  <2> QED BY <2>2, <1>5
<1>12. ASSUME NEW a \in DOMAIN ev, ev[a] \in FR, \A b \in DOMAIN ev : ev[b] \notin FA, clean'
       PROVE  /\ ~WillHaveFile(n)'
              /\ \/ \E k \in DOMAIN x : x[k] \in FR
                 \/ \E i \in DOMAIN eventQueue :
                      eventQueue[i] \in FR /\ \A j \in (i + 1)..Len(eventQueue) : eventQueue[j] \notin FA
  <2>1. /\ ~Ends(eventQueue', FA, FR, txt)
        /\ \/ \E k \in DOMAIN x : x[k] \in FR
           \/ \E i \in DOMAIN eventQueue :
                eventQueue[i] \in FR /\ \A j \in (i + 1)..Len(eventQueue) : eventQueue[j] \notin FA
    BY <1>2, <1>6, <1>12, PushRemoves
  <2> QED BY <2>1, <1>5
<1> QED BY <1>1, <1>7, <1>8, <1>9, <1>10, <1>11, <1>12

\* The signal that the watcher handles, and those that are left.
LEMMA SignalLess ==
    ASSUME WatcherType, NEW v, Story(v), W!Handle, NEW s, s = inotify[1]
    PROVE  /\ UNCHANGED <<place, file, row, known, draining>>
           /\ \/ W!HandleFile(s) \/ W!HandleNewDir(s) \/ W!HandleDeletedDir(s)
              \/ W!HandleMovedFrom(s) \/ W!HandleMovedTo(s)
           /\ s \in Sound /\ s.dir \in Inode /\ (s.wd = "root" => s.name \in Name /\ s.name # "gone")
           /\ Tells(s, v[1], v[2]) /\ v[1] \in Placing /\ v[2] \in Placing /\ Apart(v[1]) /\ Apart(v[2])
           /\ 1 \in Steps /\ 2 \in Steps /\ 1 \in 1..Len(inotify)
           /\ \A k \in 1..Len(inotify') : k \in Nat /\ k + 1 \in 1..Len(inotify) /\ inotify'[k] = inotify[k + 1]
           /\ \A k \in 1..Len(inotify) : k = 1 \/ (k - 1 \in 1..Len(inotify') /\ inotify'[k - 1] = inotify[k])
           /\ Len(inotify) \in Nat /\ Len(inotify') = Len(inotify) - 1
<1> DEFINE L == Len(inotify)
           r == Tail(inotify)
<1>1. inotify \in Seq(Sound) /\ inotify # <<>> /\ inotify' = r
  BY DEF WatcherType, W!Handle
<1>2. /\ s \in Sound /\ L \in Nat /\ L > 0 /\ Head(inotify) = s /\ r \in Seq(Sound) /\ Len(r) = L - 1
      /\ \A k \in 1..(L - 1) : r[k] = inotify[k + 1]
  <2>1. Head(inotify) = inotify[1]
    BY <1>1
  <2> QED BY <1>1, <2>1
<1> HIDE DEF r, L
<1>3. /\ UNCHANGED <<place, file, row, known, draining>>
      /\ \/ W!HandleFile(s) \/ W!HandleNewDir(s) \/ W!HandleDeletedDir(s)
         \/ W!HandleMovedFrom(s) \/ W!HandleMovedTo(s)
  BY <1>2 DEF W!Handle, W!tree, W!sync
<1>4. s.dir \in Inode /\ (s.wd = "root" => s.name \in Name /\ s.name # "gone")
  BY <1>2, TreesFit DEF Sound, Caused, W!Signal
<1>5. 1 \in 1..L /\ 1 \in 1..(L + 1) /\ 2 \in 1..(L + 1) /\ 1 + 1 = 2 /\ {1, 2} \subseteq Nat
  BY <1>2
<1>6. Tells(s, v[1], v[2]) /\ v[1] \in Placing /\ v[2] \in Placing /\ Apart(v[1]) /\ Apart(v[2])
  <2>1. Told(v, inotify)
    BY DEF Story
  <2>2. v \in [Nat -> Placing] /\ Apart(v[1]) /\ Apart(v[2])
    BY <2>1, <1>5 DEF Told, L
  <2>3. Tells(inotify[1], v[1], v[1 + 1])
    BY <2>1, <1>5 DEF Told, L
  <2> QED BY <2>2, <2>3, <1>5
<1>7. /\ \A k \in 1..(L - 1) : k \in Nat /\ k + 1 \in 1..L
      /\ \A k \in 1..L : k = 1 \/ (k - 1 \in 1..(L - 1) /\ (k - 1) + 1 = k)
  BY <1>2
<1>8. \A k \in 1..L : k = 1 \/ (k - 1 \in 1..(L - 1) /\ r[k - 1] = inotify[k])
  BY <1>2, <1>7
<1> QED BY <1>1, <1>2, <1>3, <1>4, <1>5, <1>6, <1>7, <1>8 DEF L, Steps

\* What is still to be told of a directory.
LEMMA PendsLess ==
    ASSUME WatcherType, NEW v, Story(v), W!Handle, NEW s, s = inotify[1], NEW i \in Inode
    PROVE  /\ ~Pends(i)' => \A k \in 2..Len(inotify) : ~Turns(inotify[k], i) /\ ~Fills(inotify[k], i)
           /\ ~Texts(i)' => \A k \in 2..Len(inotify) : ~Turns(inotify[k], i) /\ inotify[k].wd # i
           /\ ~Pends(i)' /\ ~Turns(s, i) /\ ~Fills(s, i) => ~Pends(i)
           /\ ~Texts(i)' /\ ~Turns(s, i) /\ s.wd # i => ~Texts(i)
           /\ ~Texts(i)' => ~Pends(i)'
<1>1. ASSUME NEW k \in 1..Len(inotify), k # 1
      PROVE  k - 1 \in 1..Len(inotify') /\ inotify'[k - 1] = inotify[k]
  BY <1>1, SignalLess
<1>2. \A k \in 2..Len(inotify) : k \in 1..Len(inotify) /\ k # 1
  BY SignalLess
<1>3. ASSUME NEW k \in 1..Len(inotify), k # 1
      PROVE  /\ ~Pends(i)' => ~Turns(inotify[k], i) /\ ~Fills(inotify[k], i)
             /\ ~Texts(i)' => ~Turns(inotify[k], i) /\ inotify[k].wd # i
  BY <1>1, <1>3 DEF Pends, Texts, Turns, Fills
<1>4. ~Texts(i)' => ~Pends(i)'
  BY DEF Texts, Pends, Fills
<1> QED BY <1>2, <1>3, <1>4 DEF Pends, Texts

\* What the signals that are left tell of the files.
LEMMA FilesToldLess ==
    ASSUME WatcherType, NEW v, Story(v), FilesTold(v), W!Handle, NEW w, Goes(w, v)
    PROVE  FilesTold(w)'
<1>1. PICK s : s = inotify[1]
  OBVIOUS
<1>2. /\ file' = file /\ Len(inotify) \in Nat /\ Len(inotify') = Len(inotify) - 1
      /\ \A k \in 1..Len(inotify') : k \in Nat /\ k + 1 \in 1..Len(inotify) /\ inotify'[k] = inotify[k + 1]
      /\ \A k \in 1..Len(inotify) : k = 1 \/ (k - 1 \in 1..Len(inotify') /\ inotify'[k - 1] = inotify[k])
  BY <1>1, SignalLess
<1>3. ASSUME NEW k \in 1..Len(inotify'), NEW i \in Inode, inotify'[k].wd = i PROVE w[k][i] # "gone"
  <2>1. k + 1 \in 1..Len(inotify) /\ inotify[k + 1].wd = i
    BY <1>2, <1>3
  <2>2. v[k + 1][i] # "gone"
    BY <2>1 DEF FilesTold
  <2>3. w[k] = v[k + 1]
    BY <1>2 DEF Goes
  <2> QED BY <2>2, <2>3
<1>4. ASSUME NEW i \in Inode, NEW k \in 1..Len(inotify'), Fills(inotify'[k], i),
             \A l \in (k + 1)..Len(inotify') : ~Fills(inotify'[l], i)
      PROVE  file'[i] # None <=> inotify'[k].mask \in {"create", "to"}
  <2>1. k + 1 \in 1..Len(inotify) /\ inotify'[k] = inotify[k + 1] /\ k \in Nat
    BY <1>2
  <2>2. ASSUME NEW l \in (k + 1 + 1)..Len(inotify) PROVE ~Fills(inotify[l], i)
    <3>1. l \in 1..Len(inotify) /\ l # 1 /\ l - 1 \in (k + 1)..Len(inotify')
      BY <2>1, <1>2
    <3> QED BY <3>1, <1>2, <1>4
  <2> QED BY <2>1, <2>2, <1>2, <1>4 DEF FilesTold
<1> QED BY <1>3, <1>4 DEF FilesTold, Fills

\* Another directory's signal changes nothing for a name.
LEMMA AgreesPush ==
    ASSUME WatcherType, NEW v, Story(v), W!Handle, NEW s, s = inotify[1],
           NEW ev \in Seq(W!LocalEvent), NEW x, Pushes(ev, x), NEW n \in Name,
           AgreesOn(v[1], n), Orderly(n),
           \A a \in DOMAIN ev : ev[a] \notin DirAdds(n) \cup DirRemoves(n) \cup FileAdds(n) \cup FileRemoves(n),
           \A i \in Inode : v[2][i] = n <=> v[1][i] = n,
           \A i \in Inode : v[2][i] = n => ~Turns(s, i) /\ s.wd # i,
           W!FileIn(n) \in snapshot => W!FileIn(n) \in snapshot'
    PROVE  AgreesOn(v[2], n)' /\ Orderly(n)'
<1>0. PICK y : y = v[2]
  OBVIOUS
<1>1. UNCHANGED <<file, known, row>>
  BY SignalLess
<1>2. (WillHaveDir(n)' <=> WillHaveDir(n)) /\ (WillHaveFile(n)' <=> WillHaveFile(n))
  BY <1>1, WillPush
<1>3. \A i \in Inode : y[i] = n => (~Pends(i)' => ~Pends(i)) /\ (~Texts(i)' => ~Texts(i))
  BY <1>0, PendsLess DEF Fills
<1>4. ASSUME NEW j \in DOMAIN eventQueue, eventQueue[j] \in FileWrites(n)
      PROVE  \E k \in DOMAIN eventQueue' : eventQueue'[k] \in FileWrites(n)'
  <2>1. FileWrites(n)' = FileWrites(n)
    BY DEF FileWrites
  <2>2. j \in DOMAIN eventQueue' /\ eventQueue'[j] = eventQueue[j]
    BY PushQueue
  <2> QED BY <2>1, <2>2, <1>4
<1>5. AgreesOn(y, n)'
  <2>1. WillHaveDir(n)' <=> \E i \in Inode : y[i] = n
    BY <1>0, <1>2 DEF AgreesOn
  <2>2. WillHaveFile(n)' => W!FileIn(n) \in snapshot' /\ WillHaveDir(n)'
    BY <1>2 DEF AgreesOn
  <2>3. \A i \in Inode : y[i] = n /\ ~Pends(i)' => (WillHaveFile(n)' <=> file'[i] # None)
    BY <1>0, <1>1, <1>2, <1>3 DEF AgreesOn
  <2>4. \A i \in Inode : y[i] = n /\ ~Texts(i)' /\ file'[i] # None =>
          \/ known'[W!FileIn(n)] = file'[i]
          \/ \E j \in DOMAIN eventQueue' : eventQueue'[j] \in FileWrites(n)'
    BY <1>0, <1>1, <1>3, <1>4 DEF AgreesOn
  <2> QED BY <2>1, <2>2, <2>3, <2>4 DEF AgreesOn, W!FileIn
<1>6. \A k \in DOMAIN x : x[k] \notin FileAdds(n) \cup DirRemoves(n)
  BY DEF Pushes, Gets
<1>7. Orderly(n)'
  BY <1>1, <1>6, OrderlyPush
<1> QED BY <1>0, <1>5, <1>7

\* An event is about one name, and about a directory or a file.
LEMMA EventsDiffer ==
    ASSUME NEW m \in Name, NEW n \in Name, NEW e
    PROVE  /\ e.path = W!FileIn(m) => /\ e \notin DirAdds(n) \cup DirRemoves(n)
                                      /\ e \in FileAdds(n) \cup FileRemoves(n) => n = m
           /\ e.path = <<m>> => /\ e \notin FileAdds(n) \cup FileRemoves(n)
                                /\ e \in DirAdds(n) \cup DirRemoves(n) => n = m
<1>1. <<n>> # W!FileIn(m) /\ <<m>> # W!FileIn(n)
  BY PathsDiffer
<1>2. (W!FileIn(m) = W!FileIn(n) => n = m) /\ (<<m>> = <<n>> => n = m)
  BY PathsDiffer
<1> QED BY <1>1, <1>2 DEF DirAdds, DirRemoves, FileAdds, FileRemoves

\* A signal about a file is handled.
LEMMA KnowingFile ==
    ASSUME WatcherType, NEW v, Story(v), Knowing(v), W!Handle, NEW s, s = inotify[1], W!HandleFile(s), clean',
           NEW n \in Name
    PROVE  AgreesOn(v[2], n)' /\ Orderly(n)'
<1>1. PICK m, F : m = path[s.wd] /\ F = W!FileIn(m)
  OBVIOUS
<1>2. PICK type :
        /\ W!PushIf(<<W!Ev(type, F, "file")>>, TRUE)
        /\ \/ s.mask \in {"create", "to"} /\ type \in W!Adds /\ snapshot' = snapshot \cup {F}
           \/ s.mask \in {"delete", "from"} /\ type \in W!Removes /\ snapshot' = snapshot \ {F}
           \/ s.mask = "modify" /\ type = "Modified" /\ snapshot' = snapshot
  BY <1>1 DEF W!HandleFile, W!Push, W!Adds, W!Removes
<1>3. PICK e : e = W!Ev(type, F, "file")
  OBVIOUS
<1>4. s \in Sound /\ s.wd # "root" /\ Tells(s, v[1], v[2]) /\ Apart(v[1]) /\ v[1] \in Placing
      /\ 1 \in 1..Len(inotify) /\ UNCHANGED <<file, known, row>>
  BY SignalLess DEF W!HandleFile
<1>5. s.wd \in Inode /\ m \in Name
  BY <1>1, <1>4 DEF Sound, Caused, W!Signal
<1>6. e \in W!LocalEvent /\ e.type = type /\ e.path = F /\ e.kind = "file"
  <2>1. F \in W!Path
    BY <1>1, <1>5, PathType
  <2> QED BY <2>1, <1>2, <1>3 DEF W!Ev, W!LocalEvent, W!Adds, W!Removes
<1>7. PICK ev : ev = <<e>>
  OBVIOUS
<1>8. ev \in Seq(W!LocalEvent) /\ DOMAIN ev = {1} /\ ev[1] = e /\ W!PushIf(ev, TRUE)
  <2>1. ev \in Seq(W!LocalEvent) /\ ev[1] = e /\ Len(ev) = 1
    BY <1>6, <1>7
  <2>2. DOMAIN ev = {1}
    BY <1>7
  <2>3. ev = <<W!Ev(type, F, "file")>>
    BY <1>3, <1>7
  <2>4. W!PushIf(ev, TRUE)
    BY <1>2, <2>3
  <2> QED BY <2>1, <2>2, <2>4
<1>9. (\E x : Pushes(ev, x)) /\ clean
  <2>1. (\E x : Pushes(ev, x)) /\ (clean' => clean /\ TRUE)
    BY <1>8, Pushed
  <2> QED BY <2>1
<1>10. PICK x : Pushes(ev, x)
  BY <1>9
<1>11. FilesTold(v) /\ \A a \in Name : AgreesOn(v[1], a) /\ Orderly(a)
  BY <1>9 DEF Knowing, Agrees
<1>12. v[1][s.wd] = m
  <2>1. v[1][s.wd] # "gone"
    BY <1>4, <1>5, <1>11 DEF FilesTold
  <2>2. s.wd \in Heeded
    BY <1>4, <1>5 DEF Heeded
  <2> QED BY <2>1, <2>2, <1>1, <1>9 DEF Story
<1>13. v[2] = v[1]
  BY <1>4 DEF Tells
<1>14. \A a \in Name : e \notin DirAdds(a) \cup DirRemoves(a) /\ (e \in FileAdds(a) \cup FileRemoves(a) => a = m)
  BY <1>1, <1>5, <1>6, EventsDiffer
<1>15. ASSUME n # m PROVE AgreesOn(v[2], n)' /\ Orderly(n)'
  <2>1. \A a \in DOMAIN ev : ev[a] \notin DirAdds(n) \cup DirRemoves(n) \cup FileAdds(n) \cup FileRemoves(n)
    BY <1>8, <1>14, <1>15
  <2>2. \A i \in Inode : v[2][i] = n => ~Turns(s, i) /\ s.wd # i
    BY <1>4, <1>12, <1>13, <1>15 DEF Turns
  <2>3. W!FileIn(n) \in snapshot => W!FileIn(n) \in snapshot'
    <3>1. W!FileIn(n) # F
      BY <1>1, <1>5, <1>15, PathsDiffer
    <3> QED BY <3>1, <1>2
  <2> QED BY <2>1, <2>2, <2>3, <1>8, <1>10, <1>11, <1>13, AgreesPush
<1>16. ASSUME n = m PROVE AgreesOn(v[2], n)' /\ Orderly(n)'
  <2>0. PICK y : y = v[1]
    OBVIOUS
  <2>1. AgreesOn(y, n) /\ Orderly(n)
    BY <1>11, <2>0
  <2>2. WillHaveDir(n)
    BY <2>0, <2>1, <1>5, <1>12, <1>16 DEF AgreesOn
  <2>3. WillHaveDir(n)'
    BY <2>2, <1>4, <1>8, <1>10, <1>14, WillPush
  <2>4. Orderly(n)'
    <3>1. \A k \in DOMAIN x : x[k] = e
      BY <1>8, <1>10 DEF Pushes, Gets
    <3>2. \A k \in DOMAIN x : x[k] \notin DirRemoves(n)
      BY <3>1, <1>14
    <3> QED BY <2>1, <2>2, <3>2, <1>4, <1>8, <1>10, OrderlyPush
  <2>5. \A i \in Inode : y[i] = n => i = s.wd
    BY <2>0, <1>4, <1>5, <1>12, <1>16, TreesFit DEF Apart
  <2>6. ~Turns(s, s.wd)
    BY <1>4 DEF Turns
  <2>7. ~Pends(s.wd)' /\ Fills(s, s.wd) => (file[s.wd] # None <=> s.mask \in {"create", "to"})
    <3>1. ~Pends(s.wd)' => \A k \in 2..Len(inotify) : ~Fills(inotify[k], s.wd)
      BY <1>5, PendsLess
    <3>2. 1 + 1 = 2
      OBVIOUS
    <3> QED BY <3>1, <3>2, <1>4, <1>5, <1>11 DEF FilesTold
  <2>8. ~Pends(s.wd)' /\ ~Fills(s, s.wd) => ~Pends(s.wd)
    BY <2>6, <1>5, PendsLess
  <2>9. ~Texts(s.wd)' => ~Pends(s.wd)'
    BY <1>5, PendsLess
  <2>10. /\ FileAdds(n)' = FileAdds(n) /\ FileRemoves(n)' = FileRemoves(n) /\ FileWrites(n)' = FileWrites(n)
    BY DEF FileAdds, FileRemoves, FileWrites
  <2>11. AgreesOn(y, n)' <=>
           /\ WillHaveDir(n)' <=> \E i \in Inode : y[i] = n
           /\ WillHaveFile(n)' => F \in snapshot' /\ WillHaveDir(n)'
           /\ \A i \in Inode : y[i] = n /\ ~Pends(i)' => (WillHaveFile(n)' <=> file[i] # None)
           /\ \A i \in Inode : y[i] = n /\ ~Texts(i)' /\ file[i] # None =>
                \/ known[F] = file[i]
                \/ \E j \in DOMAIN eventQueue' : eventQueue'[j] \in FileWrites(n)
    BY <2>10, <1>1, <1>4, <1>16 DEF AgreesOn, W!FileIn
  <2>12. \E i \in Inode : y[i] = n
    BY <2>0, <1>5, <1>12, <1>16
  <2>13. e \in FileWrites(n) => \E j \in DOMAIN eventQueue' : eventQueue'[j] \in FileWrites(n)
    <3>1. \E j \in DOMAIN eventQueue' : eventQueue'[j] = e
      BY <1>8, <1>10, PushQueue
    <3> QED BY <3>1
  <2>14. CASE s.mask \in {"create", "to"} /\ type \in W!Adds /\ snapshot' = snapshot \cup {F}
    <3>1. e \in FileAdds(n) /\ e \in FileWrites(n) /\ e \notin FileRemoves(n) /\ Fills(s, s.wd)
      BY <2>14, <1>1, <1>6, <1>16 DEF FileAdds, FileWrites, FileRemoves, Fills, W!Adds, W!Removes
    <3>2. WillHaveFile(n)'
      BY <3>1, <1>4, <1>8, <1>10, WillPush
    <3>3. AgreesOn(y, n)'
      BY <3>1, <3>2, <2>3, <2>5, <2>7, <2>9, <2>11, <2>12, <2>13, <2>14
    <3> QED BY <3>3, <2>0, <2>4, <1>13
  <2>15. CASE s.mask \in {"delete", "from"} /\ type \in W!Removes
    <3>1. e \in FileRemoves(n) /\ e \notin FileAdds(n) /\ Fills(s, s.wd)
      BY <2>15, <1>1, <1>6, <1>16 DEF FileAdds, FileRemoves, Fills, W!Adds, W!Removes
    <3>2. ~WillHaveFile(n)'
      BY <3>1, <1>4, <1>8, <1>10, WillPush
    <3>3. ~Pends(s.wd)' => file[s.wd] = None
      BY <3>1, <2>7, <2>15
    <3>4. AgreesOn(y, n)'
      BY <3>2, <3>3, <2>3, <2>5, <2>9, <2>11, <2>12
    <3> QED BY <3>4, <2>0, <2>4, <1>13
  <2>16. CASE s.mask = "modify" /\ type = "Modified" /\ snapshot' = snapshot
    <3>1. e \in FileWrites(n) /\ e \notin FileAdds(n) \cup FileRemoves(n) /\ ~Fills(s, s.wd)
      BY <2>16, <1>1, <1>6, <1>16 DEF FileAdds, FileWrites, FileRemoves, Fills, W!Adds, W!Removes
    <3>2. WillHaveFile(n)' <=> WillHaveFile(n)
      BY <3>1, <1>4, <1>8, <1>10, WillPush
    <3>3. /\ WillHaveFile(n) => F \in snapshot
          /\ ~Pends(s.wd)' => (WillHaveFile(n) <=> file[s.wd] # None)
      BY <3>1, <2>0, <2>1, <2>8, <1>1, <1>5, <1>12, <1>16 DEF AgreesOn
    <3>4. AgreesOn(y, n)'
      BY <3>1, <3>2, <3>3, <2>3, <2>5, <2>11, <2>12, <2>13, <2>16
    <3> QED BY <3>4, <2>0, <2>4, <1>13
  <2> QED BY <2>14, <2>15, <2>16, <1>2
<1> QED BY <1>15, <1>16

\* A list of a finite set has all its elements.
LEMMA ListedAll ==
    ASSUME NEW S, IsFiniteSet(S), NEW f,
           f = W!SetToSeq(S) \/ f \in W!SetToSeqs(S)
    PROVE  f \in Seq(S) /\ \A e : e \in S <=> \E k \in DOMAIN f : f[k] = e
<1>1. \A T : W!Cardinality(T) = Cardinality(T)
  BY DEF W!Cardinality, Cardinality
<1> DEFINE m == Cardinality(S)
<1>2. m \in Nat
  BY FS_CardinalityType
<1>3. f \in [1..m -> S] /\ \A i, j \in 1..m : f[i] = f[j] => i = j
  <2>1. CASE f = W!SetToSeq(S)
    <3>1. PICK g : g \in Bijection(1..m, S)
      BY FS_CardinalityType DEF ExistsBijection
    <3>2. g \in [1..W!Cardinality(S) -> S] /\ W!IsInjective(g)
      BY <1>1, <3>1 DEF Bijection, Injection, W!IsInjective, IsInjective
    <3>3. f \in [1..m -> S] /\ W!IsInjective(f)
      BY <1>1, <2>1, <3>2 DEF W!SetToSeq
    <3> QED BY <3>3 DEF W!IsInjective
  <2>2. CASE f \in W!SetToSeqs(S)
    BY <1>1, <2>2 DEF W!SetToSeqs
  <2> QED BY <2>1, <2>2
<1>4. f \in Injection(1..m, S)
  BY <1>3 DEF Injection, IsInjective
<1>5. f \in Surjection(1..m, S)
  <2>1. Cardinality(1..m) = m
    BY <1>2, FS_Interval
  <2> QED BY <1>4, <2>1, FS_Injection
<1>6. f \in Seq(S)
  BY <1>2, <1>3, SeqDef
<1> HIDE DEF m
<1>7. DOMAIN f = 1..m
  BY <1>3
<1> QED BY <1>3, <1>5, <1>6, <1>7 DEF Surjection

\* A directory comes to a name, and one leaves its name.
LEMMA Arrives ==
    ASSUME NEW s, s.wd = "root", s.mask \in {"create", "to"}, s.dir \in Inode, s.name \in Name,
           NEW x \in Placing, NEW y \in Placing, Apart(y), Tells(s, x, y)
    PROVE  /\ \A i \in Inode : (y[i] = s.name <=> i = s.dir) /\ x[i] # s.name
           /\ \A i \in Inode, n \in Name : n # s.name => (y[i] = n <=> x[i] = n)
<1>1. s.name # "gone" /\ "gone" \notin Name
  BY TreesFit
<1>2. x[s.dir] = "gone" /\ y = [x EXCEPT ![s.dir] = s.name]
  BY DEF Tells
<1>3. y[s.dir] = s.name /\ \A i \in Inode : i # s.dir => y[i] = x[i]
  BY <1>2 DEF Placing
<1> QED BY <1>1, <1>2, <1>3 DEF Apart

\* The reverse.
LEMMA Leaves ==
    ASSUME NEW s, s.wd = "root", s.mask \in {"delete", "from"}, s.dir \in Inode, s.name \in Name,
           NEW x \in Placing, NEW y \in Placing, Apart(x), Tells(s, x, y)
    PROVE  /\ \A i \in Inode : y[i] # s.name
           /\ \A i \in Inode, n \in Name : n # s.name => (y[i] = n <=> x[i] = n)
           /\ y[s.dir] = "gone"
<1>1. s.name # "gone" /\ "gone" \notin Name
  BY TreesFit
<1>2. x[s.dir] = s.name /\ y = [x EXCEPT ![s.dir] = "gone"]
  BY DEF Tells
<1>3. y[s.dir] = "gone" /\ \A i \in Inode : i # s.dir => y[i] = x[i]
  BY <1>2 DEF Placing
<1> QED BY <1>1, <1>2, <1>3 DEF Apart

\* A signal of the root changes nothing for the names that it is not about.
LEMMA KnowingOther ==
    ASSUME WatcherType, NEW v, Story(v), Knowing(v), clean, W!Handle, NEW s, s = inotify[1], s.wd = "root",
           s.mask \in {"create", "to", "delete", "from"},
           NEW ev \in Seq(W!LocalEvent), NEW x, Pushes(ev, x), NEW n \in Name, n # s.name,
           \A a \in DOMAIN ev : ev[a].path = <<s.name>> \/ ev[a].path = W!FileIn(s.name),
           W!FileIn(n) \in snapshot => W!FileIn(n) \in snapshot'
    PROVE  AgreesOn(v[2], n)' /\ Orderly(n)'
<1>1. /\ s \in Sound /\ s.dir \in Inode /\ s.name \in Name /\ s.name # "gone"
      /\ Tells(s, v[1], v[2]) /\ v[1] \in Placing /\ v[2] \in Placing /\ Apart(v[1]) /\ Apart(v[2])
  BY SignalLess
<1>2. \A i \in Inode : v[2][i] = n <=> v[1][i] = n
  BY <1>1, Arrives, Leaves
<1>3. v[2][s.dir] # n
  <2>1. CASE s.mask \in {"create", "to"}
    BY <1>1, <2>1, Arrives
  <2>2. CASE s.mask \in {"delete", "from"}
    <3>1. v[2][s.dir] = "gone"
      BY <1>1, <2>2, Leaves
    <3> QED BY <3>1, TreesFit
  <2> QED BY <2>1, <2>2
<1>4. \A i \in Inode : v[2][i] = n => ~Turns(s, i) /\ s.wd # i
  BY <1>3, TreesFit DEF Turns
<1>5. \A a \in DOMAIN ev : ev[a] \notin DirAdds(n) \cup DirRemoves(n) \cup FileAdds(n) \cup FileRemoves(n)
  BY <1>1, EventsDiffer
<1>6. AgreesOn(v[1], n) /\ Orderly(n)
  BY DEF Knowing, Agrees
<1> QED BY <1>2, <1>4, <1>5, <1>6, AgreesPush

\* A directory that comes to a name brings its file, or none.
LEMMA KnowingArrives ==
    ASSUME WatcherType, NEW v, Story(v), Knowing(v), clean, clean', W!Handle, NEW s, s = inotify[1], s.wd = "root",
           s.mask \in {"create", "to"}, NEW n, n = s.name,
           NEW ev \in Seq(W!LocalEvent), NEW x, Pushes(ev, x),
           \E a \in DOMAIN ev : ev[a] \in DirAdds(n),
           \A a \in DOMAIN ev : ev[a] \notin DirRemoves(n) \cup FileRemoves(n),
           ~Pends(s.dir)' => ((\E a \in DOMAIN ev : ev[a] \in FileAdds(n)) <=> file[s.dir] # None),
           (\E a \in DOMAIN ev : ev[a] \in FileAdds(n)) => W!FileIn(n) \in snapshot',
           \A a \in DOMAIN ev : ev[a] \in FileAdds(n) => \A b \in DOMAIN ev : ev[b] \in DirAdds(n) => b < a
    PROVE  AgreesOn(v[2], n)' /\ Orderly(n)'
<1>1. /\ s.dir \in Inode /\ s.name \in Name /\ s.name # "gone" /\ UNCHANGED <<file, known, row>>
      /\ Tells(s, v[1], v[2]) /\ v[1] \in Placing /\ v[2] \in Placing /\ Apart(v[2])
  BY SignalLess
<1>2. PICK y : y = v[2]
  OBVIOUS
<1>3. \A i \in Inode : (y[i] = n <=> i = s.dir) /\ v[1][i] # n
  BY <1>1, <1>2, Arrives
<1>4. AgreesOn(v[1], n) /\ Orderly(n)
  BY <1>1 DEF Knowing, Agrees
<1>5. ~WillHaveDir(n) /\ ~WillHaveFile(n)
  BY <1>3, <1>4 DEF AgreesOn
<1>6. WillHaveDir(n)'
  BY <1>1, WillPush
<1>7. WillHaveFile(n)' <=> \E a \in DOMAIN ev : ev[a] \in FileAdds(n)
  BY <1>1, <1>5, WillPush
<1>8. \A i \in Inode : ~Texts(i)' => ~Pends(i)'
  BY PendsLess
<1>9. (\E a \in DOMAIN ev : ev[a] \in FileAdds(n)) => \E j \in DOMAIN eventQueue' : eventQueue'[j] \in FileWrites(n)
  <2>1. FileAdds(n) \subseteq FileWrites(n)
    BY <1>1, KindsDiffer
  <2> QED BY <2>1, PushQueue
<1>10. AgreesOn(y, n)'
  <2>1. FileWrites(n)' = FileWrites(n)
    BY DEF FileWrites
  <2>2. AgreesOn(y, n)' <=>
           /\ WillHaveDir(n)' <=> \E i \in Inode : y[i] = n
           /\ WillHaveFile(n)' => W!FileIn(n) \in snapshot' /\ WillHaveDir(n)'
           /\ \A i \in Inode : y[i] = n /\ ~Pends(i)' => (WillHaveFile(n)' <=> file[i] # None)
           /\ \A i \in Inode : y[i] = n /\ ~Texts(i)' /\ file[i] # None =>
                \/ known[W!FileIn(n)] = file[i]
                \/ \E j \in DOMAIN eventQueue' : eventQueue'[j] \in FileWrites(n)
    BY <2>1, <1>1 DEF AgreesOn, W!FileIn
  <2> QED BY <2>2, <1>1, <1>3, <1>6, <1>7, <1>8, <1>9
<1>11. Orderly(n)'
  <2>1. /\ \A k \in DOMAIN x : \E a \in DOMAIN ev : ev[a] = x[k]
        /\ \A k, l \in DOMAIN x : k < l => \E a, b \in DOMAIN ev : a < b /\ ev[a] = x[k] /\ ev[b] = x[l]
    BY DEF Pushes, Gets
  <2>2. \A k \in DOMAIN x : x[k] \notin DirRemoves(n)
    BY <2>1
  <2>4. \E l \in DOMAIN x : x[l] \in DirAdds(n)
    BY <1>1, <1>5, WillPush
  <2>5. ASSUME NEW k \in DOMAIN x, x[k] \in FileAdds(n), NEW l \in DOMAIN x, x[l] \in DirAdds(n)
        PROVE  l < k
    <3>1. k # l
      BY <2>5, <1>1, KindsDiffer
    <3>2. ~(k < l)
      <4> SUFFICES ASSUME k < l PROVE FALSE
        OBVIOUS
      <4>1. PICK b, c \in DOMAIN ev : b < c /\ ev[b] = x[k] /\ ev[c] = x[l]
        BY <2>1
      <4>2. c < b
        BY <4>1, <2>5
      <4>3. b \in Nat /\ c \in Nat
        OBVIOUS
      <4> QED BY <4>1, <4>2, <4>3
    <3>3. k \in Nat /\ l \in Nat
      BY PushQueue
    <3> QED BY <3>1, <3>2, <3>3
  <2> QED BY <2>2, <2>4, <2>5, <1>1, <1>4, OrderlyPush
<1> QED BY <1>2, <1>10, <1>11

\* A signal about a directory that is new under its name is handled.
LEMMA KnowingNew ==
    ASSUME WatcherType, NEW v, Story(v), Knowing(v), W!Handle, NEW s, s = inotify[1], W!HandleNewDir(s), clean',
           NEW n \in Name
    PROVE  AgreesOn(v[2], n)' /\ Orderly(n)'
<1>1. /\ s \in Sound /\ s.dir \in Inode /\ s.name \in Name /\ 2 \in Steps
      /\ Tells(s, v[1], v[2]) /\ v[1] \in Placing /\ v[2] \in Placing /\ Apart(v[2]) /\ s.wd = "root"
      /\ s.mask \in {"create", "to"}
  BY SignalLess DEF W!HandleNewDir, W!IsNewDir
<1>2. PICK type : /\ type \in W!Adds /\ snapshot' = snapshot \cup {<<s.name>>}
                  /\ W!PushIf(<<W!Ev(type, <<s.name>>, "dir")>>, ~W!Untimely(s))
  BY DEF W!HandleNewDir, W!Adds
<1>3. PICK e : e = W!Ev(type, <<s.name>>, "dir")
  OBVIOUS
<1>4. e \in W!LocalEvent /\ e.type = type /\ e.path = <<s.name>> /\ e.kind = "dir"
  <2>1. <<s.name>> \in W!Path
    BY <1>1, PathType
  <2> QED BY <2>1, <1>2, <1>3 DEF W!Ev, W!LocalEvent, W!Adds
<1>5. PICK ev : ev = <<e>>
  OBVIOUS
<1>6. ev \in Seq(W!LocalEvent) /\ DOMAIN ev = {1} /\ ev[1] = e
  <2>1. ev \in Seq(W!LocalEvent) /\ ev[1] = e
    BY <1>4, <1>5
  <2>2. DOMAIN ev = {1}
    BY <1>5
  <2> QED BY <2>1, <2>2
<1>7. W!PushIf(ev, ~W!Untimely(s))
  <2>1. ev = <<W!Ev(type, <<s.name>>, "dir")>>
    BY <1>3, <1>5
  <2> QED BY <2>1, <1>2
<1>8. (\E x : Pushes(ev, x)) /\ clean /\ ~W!Untimely(s)
  <2>1. (\E x : Pushes(ev, x)) /\ (clean' => clean /\ ~W!Untimely(s))
    BY <1>6, <1>7, Pushed
  <2> QED BY <2>1
<1>9. PICK x : Pushes(ev, x)
  BY <1>8
<1>10. ASSUME n # s.name PROVE AgreesOn(v[2], n)' /\ Orderly(n)'
  BY <1>1, <1>2, <1>4, <1>6, <1>8, <1>9, <1>10, KnowingOther
<1>11. ASSUME n = s.name PROVE AgreesOn(v[2], n)' /\ Orderly(n)'
  <2>1. e \in DirAdds(n)
    BY <1>2, <1>4, <1>11 DEF DirAdds
  <2>2. e \notin DirRemoves(n) \cup FileAdds(n) \cup FileRemoves(n)
    BY <1>1, <1>4, <2>1, KindsDiffer, EventsDiffer
  <2>3. ~Pends(s.dir)' => file[s.dir] = None
    <3>1. ASSUME ~Pends(s.dir)' PROVE \A l \in 2..Len(inotify) : ~Turns(inotify[l], s.dir)
      BY <3>1, <1>1, PendsLess
    <3>2. v[2][s.dir] = s.name
      BY <1>1, Arrives
    <3>3. ~Pends(s.dir)' => place[s.dir] = s.name
      BY <3>1, <3>2, <1>1, PlaceIs
    <3> QED BY <3>3, <1>8 DEF W!Untimely
  <2>4. /\ \E a \in DOMAIN ev : ev[a] \in DirAdds(n)
        /\ \A a \in DOMAIN ev : ev[a] \notin DirRemoves(n) \cup FileRemoves(n) \cup FileAdds(n)
    BY <1>6, <2>1, <2>2
  <2> QED BY <2>3, <2>4, <1>1, <1>6, <1>8, <1>9, <1>11, KnowingArrives
<1> QED BY <1>10, <1>11

\* The events of the second half of a move: the directory, and its file.
MovesTo(s, e, f, ev) ==
    /\ e \in W!LocalEvent /\ e.type = "MovedTo" /\ e.path = <<s.name>> /\ e.kind = "dir"
    /\ f \in W!LocalEvent /\ f.type = "MovedTo" /\ f.path = W!FileIn(s.name) /\ f.kind = "file"
    /\ ev \in Seq(W!LocalEvent) /\ W!PushIf(ev, TRUE) /\ ev[1] = e
    /\ \/ W!TextAt(s.name) = None /\ DOMAIN ev = {1} /\ snapshot' = snapshot
       \/ /\ W!TextAt(s.name) # None /\ DOMAIN ev = 1..2 /\ ev[2] = f
          /\ snapshot' = snapshot \cup {W!FileIn(s.name)}

\* They are pushed.
LEMMA MoveReported ==
    ASSUME WatcherType, NEW s, s.name \in Name, W!HandleMovedTo(s)
    PROVE  \E e, f, ev : MovesTo(s, e, f, ev)
<1>a. PICK F : F = W!FileIn(s.name)
  OBVIOUS
<1>b. PICK e, f : e = W!Ev("MovedTo", <<s.name>>, "dir") /\ f = W!Ev("MovedTo", F, "file")
  OBVIOUS
<1>1. /\ e \in W!LocalEvent /\ e.type = "MovedTo" /\ e.path = <<s.name>> /\ e.kind = "dir"
      /\ f \in W!LocalEvent /\ f.type = "MovedTo" /\ f.path = F /\ f.kind = "file"
  <2>1. <<s.name>> \in W!Path /\ F \in W!Path
    BY <1>a, PathType
  <2> QED BY <2>1, <1>b DEF W!Ev, W!LocalEvent
<1>2. PICK ev :
        /\ ev \in Seq(W!LocalEvent) /\ W!PushIf(ev, TRUE) /\ ev[1] = e
        /\ \/ W!TextAt(s.name) = None /\ DOMAIN ev = {1} /\ snapshot' = snapshot
           \/ W!TextAt(s.name) # None /\ DOMAIN ev = 1..2 /\ ev[2] = f /\ snapshot' = snapshot \cup {F}
  <2>1. ASSUME NEW found, found = IF W!TextAt(s.name) # None THEN <<F>> ELSE <<>>,
               W!Push(<<W!Ev("MovedTo", <<s.name>>, "dir")>>
                        \o [k \in DOMAIN found |-> W!Ev("MovedTo", found[k], "file")]),
               snapshot' = snapshot \cup W!ToSet(found)
        PROVE  \E q : /\ q \in Seq(W!LocalEvent) /\ W!PushIf(q, TRUE) /\ q[1] = e
                      /\ \/ W!TextAt(s.name) = None /\ DOMAIN q = {1} /\ snapshot' = snapshot
                         \/ W!TextAt(s.name) # None /\ DOMAIN q = 1..2 /\ q[2] = f /\ snapshot' = snapshot \cup {F}
    <3>0. PICK g : g = [k \in DOMAIN found |-> W!Ev("MovedTo", found[k], "file")]
      OBVIOUS
    <3>1. W!PushIf(<<e>> \o g, TRUE)
      BY <2>1, <3>0, <1>b DEF W!Push
    <3>2. CASE W!TextAt(s.name) = None
      <4>1. found = <<>> /\ g = <<>> /\ W!ToSet(found) = {}
        BY <2>1, <3>0, <3>2 DEF W!ToSet
      <4>2. PICK q : q = <<e>> \o g
        OBVIOUS
      <4>3. q \in Seq(W!LocalEvent) /\ q[1] = e /\ Len(q) = 1
        BY <4>1, <4>2, <1>1
      <4>4. DOMAIN q = {1}
        BY <4>3
      <4> QED BY <4>1, <4>2, <4>3, <4>4, <3>1, <3>2, <2>1
    <3>3. CASE W!TextAt(s.name) # None
      <4>1. found = <<F>> /\ DOMAIN found = {1} /\ W!ToSet(found) = {F}
        BY <2>1, <3>3 DEF W!ToSet
      <4>2. g \in [1..1 -> {f}]
        BY <4>1, <3>0, <1>b
      <4>3. g \in Seq({f}) /\ Len(g) = 1 /\ g[1] = f
        <5>1. 1 \in 1..1 /\ 1 \in Nat /\ 1..1 = {1}
          OBVIOUS
        <5>0. PICK l \in Nat : l = 1
          OBVIOUS
        <5>a. g \in [1..l -> {f}]
          BY <4>2, <5>0
        <5>2. g \in Seq({f})
          BY <5>a, SeqDef
        <5>3. g[1] = f /\ DOMAIN g = 1..1
          BY <4>2, <5>1
        <5> QED BY <5>1, <5>2, <5>3
      <4>4. PICK q : q = <<e>> \o g
        OBVIOUS
      <4>5. q \in Seq(W!LocalEvent) /\ q[1] = e /\ q[2] = f /\ Len(q) = 2
        <5>1. e \in W!LocalEvent /\ g \in Seq(W!LocalEvent) /\ Len(g) = 1 /\ g[1] = f
          BY <4>3, <1>1
        <5>2. <<e>> \in Seq(W!LocalEvent) /\ Len(<<e>>) = 1 /\ <<e>>[1] = e
          BY <5>1
        <5>3. PICK h : h = <<e>>
          OBVIOUS
        <5>4. h \in Seq(W!LocalEvent) /\ Len(h) = 1 /\ h[1] = e /\ q = h \o g
          BY <5>2, <5>3, <4>4
        <5>5. /\ 1 \in DOMAIN h /\ 1 \in DOMAIN g /\ h \o g \in Seq(W!LocalEvent) /\ Len(h \o g) = Len(h) + Len(g)
              /\ (h \o g)[1] = h[1] /\ (h \o g)[Len(h) + 1] = g[1]
          <6>1. DOMAIN h = 1..Len(h) /\ DOMAIN g = 1..Len(g) /\ 1 \in 1..1
            BY <5>1, <5>4, Joined
          <6>2. 1 \in DOMAIN h /\ 1 \in DOMAIN g
            BY <6>1, <5>1, <5>4
          <6>3. h \o g \in Seq(W!LocalEvent) /\ Len(h \o g) = Len(h) + Len(g)
            BY <5>1, <5>4, Joined
          <6>4. (\A k \in DOMAIN h : (h \o g)[k] = h[k]) /\ \A k \in DOMAIN g : (h \o g)[Len(h) + k] = g[k]
            BY <5>1, <5>4, Joined
          <6> QED BY <6>2, <6>3, <6>4
        <5>6. 1 + 1 = 2
          OBVIOUS
        <5> QED BY <5>1, <5>4, <5>5, <5>6
      <4>6. DOMAIN q = 1..2
        BY <4>5
      <4> QED BY <4>1, <4>4, <4>5, <4>6, <3>1, <3>3, <2>1
    <3> QED BY <3>2, <3>3
  <2>2. PICK found : found = IF W!TextAt(s.name) # None THEN <<F>> ELSE <<>>
    OBVIOUS
  <2>3. W!Push(<<W!Ev("MovedTo", <<s.name>>, "dir")>>
                 \o [k \in DOMAIN found |-> W!Ev("MovedTo", found[k], "file")])
        /\ snapshot' = snapshot \cup W!ToSet(found)
    BY <2>2, <1>a DEF W!HandleMovedTo
  <2> QED BY <2>1, <2>2, <2>3
<1> QED BY <1>1, <1>2, <1>a DEF MovesTo

\* The second half of a move is handled.
LEMMA KnowingMove ==
    ASSUME WatcherType, NEW v, Story(v), Knowing(v), W!Handle, NEW s, s = inotify[1], W!HandleMovedTo(s), clean',
           NEW n \in Name
    PROVE  AgreesOn(v[2], n)' /\ Orderly(n)'
<1>1. /\ s \in Sound /\ s.dir \in Inode /\ s.name \in Name /\ 2 \in Steps
      /\ Tells(s, v[1], v[2]) /\ v[1] \in Placing /\ v[2] \in Placing /\ Apart(v[2]) /\ s.wd = "root"
      /\ s.mask = "to"
  BY SignalLess DEF W!HandleMovedTo
<1>2. PICK F : F = W!FileIn(s.name)
  OBVIOUS
<1>3. PICK e, f, ev : MovesTo(s, e, f, ev)
  BY <1>1, MoveReported
<1>4. /\ e \in W!LocalEvent /\ e.type = "MovedTo" /\ e.path = <<s.name>> /\ e.kind = "dir"
      /\ f \in W!LocalEvent /\ f.type = "MovedTo" /\ f.path = F /\ f.kind = "file"
      /\ ev \in Seq(W!LocalEvent) /\ W!PushIf(ev, TRUE) /\ ev[1] = e
      /\ \/ W!TextAt(s.name) = None /\ DOMAIN ev = {1} /\ snapshot' = snapshot
         \/ W!TextAt(s.name) # None /\ DOMAIN ev = 1..2 /\ ev[2] = f /\ snapshot' = snapshot \cup {F}
  BY <1>2, <1>3 DEF MovesTo
<1>6. (\E x : Pushes(ev, x)) /\ clean
  <2>1. (\E x : Pushes(ev, x)) /\ (clean' => clean /\ TRUE)
    BY <1>4, Pushed
  <2> QED BY <2>1
<1>7. PICK x : Pushes(ev, x)
  BY <1>6
<1>8. \A a \in DOMAIN ev : ev[a] = e \/ ev[a] = f
  BY <1>4
<1>9. ASSUME n # s.name PROVE AgreesOn(v[2], n)' /\ Orderly(n)'
  <2>1. W!FileIn(n) \in snapshot => W!FileIn(n) \in snapshot'
    BY <1>4
  <2>2. \A a \in DOMAIN ev : ev[a].path = <<s.name>> \/ ev[a].path = W!FileIn(s.name)
    BY <1>2, <1>4, <1>8
  <2> QED BY <2>1, <2>2, <1>1, <1>4, <1>6, <1>7, <1>9, KnowingOther
<1>10. ASSUME n = s.name PROVE AgreesOn(v[2], n)' /\ Orderly(n)'
  <2>1. e \in DirAdds(n) /\ f \in FileAdds(n)
    BY <1>2, <1>4, <1>10 DEF DirAdds, FileAdds, W!Adds
  <2>2. /\ e \notin DirRemoves(n) \cup FileAdds(n) \cup FileRemoves(n)
        /\ f \notin DirAdds(n) \cup DirRemoves(n) \cup FileRemoves(n)
    BY <1>1, <1>2, <1>4, <2>1, KindsDiffer, EventsDiffer
  <2>3. /\ \E a \in DOMAIN ev : ev[a] \in DirAdds(n)
        /\ \A a \in DOMAIN ev : ev[a] \notin DirRemoves(n) \cup FileRemoves(n)
    BY <1>4, <1>8, <2>1, <2>2
  <2>4. (\E a \in DOMAIN ev : ev[a] \in FileAdds(n)) <=> W!TextAt(s.name) # None
    BY <1>4, <2>1, <2>2
  <2>5. (\E a \in DOMAIN ev : ev[a] \in FileAdds(n)) => W!FileIn(n) \in snapshot'
    BY <2>4, <1>2, <1>4, <1>10
  <2>6. \A a \in DOMAIN ev : ev[a] \in FileAdds(n) => \A b \in DOMAIN ev : ev[b] \in DirAdds(n) => b < a
    <3>1. 1 < 2
      OBVIOUS
    <3> QED BY <3>1, <1>4, <2>1, <2>2
  <2>7. ~Pends(s.dir)' => W!TextAt(s.name) = file[s.dir]
    <3>1. ASSUME ~Pends(s.dir)' PROVE \A l \in 2..Len(inotify) : ~Turns(inotify[l], s.dir)
      BY <3>1, <1>1, PendsLess
    <3>2. v[2][s.dir] = s.name
      BY <1>1, Arrives
    <3> QED BY <3>1, <3>2, <1>1, PlaceIs
  <2>8. ~Pends(s.dir)' => ((\E a \in DOMAIN ev : ev[a] \in FileAdds(n)) <=> file[s.dir] # None)
    BY <2>4, <2>7
  <2>9. s.mask \in {"create", "to"}
    BY <1>1
  <2> QED BY <2>3, <2>5, <2>6, <2>8, <2>9, <1>1, <1>4, <1>6, <1>7, <1>10, KnowingArrives
<1> QED BY <1>9, <1>10

\* What is below a directory in the snapshot: itself and its file.
LEMMA BelowIs ==
    ASSUME WatcherType, NEW m \in Name
    PROVE  /\ W!Below(<<m>>) \subseteq {<<m>>, W!FileIn(m)} \cap snapshot
           /\ W!FileIn(m) \in snapshot => W!FileIn(m) \in W!Below(<<m>>)
           /\ \A n \in Name : n # m => W!FileIn(n) \notin W!Below(<<m>>)
<1>1. snapshot \subseteq W!Path
  BY DEF WatcherType, W!TypeOK
<1>2. \A n \in Name : /\ W!IsPrefix(<<m>>, <<n>>) <=> m = n
                      /\ W!IsPrefix(<<m>>, W!FileIn(n)) <=> m = n
  BY PathsDiffer
<1>3. ASSUME NEW p \in W!Below(<<m>>) PROVE p \in snapshot /\ (p = <<m>> \/ p = W!FileIn(m))
  <2>1. p \in snapshot /\ W!IsPrefix(<<m>>, p)
    BY <1>3 DEF W!Below
  <2>2. PICK n \in Name : p = <<n>> \/ p = W!FileIn(n)
    BY <1>1, <2>1 DEF W!Path, W!DirPath
  <2>3. m = n
    BY <1>2, <2>1, <2>2
  <2> QED BY <2>1, <2>2, <2>3
<1> QED BY <1>2, <1>3 DEF W!Below

\* The events that report a list of paths and then a directory.
Reports(entries, type, m) ==
    [k \in DOMAIN entries |-> W!Ev(type, entries[k], W!KindNow(entries[k]))] \o <<W!Ev(type, <<m>>, "dir")>>

\* They report the directory's file if the snapshot has it.
LEMMA ListReported ==
    ASSUME WatcherType, NEW m \in Name, NEW S \in SUBSET snapshot, S \subseteq {<<m>>, W!FileIn(m)},
           W!FileIn(m) \in snapshot => W!FileIn(m) \in S,
           NEW entries, entries = W!SetToSeq(S) \/ entries \in W!SetToSeqs(S),
           NEW type \in {"Deleted", "MovedFrom"}, NEW ev, ev = Reports(entries, type, m)
    PROVE  /\ ev \in Seq(W!LocalEvent)
           /\ \A a \in DOMAIN ev : ev[a].type = type /\ (ev[a].path = <<m>> \/ ev[a].path = W!FileIn(m))
           /\ \A a \in DOMAIN ev : ev[a].kind = "dir" => ev[a].path \in W!DirPath
           /\ \E a \in DOMAIN ev : ev[a] \in DirRemoves(m)
           /\ W!FileIn(m) \in snapshot <=> \E a \in DOMAIN ev : ev[a] \in FileRemoves(m)
<1> DEFINE g == [k \in DOMAIN entries |-> W!Ev(type, entries[k], W!KindNow(entries[k]))]
           e == W!Ev(type, <<m>>, "dir")
           F == W!FileIn(m)
<1>1. S \in SUBSET W!Path /\ IsFiniteSet(S)
  <2>1. S \in SUBSET W!Path
    BY DEF WatcherType, W!TypeOK
  <2> QED BY <2>1, PathsFinite
<1>2. entries \in Seq(S) /\ \A p : p \in S <=> \E k \in DOMAIN entries : entries[k] = p
  BY <1>1, ListedAll
<1>3. entries \in Seq(W!Path)
  BY <1>1, <1>2
<1>4. ev \in Seq(W!LocalEvent)
  <2>1. <<m>> \in W!Path
    BY PathType
  <2> QED BY <2>1, <1>3, EventsOf DEF Reports
<1>5. /\ \A p \in W!Path : /\ W!Ev(type, p, W!KindNow(p)) \in W!LocalEvent
                           /\ W!Ev(type, p, W!KindNow(p)).type = type /\ W!Ev(type, p, W!KindNow(p)).path = p
                           /\ W!Ev(type, p, W!KindNow(p)).kind = W!KindNow(p)
      /\ e \in W!LocalEvent /\ e.type = type /\ e.path = <<m>> /\ e.kind = "dir"
  BY PathType DEF W!Ev, W!LocalEvent, W!KindNow
<1>6. W!KindNow(F) = "file" /\ F # <<m>> /\ F \in W!Path
  BY PathsDiffer, PathType DEF W!KindNow
<1>7. g \in Seq(W!LocalEvent) /\ DOMAIN g = DOMAIN entries
      /\ \A k \in DOMAIN g : g[k] = W!Ev(type, entries[k], W!KindNow(entries[k]))
  <2>1. DOMAIN entries = 1..Len(entries) /\ Len(entries) \in Nat /\ \A k \in DOMAIN entries : entries[k] \in W!Path
    BY <1>3
  <2>2. g \in [1..Len(entries) -> W!LocalEvent]
    BY <1>5, <2>1
  <2>3. g \in Seq(W!LocalEvent)
    BY <2>1, <2>2, SeqDef
  <2> QED BY <2>3
<1>8. ev = g \o <<e>>
  BY DEF Reports
<1> HIDE DEF g, e, F
<1>11. /\ \A k \in DOMAIN g : k \in DOMAIN ev /\ ev[k] = g[k]
       /\ \E a \in DOMAIN ev : ev[a] = e
       /\ \A a \in DOMAIN ev : ev[a] = e \/ \E k \in DOMAIN g : ev[a] = g[k]
  <2>1. g \in Seq(W!LocalEvent) /\ e \in W!LocalEvent
    BY <1>5, <1>7
  <2> DEFINE n == Len(g)
  <2>2. /\ DOMAIN g = 1..n /\ n \in Nat /\ ev \in Seq(W!LocalEvent) /\ Len(ev) = n + 1
        /\ ev[n + 1] = e /\ \A k \in 1..n : ev[k] = g[k]
    BY ONLY <2>1, <1>8
  <2> HIDE DEF n
  <2>3. DOMAIN ev = 1..(n + 1)
    BY <2>2
  <2>4. /\ \A k \in 1..(n + 1) : k \in 1..n \/ k = n + 1
        /\ n + 1 \in 1..(n + 1) /\ \A k \in 1..n : k \in 1..(n + 1)
    BY <2>2
  <2> QED BY <2>2, <2>3, <2>4
<1>12. ASSUME NEW a \in DOMAIN ev
       PROVE  \/ ev[a] = e
              \/ \E p \in S : ev[a] = W!Ev(type, p, W!KindNow(p))
  <2>1. ASSUME NEW k \in DOMAIN g, ev[a] = g[k] PROVE \E p \in S : ev[a] = W!Ev(type, p, W!KindNow(p))
    <3>1. k \in DOMAIN entries /\ g[k] = W!Ev(type, entries[k], W!KindNow(entries[k]))
      BY <1>7
    <3>2. entries[k] \in S
      BY <1>2, <3>1
    <3> QED BY <2>1, <3>1, <3>2
  <2> QED BY <2>1, <1>11
<1>13. ASSUME NEW p \in S PROVE \E a \in DOMAIN ev : ev[a] = W!Ev(type, p, W!KindNow(p))
  <2>1. PICK k \in DOMAIN entries : entries[k] = p
    BY <1>2
  <2> QED BY <2>1, <1>7, <1>11
<1>14. e \in DirRemoves(m) /\ e \notin FileRemoves(m)
  BY <1>5 DEF DirRemoves, FileRemoves, W!Removes
<1>15. F \in S => W!Ev(type, F, W!KindNow(F)) \in FileRemoves(m)
  BY <1>5, <1>6 DEF FileRemoves, F, W!Removes
<1>16. ASSUME NEW p \in S, W!Ev(type, p, W!KindNow(p)) \in FileRemoves(m) PROVE p = F
  BY <1>1, <1>5, <1>16 DEF FileRemoves, F
<1>17. F \in snapshot <=> F \in S
  BY DEF F
<1>18. \A a \in DOMAIN ev : ev[a].type = type /\ (ev[a].path = <<m>> \/ ev[a].path = F)
  BY <1>1, <1>5, <1>12 DEF F
<1>19. \E a \in DOMAIN ev : ev[a] \in DirRemoves(m)
  BY <1>11, <1>14
<1>20. F \in snapshot <=> \E a \in DOMAIN ev : ev[a] \in FileRemoves(m)
  BY <1>12, <1>13, <1>14, <1>15, <1>16, <1>17
<1>21. \A a \in DOMAIN ev : ev[a].kind = "dir" => ev[a].path \in W!DirPath
  <2>1. <<m>> \in W!DirPath /\ \A p : W!KindNow(p) = "dir" => p \in W!DirPath
    BY DEF W!DirPath, W!KindNow
  <2> QED BY <2>1, <1>1, <1>5, <1>12
<1> QED BY <1>4, <1>18, <1>19, <1>20, <1>21 DEF F

\* A directory that leaves its name leaves nothing.
LEMMA KnowingLeaves ==
    ASSUME WatcherType, NEW v, Story(v), Knowing(v), W!Handle, NEW s, s = inotify[1], s.wd = "root", clean',
           s.mask \in {"delete", "from"}, snapshot' = snapshot \ W!Below(<<s.name>>),
           NEW ev \in Seq(W!LocalEvent), W!PushIf(ev, TRUE),
           NEW type \in {"Deleted", "MovedFrom"},
           \A a \in DOMAIN ev : ev[a].type = type /\ (ev[a].path = <<s.name>> \/ ev[a].path = W!FileIn(s.name)),
           \E a \in DOMAIN ev : ev[a] \in DirRemoves(s.name),
           W!FileIn(s.name) \in snapshot <=> \E a \in DOMAIN ev : ev[a] \in FileRemoves(s.name),
           NEW n \in Name
    PROVE  AgreesOn(v[2], n)' /\ Orderly(n)'
<1>1. /\ s.dir \in Inode /\ s.name \in Name /\ UNCHANGED <<file, known, row>>
      /\ Tells(s, v[1], v[2]) /\ v[1] \in Placing /\ v[2] \in Placing /\ Apart(v[1])
  BY SignalLess
<1>2. (\E x : Pushes(ev, x)) /\ clean
  <2>1. (\E x : Pushes(ev, x)) /\ (clean' => clean /\ TRUE)
    BY Pushed
  <2> QED BY <2>1
<1>3. PICK x : Pushes(ev, x)
  BY <1>2
<1>4. ASSUME n # s.name PROVE AgreesOn(v[2], n)' /\ Orderly(n)'
  <2>1. W!FileIn(n) \in snapshot => W!FileIn(n) \in snapshot'
    BY <1>1, <1>4, BelowIs
  <2>2. s.mask \in {"create", "to", "delete", "from"}
    OBVIOUS
  <2> QED BY <2>1, <2>2, <1>2, <1>3, <1>4, KnowingOther
<1>5. ASSUME n = s.name PROVE AgreesOn(v[2], n)' /\ Orderly(n)'
  <2>1. PICK y : y = v[2]
    OBVIOUS
  <2>2. \A i \in Inode : y[i] # n
    BY <2>1, <1>1, <1>5, Leaves
  <2>3. AgreesOn(v[1], n) /\ Orderly(n)
    BY <1>2 DEF Knowing, Agrees
  <2>4. \A a \in DOMAIN ev : ev[a] \notin DirAdds(n) \cup FileAdds(n)
    BY DEF DirAdds, FileAdds, W!Adds
  <2>5. ~WillHaveDir(n)'
    BY <2>4, <1>1, <1>3, <1>5, WillPush
  <2>6. /\ ~WillHaveFile(n)'
        /\ \/ ~WillHaveFile(n)
           \/ \E k \in DOMAIN x : x[k] \in FileRemoves(n)
           \/ \E i \in DOMAIN eventQueue :
                /\ eventQueue[i] \in FileRemoves(n)
                /\ \A j \in (i + 1)..Len(eventQueue) : eventQueue[j] \notin FileAdds(n)
    <3>1. CASE W!FileIn(n) \in snapshot
      <4>1. (\E a \in DOMAIN ev : ev[a] \in FileRemoves(n)) /\ \A a \in DOMAIN ev : ev[a] \notin FileAdds(n)
        BY <2>4, <3>1, <1>5
      <4> QED BY <4>1, <1>1, <1>3, WillPush
    <3>2. CASE W!FileIn(n) \notin snapshot
      <4>1. ~WillHaveFile(n)
        BY <2>3, <3>2 DEF AgreesOn
      <4>2. \A a \in DOMAIN ev : ev[a] \notin FileAdds(n) \cup FileRemoves(n)
        BY <2>4, <3>2, <1>5
      <4> QED BY <4>1, <4>2, <1>1, <1>3, WillPush
    <3> QED BY <3>1, <3>2
  <2>7. AgreesOn(y, n)'
    <3>1. AgreesOn(y, n)' <=>
           /\ WillHaveDir(n)' <=> \E i \in Inode : y[i] = n
           /\ WillHaveFile(n)' => W!FileIn(n) \in snapshot' /\ WillHaveDir(n)'
           /\ \A i \in Inode : y[i] = n /\ ~Pends(i)' => (WillHaveFile(n)' <=> file'[i] # None)
           /\ \A i \in Inode : y[i] = n /\ ~Texts(i)' /\ file'[i] # None =>
                \/ known'[W!FileIn(n)] = file'[i]
                \/ \E j \in DOMAIN eventQueue' : eventQueue'[j] \in FileWrites(n)'
      BY DEF AgreesOn, W!FileIn
    <3> QED BY <3>1, <2>2, <2>5, <2>6
  <2>8. \A k \in DOMAIN x : x[k] \notin FileAdds(n)
    <3>1. \A k \in DOMAIN x : \E a \in DOMAIN ev : ev[a] = x[k]
      BY <1>3 DEF Pushes, Gets
    <3> QED BY <2>4, <3>1
  <2>9. Orderly(n)'
    BY <2>3, <2>6, <2>8, <1>1, <1>3, OrderlyPush
  <2> QED BY <2>1, <2>7, <2>9
<1> QED BY <1>4, <1>5

\* The events of a directory that is deleted or moved away.
LEMMA LeftReported ==
    ASSUME WatcherType, NEW s, NEW m \in Name, m = s.name, W!HandleDeletedDir(s) \/ W!HandleMovedFrom(s)
    PROVE  \E ev \in Seq(W!LocalEvent), type \in {"Deleted", "MovedFrom"} :
             /\ W!PushIf(ev, TRUE)
             /\ \A a \in DOMAIN ev : ev[a].type = type /\ (ev[a].path = <<m>> \/ ev[a].path = W!FileIn(m))
             /\ \A a \in DOMAIN ev : ev[a].kind = "dir" => ev[a].path \in W!DirPath
             /\ \E a \in DOMAIN ev : ev[a] \in DirRemoves(m)
             /\ W!FileIn(m) \in snapshot <=> \E a \in DOMAIN ev : ev[a] \in FileRemoves(m)
<1> DEFINE Below == W!Below(<<m>>)
<1>1. PICK S \in {Below, Below \ {<<m>>}}, type \in {"Deleted", "MovedFrom"} : \E entries :
        /\ (entries = W!SetToSeq(S) \/ entries \in W!SetToSeqs(S))
        /\ W!PushIf(Reports(entries, type, m), TRUE)
  <2>1. CASE W!HandleDeletedDir(s)
    <3>1. PICK entries \in W!SetToSeqs(Below) : W!PushIf(Reports(entries, "Deleted", m), TRUE)
      BY <2>1 DEF W!HandleDeletedDir, W!Push, Reports
    <3> HIDE DEF Below
    <3> QED BY <3>1
  <2>2. CASE W!HandleMovedFrom(s)
    <3>1. PICK entries : entries = W!SetToSeq(Below \ {<<m>>})
      OBVIOUS
    <3>2. W!PushIf(Reports(entries, "MovedFrom", m), TRUE)
      BY <2>2, <3>1 DEF W!HandleMovedFrom, W!Push, Reports
    <3> HIDE DEF Below
    <3> QED BY <3>1, <3>2
  <2> QED BY <2>1, <2>2
<1>2. /\ S \subseteq {<<m>>, W!FileIn(m)} /\ S \in SUBSET snapshot
      /\ W!FileIn(m) \in snapshot => W!FileIn(m) \in S
  <2>1. W!FileIn(m) # <<m>>
    BY PathsDiffer
  <2>2. /\ Below \subseteq {<<m>>, W!FileIn(m)} \cap snapshot
        /\ W!FileIn(m) \in snapshot => W!FileIn(m) \in Below
    BY BelowIs
  <2> HIDE DEF Below
  <2> QED BY <2>1, <2>2, <1>1
<1>3. PICK entries, ev : /\ (entries = W!SetToSeq(S) \/ entries \in W!SetToSeqs(S))
                         /\ ev = Reports(entries, type, m) /\ W!PushIf(ev, TRUE)
  BY <1>1
<1>4. /\ ev \in Seq(W!LocalEvent)
      /\ \A a \in DOMAIN ev : ev[a].type = type /\ (ev[a].path = <<m>> \/ ev[a].path = W!FileIn(m))
      /\ \A a \in DOMAIN ev : ev[a].kind = "dir" => ev[a].path \in W!DirPath
      /\ \E a \in DOMAIN ev : ev[a] \in DirRemoves(m)
      /\ W!FileIn(m) \in snapshot <=> \E a \in DOMAIN ev : ev[a] \in FileRemoves(m)
  BY <1>2, <1>3, ListReported
<1> QED BY <1>3, <1>4

\* A signal about a directory that is deleted or moved away is handled.
LEMMA KnowingLeft ==
    ASSUME WatcherType, NEW v, Story(v), Knowing(v), W!Handle, NEW s, s = inotify[1],
           W!HandleDeletedDir(s) \/ W!HandleMovedFrom(s), clean', NEW n \in Name
    PROVE  AgreesOn(v[2], n)' /\ Orderly(n)'
<1>1. /\ s.wd = "root" /\ s.mask \in {"delete", "from"} /\ snapshot' = snapshot \ W!Below(<<s.name>>)
      /\ s.name \in Name
  BY SignalLess DEF W!HandleDeletedDir, W!HandleMovedFrom
<1>2. PICK m \in Name : m = s.name
  BY <1>1
<1>3. PICK ev \in Seq(W!LocalEvent), type \in {"Deleted", "MovedFrom"} :
        /\ W!PushIf(ev, TRUE)
        /\ \A a \in DOMAIN ev : ev[a].type = type /\ (ev[a].path = <<m>> \/ ev[a].path = W!FileIn(m))
        /\ \E a \in DOMAIN ev : ev[a] \in DirRemoves(m)
        /\ W!FileIn(m) \in snapshot <=> \E a \in DOMAIN ev : ev[a] \in FileRemoves(m)
  BY <1>2, LeftReported
<1> QED BY <1>1, <1>2, <1>3, KnowingLeaves

\* The client goes on to list what the servers have.
LEMMA ListingHandle == ASSUME WatcherType, NEW v, Story(v), Listing, W!Handle PROVE Listing'
<1> DEFINE Of(ev) == \A a \in DOMAIN ev : ev[a].kind = "dir" => ev[a].path \in W!DirPath
<1>1. PICK s : s = inotify[1]
  OBVIOUS
<1>2. /\ UNCHANGED <<known, row>>
      /\ \/ W!HandleFile(s) \/ W!HandleNewDir(s) \/ W!HandleDeletedDir(s)
         \/ W!HandleMovedFrom(s) \/ W!HandleMovedTo(s)
      /\ s \in Sound /\ (s.wd = "root" => s.name \in Name)
  BY <1>1, SignalLess
<1>3. ASSUME NEW n \in Name PROVE <<n>> \in W!DirPath /\ <<n>> \in W!Path /\ W!FileIn(n) \in W!Path
  BY <1>3, PathType DEF W!DirPath
<1>4. ASSUME NEW e \in W!LocalEvent, e.kind = "dir" => e.path \in W!DirPath
      PROVE  <<e>> \in Seq(W!LocalEvent) /\ Of(<<e>>)
  <2>1. PICK ev : ev = <<e>>
    OBVIOUS
  <2>2. ev \in Seq(W!LocalEvent) /\ Len(ev) = 1 /\ ev[1] = e
    BY <2>1
  <2>3. \A a \in DOMAIN ev : a = 1
    BY <2>2
  <2> QED BY <2>1, <2>2, <2>3, <1>4
<1>5. \E ev \in Seq(W!LocalEvent), inTime \in BOOLEAN : W!PushIf(ev, inTime) /\ Of(ev)
  <2> HIDE DEF Of
  <2>1. CASE W!HandleFile(s)
    <3>1. PICK type \in {"Created", "Deleted", "Modified", "MovedFrom", "MovedTo"} :
            W!PushIf(<<W!Ev(type, W!FileIn(path[s.wd]), "file")>>, TRUE)
      BY <2>1 DEF W!HandleFile, W!Push
    <3>2. path[s.wd] \in Name
      BY <2>1, <1>2 DEF W!HandleFile, Sound
    <3>3. PICK e : e = W!Ev(type, W!FileIn(path[s.wd]), "file")
      OBVIOUS
    <3>4. e \in W!LocalEvent /\ e.kind # "dir"
      BY <3>2, <3>3, <1>3 DEF W!Ev, W!LocalEvent
    <3> QED BY <3>1, <3>3, <3>4, <1>4
  <2>2. CASE W!HandleNewDir(s)
    <3>1. PICK type \in {"Created", "MovedTo"} : W!PushIf(<<W!Ev(type, <<s.name>>, "dir")>>, ~W!Untimely(s))
      BY <2>2 DEF W!HandleNewDir
    <3>2. s.name \in Name
      BY <2>2, <1>2 DEF W!HandleNewDir, W!IsNewDir
    <3>3. PICK e : e = W!Ev(type, <<s.name>>, "dir")
      OBVIOUS
    <3>4. e \in W!LocalEvent /\ e.path \in W!DirPath
      BY <3>2, <3>3, <1>3 DEF W!Ev, W!LocalEvent
    <3> QED BY <3>1, <3>3, <3>4, <1>4
  <2>3. CASE W!HandleDeletedDir(s) \/ W!HandleMovedFrom(s)
    <3>1. PICK m \in Name : m = s.name
      BY <2>3, <1>2 DEF W!HandleDeletedDir, W!HandleMovedFrom
    <3> QED BY <2>3, <3>1, LeftReported DEF Of
  <2>4. CASE W!HandleMovedTo(s)
    <3>1. s.name \in Name
      BY <2>4, <1>2 DEF W!HandleMovedTo
    <3>2. PICK e, f, ev : MovesTo(s, e, f, ev)
      BY <2>4, <3>1, MoveReported
    <3>3. e.path \in W!DirPath /\ f.kind = "file" /\ ev \in Seq(W!LocalEvent) /\ W!PushIf(ev, TRUE)
      BY <3>1, <3>2, <1>3 DEF MovesTo
    <3>4. \A a \in DOMAIN ev : ev[a] = e \/ ev[a] = f
      BY <3>2 DEF MovesTo
    <3>5. Of(ev)
      BY <3>3, <3>4 DEF Of
    <3> QED BY <3>3, <3>5
  <2> QED BY <2>1, <2>2, <2>3, <2>4, <1>2
<1>6. PICK ev \in Seq(W!LocalEvent), inTime \in BOOLEAN : W!PushIf(ev, inTime) /\ Of(ev)
  BY <1>5
<1>7. PICK x : Pushes(ev, x)
  BY <1>6, Pushed
<1>8. ASSUME NEW j \in DOMAIN eventQueue', eventQueue'[j].kind = "dir" PROVE eventQueue'[j].path \in W!DirPath
  <2>1. \/ \E l \in DOMAIN eventQueue : eventQueue'[j] = eventQueue[l]
        \/ \E l \in DOMAIN ev : eventQueue'[j] = ev[l]
    BY <1>7, PushQueue
  <2> QED BY <2>1, <1>6, <1>8 DEF Listing
<1> QED BY <1>2, <1>8 DEF Listing, W!FileIn, W!DirPath, W!Text

\* A signal is handled.
LEMMA KnowingHandle ==
    ASSUME WatcherType, NEW v, Story(v), Knowing(v), W!Handle
    PROVE  \E w : Story(w)' /\ Knowing(w)'
<1>1. PICK w : Story(w)' /\ Goes(w, v)
  BY StoryHandle
<1>2. PICK y : y = w[1]
  OBVIOUS
<1>3. y = v[2]
  <2>1. 1 \in Nat /\ 1 + 1 = 2
    OBVIOUS
  <2> QED BY <2>1, <1>1, <1>2 DEF Goes
<1>4. PICK s : s = inotify[1]
  OBVIOUS
<1>5. \/ W!HandleFile(s) \/ W!HandleNewDir(s) \/ W!HandleDeletedDir(s)
      \/ W!HandleMovedFrom(s) \/ W!HandleMovedTo(s)
  BY <1>4, SignalLess
<1>6. Listing'
  BY ListingHandle DEF Knowing
<1>7. clean' => clean
  BY <1>5 DEF W!HandleFile, W!HandleNewDir, W!HandleDeletedDir, W!HandleMovedFrom, W!HandleMovedTo, W!Push, W!PushIf
<1>8. ASSUME clean' PROVE FilesTold(w)'
  BY <1>1, <1>7, <1>8, FilesToldLess DEF Knowing
<1>9. ASSUME clean', NEW n \in Name PROVE AgreesOn(v[2], n)' /\ Orderly(n)'
  BY <1>4, <1>5, <1>9, KnowingFile, KnowingNew, KnowingLeft, KnowingMove
<1>10. ASSUME clean' PROVE Agrees(w)' /\ \A n \in Name : Orderly(n)'
  <2>1. \A n \in Name : AgreesOn(y, n)'
    BY <1>3, <1>9, <1>10
  <2>2. \A n \in Name : AgreesOn(w[1], n)'
    BY <1>2, <2>1
  <2> QED BY <2>2, <1>9, <1>10 DEF Agrees
<1> QED BY <1>1, <1>6, <1>8, <1>10 DEF Knowing

\* At first the servers have the tree.
LEMMA KnowingInit == ASSUME W!Init PROVE \E v : Story(v) /\ Knowing(v)
<1>1. PICK v : Story(v)
  BY StoryInit
<1>2. WatcherType
  BY WatcherTypeInit
<1>3. /\ inotify = <<>> /\ eventQueue = <<>> /\ Len(inotify) = 0 /\ Len(eventQueue) = 0 /\ DOMAIN eventQueue = {}
      /\ known = W!Tree /\ row = {p \in W!Path : W!Tree[p] # None} /\ snapshot = row
      /\ \A n \in Name : \A i, j \in W!DirAt(n) : i = j
  <2>1. /\ inotify = <<>> /\ eventQueue = <<>>
        /\ known = W!Tree /\ row = {p \in W!Path : W!Tree[p] # None} /\ snapshot = row
        /\ \A n \in Name : \A i, j \in W!DirAt(n) : i = j
    BY DEF W!Init
  <2> QED BY <2>1
<1>4. ASSUME NEW n \in Name
      PROVE  /\ known[<<n>>] = IF W!DirAt(n) # {} THEN "dir" ELSE None
             /\ known[W!FileIn(n)] = W!TextAt(n)
             /\ <<n>> \in row <=> known[<<n>>] # None
             /\ W!FileIn(n) \in row <=> known[W!FileIn(n)] # None
  <2>1. <<n>> \in W!Path /\ W!FileIn(n) \in W!Path
    BY PathType
  <2>2. <<n>> \in W!DirPath /\ W!FileIn(n) \notin W!DirPath /\ <<n>>[1] = n /\ W!FileIn(n)[1] = n
    BY PathsDiffer
  <2> QED BY <2>1, <2>2, <1>3 DEF W!Tree
<1>5. ASSUME NEW n \in Name, NEW i \in Inode
      PROVE  v[1][i] = n <=> i \in W!DirAt(n)
  <2>1. v[1][i] = Where(i)
    BY <1>1, <1>3 DEF Story
  <2> QED BY <2>1, TreesFit DEF Where, W!InTree, W!DirAt
<1>6. ASSUME NEW n \in Name
      PROVE  /\ W!TextAt(n) \in {None} \cup W!Text
             /\ W!TextAt(n) # None => W!DirAt(n) # {}
             /\ \A i \in W!DirAt(n) : W!TextAt(n) = file[i]
  <2>1. W!TextAt(n) \in {None} \cup W!Text
    BY <1>2, TextType
  <2>2. ASSUME NEW i \in W!DirAt(n) PROVE W!TextAt(n) = file[i]
    <3>1. \A j \in W!DirAt(n) : j = i
      BY <1>3
    <3> QED BY <3>1 DEF W!TextAt
  <2> QED BY <2>1, <2>2 DEF W!TextAt
<1>7. Listing
  BY <1>3, <1>4, <1>6 DEF Listing
<1>8. FilesTold(v)
  BY <1>3 DEF FilesTold
<1>9. ASSUME NEW n \in Name PROVE Orderly(n)
  BY <1>3, <1>4 DEF Orderly
<1>10. ASSUME NEW n \in Name
       PROVE  (WillHaveDir(n) <=> known[<<n>>] # None) /\ (WillHaveFile(n) <=> known[W!FileIn(n)] # None)
  BY <1>3 DEF WillHaveDir, WillHaveFile, Ends
<1>11. ASSUME NEW n \in Name PROVE AgreesOn(v[1], n)
  <2>1. WillHaveDir(n) <=> W!DirAt(n) # {}
    BY <1>4, <1>10, PathsFit
  <2>2. WillHaveFile(n) <=> W!TextAt(n) # None
    BY <1>4, <1>10
  <2>3. W!DirAt(n) \subseteq Inode
    BY DEF W!DirAt
  <2> QED BY <2>1, <2>2, <2>3, <1>3, <1>4, <1>5, <1>6 DEF AgreesOn
<1> QED BY <1>1, <1>7, <1>8, <1>9, <1>11 DEF Knowing, Agrees

\* When all events are processed, what the servers are to have is what they
\* have.
LEMMA KnowingTells == ASSUME WatcherType, NEW v, Story(v), Knowing(v) PROVE KnownIsTree
<1> SUFFICES ASSUME inotify = <<>>, eventQueue = <<>>, clean PROVE known = W!Tree
  BY DEF KnownIsTree, W!KnownIsTree, W!Settled
<1>1. Len(inotify) = 0 /\ Len(eventQueue) = 0 /\ DOMAIN eventQueue = {} /\ 1 \in Steps
  BY DEF Steps
<1>2. Listing /\ Agrees(v)
  BY DEF Knowing
<1>3. ASSUME NEW n \in Name, NEW i \in Inode
      PROVE  v[1][i] = n <=> i \in W!DirAt(n)
  <2>1. v[1][i] = Where(i)
    BY <1>1 DEF Story
  <2> QED BY <2>1, TreesFit DEF Where, W!InTree, W!DirAt
<1>4. W!DirPath = {<<n>> : n \in Name} /\ \A n \in Name : W!DirAt(n) \subseteq Inode
  BY DEF W!DirPath, W!DirAt
<1>5. ASSUME NEW n \in Name
      PROVE  (WillHaveDir(n) <=> known[<<n>>] # None) /\ (WillHaveFile(n) <=> known[W!FileIn(n)] # None)
  BY <1>1 DEF WillHaveDir, WillHaveFile, Ends
<1>6. ASSUME NEW n \in Name PROVE known[<<n>>] = IF W!DirAt(n) # {} THEN "dir" ELSE None
  <2>1. known[<<n>>] \in {None, "dir"}
    BY <1>2 DEF Listing
  <2>2. known[<<n>>] # None <=> \E i \in Inode : v[1][i] = n
    BY <1>2, <1>5 DEF Agrees, AgreesOn
  <2>3. (\E i \in Inode : v[1][i] = n) <=> W!DirAt(n) # {}
    BY <1>3, <1>4
  <2> QED BY <2>1, <2>2, <2>3, PathsFit
<1>7. ASSUME NEW n \in Name PROVE known[W!FileIn(n)] = W!TextAt(n)
  <2>1. CASE W!DirAt(n) = {}
    <3>1. known[W!FileIn(n)] = None
      BY <2>1, <1>2, <1>3, <1>4, <1>5 DEF Agrees, AgreesOn
    <3> QED BY <3>1, <2>1 DEF W!TextAt
  <2>2. ASSUME NEW i \in W!DirAt(n) PROVE known[W!FileIn(n)] = W!TextAt(n)
    <3>1. i \in Inode /\ v[1][i] = n
      BY <1>3, <1>4
    <3>2. ~Pends(i) /\ ~Texts(i) /\ \A l \in 1..Len(inotify) : ~Turns(inotify[l], i)
      BY <1>1 DEF Pends, Texts
    <3>3. W!TextAt(n) = file[i]
      BY <3>1, <3>2, <1>1, PlaceIs
    <3>4. known[W!FileIn(n)] # None <=> file[i] # None
      BY <3>1, <3>2, <1>2, <1>5 DEF Agrees, AgreesOn
    <3>5. file[i] # None => known[W!FileIn(n)] = file[i]
      BY <3>1, <3>2, <1>1, <1>2 DEF Agrees, AgreesOn
    <3> QED BY <3>3, <3>4, <3>5
  <2> QED BY <2>1, <2>2
<1>8. ASSUME NEW p \in W!Path PROVE known[p] = W!Tree[p]
  <2>1. CASE p \in W!DirPath
    <3>1. PICK n \in Name : p = <<n>>
      BY <2>1, <1>4
    <3> QED BY <2>1, <3>1, <1>6 DEF W!Tree
  <2>2. CASE p \notin W!DirPath
    <3>1. PICK n \in Name : p = W!FileIn(n)
      BY <2>2 DEF W!Path
    <3>2. W!FileIn(n)[1] = n
      BY PathsDiffer
    <3> QED BY <2>2, <3>1, <3>2, <1>7 DEF W!Tree
  <2> QED BY <2>1, <2>2
<1>9. known \in [W!Path -> {None, "dir"} \cup W!Text]
  BY DEF WatcherType, W!TypeOK
<1>10. W!Tree = [p \in W!Path |-> W!Tree[p]]
  BY DEF W!Tree
<1> QED BY <1>8, <1>9, <1>10

\* What the servers know follows every step.
LEMMA KnowingStep ==
    ASSUME WatcherType, \E v : Story(v) /\ Knowing(v), [W!Next]_(W!vars)
    PROVE  \E v : Story(v)' /\ Knowing(v)'
<1>1. PICK v : Story(v) /\ Knowing(v)
  OBVIOUS
<1>2. CASE W!User
  BY <1>1, <1>2, KnowingUser
<1>3. CASE W!Handle
  BY <1>1, <1>3, KnowingHandle
<1>4. ASSUME UNCHANGED <<place, inotify, watched, path, moved, clean>> PROVE Story(v)'
  BY <1>1, <1>4 DEF Story, Steps, Heeded, Where, W!InTree
<1>5. CASE W!ProcessEvent
  <2>1. UNCHANGED <<place, inotify, watched, path, moved, clean>>
    BY <1>5 DEF W!ProcessEvent, W!tree, W!watcher
  <2>2. eventQueue # <<>>
    BY <1>5 DEF W!ProcessEvent, WatcherType
  <2> QED BY <2>1, <2>2, <1>1, <1>4, <1>5, KnowingProcess
<1>6. CASE UNCHANGED <<place, file, inotify, watched, path, snapshot, moved, eventQueue, row, known, clean>>
  <2>1. Story(v)'
    BY <1>4, <1>6
  <2>2. Listing' <=> Listing
    BY <1>6 DEF Listing, W!FileIn, W!DirPath, W!Text
  <2>3. FilesTold(v)' <=> FilesTold(v)
    BY <1>6 DEF FilesTold, Fills
  <2>4. ASSUME NEW n \in Name
        PROVE  /\ DirAdds(n)' = DirAdds(n) /\ DirRemoves(n)' = DirRemoves(n) /\ FileAdds(n)' = FileAdds(n)
               /\ FileRemoves(n)' = FileRemoves(n) /\ FileWrites(n)' = FileWrites(n) /\ W!FileIn(n)' = W!FileIn(n)
    BY DEF DirAdds, DirRemoves, FileAdds, FileRemoves, FileWrites, W!FileIn, W!LocalEvent, W!Adds, W!Removes,
           W!Path, W!DirPath
  <2>5. \A n \in Name : Orderly(n)' <=> Orderly(n)
    BY <2>4, <1>6 DEF Orderly
  <2>6. \A n \in Name : (WillHaveDir(n)' <=> WillHaveDir(n)) /\ (WillHaveFile(n)' <=> WillHaveFile(n))
    BY <2>4, <1>6 DEF WillHaveDir, WillHaveFile
  <2>7. \A i \in Inode : (Pends(i)' <=> Pends(i)) /\ (Texts(i)' <=> Texts(i))
    BY <1>6 DEF Pends, Texts, Turns, Fills
  <2>8. Agrees(v)' <=> Agrees(v)
    BY <2>4, <2>6, <2>7, <1>6 DEF Agrees, AgreesOn
  <2> QED BY <2>1, <2>2, <2>3, <2>5, <2>8, <1>1, <1>6 DEF Knowing
<1>7. \/ W!User \/ W!Handle \/ W!ProcessEvent
      \/ UNCHANGED <<place, file, inotify, watched, path, snapshot, moved, eventQueue, row, known, clean>>
  BY DEF W!Next, W!Drain, W!vars, W!tree, W!watcher, W!sync
<1> QED BY <1>2, <1>3, <1>5, <1>6, <1>7

\* When every event is handled and no change was missed, the servers have the tree.
THEOREM ServersKnow == W!Spec => []KnownIsTree
<1> DEFINE Inv == WatcherType /\ \E v : Story(v) /\ Knowing(v)
<1>1. W!Init => Inv
  BY WatcherTypeInit, KnowingInit
<1>2. Inv /\ [W!Next]_(W!vars) => Inv'
  BY WatcherTypeStep, KnowingStep
<1>3. Inv => KnownIsTree
  BY KnowingTells
<1> HIDE DEF Inv
<1> QED BY <1>1, <1>2, <1>3, PTL DEF W!Spec
=============================================================================
