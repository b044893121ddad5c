-------------------------- MODULE MetaserverProofs --------------------------
(***************************************************************************)
(* What TLAPS proves of Metaserver, for every tree of paths, any number of  *)
(* requests, and calls that fail or do not: the DeletionManager forgets no  *)
(* content and leaves nothing queued (the first half), and a directory      *)
(* whose requests never overlap, fail or delete it lists what it holds (the *)
(* second half, UndisturbedDirectory): what create_file, create_directory   *)
(* and delete_path do to a parent's metadata call by call is right as long  *)
(* as they take turns.                                                      *)
(***************************************************************************)
EXTENDS Metaserver, TLAPS

-----------------------------------------------------------------------------
(* Types. *)

\* Requests whose deletion is queued, or under way.
DeletesFile(r) == r \in Request /\ want[r].op = "delete" /\ PathOf(r) \in File

\* What TypeOK needs to be inductive: the worker has a batch while it works,
\* and what it deletes are files.
BatchWhileWorking == worker = "work" <=> batch # <<>>
QueuedAreFiles ==
    /\ \A i \in DOMAIN queue : DeletesFile(queue[i])
    /\ \A i \in DOMAIN batch : DeletesFile(batch[i])

\* The handlers of the three phases of a deletion, of a creation, of an upload.
Program ==
    \A r \in Request :
        /\ pc[r] \in {"remove", "unlist", "unlink"} => want[r].op = "delete"
        /\ pc[r] \in {"parent", "own", "link", "linkFail"} => want[r].op \in {"mkdir", "create"}
        /\ pc[r] = "store" => want[r].op = "upload"

TypeInv == TypeOK /\ BatchWhileWorking /\ QueuedAreFiles /\ Program

\* A request is about a path below the root, whose parent is a directory.
LEMMA PathTypes ==
    ASSUME TypeOK, NEW r \in Request
    PROVE  /\ want[r] \in Want /\ PathOf(r) \in Child /\ ParentOf(r) \in Dir
           /\ Touches(r) \subseteq Dir
           /\ want[r].op = "upload" => PathOf(r) \in File
           /\ want[r].op = "create" => PathOf(r) \in File
           /\ want[r].op = "mkdir" => PathOf(r) \in Dir
<1>1. want[r] \in Want
  BY DEF TypeOK
<1>2. /\ PathOf(r) \in Child
      /\ want[r].op \in {"upload", "create"} => PathOf(r) \in File
      /\ want[r].op = "mkdir" => PathOf(r) \in Dir
  BY <1>1, PathAssumption DEF Want, PathOf, Child, Path
<1>3. ParentOf(r) \in Dir
  BY <1>2, PathAssumption DEF ParentOf, Child
<1>4. QED
  BY <1>1, <1>2, <1>3 DEF Touches

\* A freshly started system has the types.
LEMMA InitType == Init => TypeInv
<1> SUFFICES ASSUME Init PROVE TypeInv
  OBVIOUS
<1>1. PICK S \in Trees :
         /\ meta = S
         /\ listing = [d \in Dir |-> ChildrenIn(S, d)]
         /\ block = [f \in File |-> IF f \in S THEN Old ELSE None]
         /\ news = [p \in Child |-> IF p \in S THEN "+" ELSE "-"]
  BY DEF Init
<1>2. meta \subseteq Path /\ listing \in [Dir -> SUBSET Child]
  BY <1>1 DEF Trees, ChildrenIn, Child
<1>3. block \in [File -> Request \cup {Old, None}] /\ news \in [Child -> {"+", "-"}]
  BY <1>1
<1>4. TypeOK
  <2>1. /\ want \in [Request -> Want]
        /\ pc \in [Request -> {"idle", "parent", "own", "link", "linkFail", "remove",
                               "unlist", "unlink", "store", "ok", "error"}]
        /\ copy \in [Request -> SUBSET Child]
    BY DEF Init
  <2>2. /\ queue \in Seq(Request) /\ batch \in Seq(Request)
        /\ worker \in {"wait", "work", "ended"} /\ stop \in BOOLEAN
        /\ disturbed \subseteq Dir /\ late \subseteq Request /\ gaveUp \subseteq File
    <3>1. /\ queue = <<>> /\ batch = <<>> /\ worker = "wait" /\ stop = FALSE
          /\ disturbed = {} /\ late = {} /\ gaveUp = {}
      BY DEF Init
    <3>2. queue \in Seq(Request) /\ batch \in Seq(Request)
      BY <3>1
    <3>3. worker \in {"wait", "work", "ended"} /\ stop \in BOOLEAN
      BY <3>1
    <3>4. QED
      BY <3>1, <3>2, <3>3
  <2>3. QED
    BY <1>2, <1>3, <2>1, <2>2 DEF TypeOK
<1>5. BatchWhileWorking /\ QueuedAreFiles /\ Program
  BY DEF Init, BatchWhileWorking, QueuedAreFiles, Program
<1>6. QED
  BY <1>4, <1>5 DEF TypeInv

\* A call that writes a listing keeps the stores' types.
LEMMA SetsListingType ==
    ASSUME TypeOK, NEW c, NEW d \in Dir, NEW v \in SUBSET Child, SetsListing(c, d, v)
    PROVE  /\ meta' \subseteq Path /\ listing' \in [Dir -> SUBSET Child]
           /\ meta \subseteq meta'
BY DEF TypeOK, SetsListing, Path

\* The history of disturbed directories keeps its type.
LEMMA RecordType ==
    ASSUME TypeOK, NEW r \in Request, NEW failed, Record(r, failed)
    PROVE  disturbed' \subseteq Dir
<1>1. \A s \in Request : Touches(s) \subseteq Dir
  BY PathTypes
<1>2. \A s \in Meets(r) \cup {r} : Touches(s) \subseteq Dir
  BY <1>1 DEF Meets
<1>3. QED
  BY <1>1, <1>2 DEF Record, TypeOK

\* What the steps of the handlers leave alone or set: program counters.
LEMMA GoesType ==
    ASSUME TypeInv, NEW r \in Request,
           NEW label \in {"idle", "parent", "own", "link", "linkFail", "remove",
                          "unlist", "unlink", "store", "ok", "error"},
           Goes(r, label), UNCHANGED want,
           label \in {"remove", "unlist", "unlink"} => want[r].op = "delete",
           label \in {"parent", "own", "link", "linkFail"} => want[r].op \in {"mkdir", "create"},
           label = "store" => want[r].op = "upload"
    PROVE  /\ pc' \in [Request -> {"idle", "parent", "own", "link", "linkFail", "remove",
                                   "unlist", "unlink", "store", "ok", "error"}]
           /\ Program'
BY DEF TypeInv, TypeOK, Goes, Program

\* TypeInv after the first call of a handler.
LEMMA CheckType == ASSUME TypeInv, NEW r \in Request, Check(r) PROVE TypeInv'
<1>t. TypeOK
  BY DEF TypeInv
<1>1. PICK found \in Finds(PathOf(r)) :
         /\ Goes(r, CASE want[r].op = "create" -> IF found THEN "ok" ELSE "parent"
                      [] want[r].op = "mkdir"  -> IF found THEN "error" ELSE "parent"
                      [] want[r].op = "delete" -> IF found THEN "remove" ELSE "error"
                      [] want[r].op = "upload" -> IF found THEN "store" ELSE "error")
         /\ Record(r, found # (PathOf(r) \in meta))
  BY DEF Check
<1>2. disturbed' \subseteq Dir
  BY <1>1, <1>t, RecordType
<1>3. want[r].op \in {"create", "mkdir", "delete", "upload"}
  BY <1>t, PathTypes DEF Want
<1>4. UNCHANGED <<stores, want, copy, deletion, news, late, gaveUp>>
  BY DEF Check
<1>5. /\ pc' \in [Request -> {"idle", "parent", "own", "link", "linkFail", "remove",
                              "unlist", "unlink", "store", "ok", "error"}]
      /\ Program'
  <2>1. CASE want[r].op = "create"
    BY <2>1, <1>1, <1>4 DEF Goes, TypeInv, TypeOK, Program
  <2>2. CASE want[r].op = "mkdir"
    BY <2>2, <1>1, <1>4 DEF Goes, TypeInv, TypeOK, Program
  <2>3. CASE want[r].op = "delete"
    BY <2>3, <1>1, <1>4 DEF Goes, TypeInv, TypeOK, Program
  <2>4. CASE want[r].op = "upload"
    BY <2>4, <1>1, <1>4 DEF Goes, TypeInv, TypeOK, Program
  <2>5. QED
    BY <1>3, <2>1, <2>2, <2>3, <2>4
<1>6. QED
  BY <1>2, <1>4, <1>5 DEF TypeInv, TypeOK, stores, deletion, BatchWhileWorking, QueuedAreFiles,
                          DeletesFile, PathOf

\* TypeInv after the other calls of create_file and create_directory.
LEMMA CreateType ==
    ASSUME TypeInv, NEW r \in Request, ReadParent(r) \/ WriteOwn(r) \/ Link(r)
    PROVE  TypeInv'
<1>t. TypeOK
  BY DEF TypeInv
<1>p. /\ PathOf(r) \in Child /\ ParentOf(r) \in Dir /\ PathOf(r) \in Path
      /\ listing[ParentOf(r)] \in SUBSET Child /\ copy[r] \in SUBSET Child
  BY <1>t, PathTypes DEF TypeOK, Child
<1>o. want[r].op \in {"mkdir", "create"}
  BY DEF ReadParent, WriteOwn, Link, TypeInv, Program
<1>1. disturbed' \subseteq Dir
  BY <1>t, RecordType DEF ReadParent, WriteOwn, Link
<1>2. UNCHANGED <<block, want, queue, batch, worker, stop, late, gaveUp>>
  BY DEF ReadParent, WriteOwn, Link, stores, deletion
<1>3. meta' \subseteq Path /\ listing' \in [Dir -> SUBSET Child]
  <2>1. CASE ReadParent(r)
    BY <2>1, <1>t DEF ReadParent, stores, TypeOK
  <2>2. CASE WriteOwn(r)
    <3>1. CASE PathOf(r) \in Dir
      BY <2>2, <3>1, <1>t, SetsListingType DEF WriteOwn
    <3>2. CASE PathOf(r) \notin Dir
      BY <2>2, <3>2, <1>t, <1>p DEF WriteOwn, TypeOK
    <3>3. QED
      BY <3>1, <3>2
  <2>3. CASE Link(r)
    BY <2>3, <1>t, <1>p, SetsListingType DEF Link
  <2>4. QED
    BY <2>1, <2>2, <2>3
<1>4. copy' \in [Request -> SUBSET Child] /\ news' \in [Child -> {"+", "-"}]
  BY <1>t, <1>p DEF ReadParent, WriteOwn, Link, Broadcast, TypeOK
<1>5. /\ pc' \in [Request -> {"idle", "parent", "own", "link", "linkFail", "remove",
                              "unlist", "unlink", "store", "ok", "error"}]
      /\ Program'
  <2>1. \E label \in {"own", "link", "linkFail", "ok", "error"} : Goes(r, label)
    BY DEF ReadParent, WriteOwn, Link
  <2>2. QED
    BY <2>1, <1>2, <1>o, GoesType
<1>6. QED
  BY <1>t, <1>1, <1>2, <1>3, <1>4, <1>5 DEF TypeInv, TypeOK, BatchWhileWorking, QueuedAreFiles,
                                          DeletesFile, PathOf

\* TypeInv after the calls of delete_path and of an upload.
LEMMA DeleteType ==
    ASSUME TypeInv, NEW r \in Request, Remove(r) \/ Unlist(r) \/ Unlink(r) \/ Store(r)
    PROVE  TypeInv'
<1>t. TypeOK
  BY DEF TypeInv
<1>p. /\ PathOf(r) \in Child /\ ParentOf(r) \in Dir
      /\ listing[ParentOf(r)] \in SUBSET Child /\ copy[r] \in SUBSET Child
  BY <1>t, PathTypes DEF TypeOK
<1>1. disturbed' \subseteq Dir
  BY <1>t, RecordType DEF Remove, Unlist, Unlink, Store, TypeOK
<1>2. UNCHANGED <<want, batch, worker, stop, gaveUp>>
  BY DEF Remove, Unlist, Unlink, Store, Enqueue, deletion
<1>3. meta' \subseteq Path /\ listing' \in [Dir -> SUBSET Child]
  <2>1. CASE Unlink(r)
    <3>1. copy[r] \ {PathOf(r)} \in SUBSET Child
      BY <1>p
    <3>2. QED
      BY <2>1, <3>1, <1>t, <1>p, SetsListingType DEF Unlink
  <2>2. CASE Remove(r) \/ Unlist(r) \/ Store(r)
    BY <2>2, <1>t DEF Remove, Unlist, Store, stores, TypeOK
  <2>3. QED
    BY <2>1, <2>2
<1>4. block' \in [File -> Request \cup {Old, None}] /\ late' \subseteq Request
  BY <1>t DEF Remove, Unlist, Unlink, Store, stores, TypeOK
<1>5. copy' \in [Request -> SUBSET Child] /\ news' \in [Child -> {"+", "-"}]
  BY <1>t, <1>p DEF Remove, Unlist, Unlink, Store, Broadcast, TypeOK
<1>6. /\ pc' \in [Request -> {"idle", "parent", "own", "link", "linkFail", "remove",
                              "unlist", "unlink", "store", "ok", "error"}]
      /\ Program'
  <2>1. \/ want[r].op = "delete" /\ \E label \in {"unlist", "unlink", "ok"} : Goes(r, label)
        \/ Goes(r, "ok")
    BY DEF Remove, Unlist, Unlink, Store, TypeInv, Program
  <2>2. QED
    BY <2>1, <1>2, GoesType
<1>7. queue' \in Seq(Request) /\ QueuedAreFiles'
  <2>1. CASE Unlist(r) /\ PathOf(r) \in File
    <3>1. queue' = Append(queue, r) /\ DeletesFile(r)
      BY <2>1 DEF Unlist, Enqueue, TypeInv, Program, DeletesFile
    <3>2. \A s : DeletesFile(s)' <=> DeletesFile(s)
      BY <1>2 DEF DeletesFile, PathOf
    <3>3. /\ queue \in Seq(Request) /\ queue' \in Seq(Request)
          /\ \A i \in DOMAIN queue' : (i \in DOMAIN queue /\ queue'[i] = queue[i]) \/ queue'[i] = r
      BY <3>1, <1>t DEF TypeOK
    <3>4. \A i \in DOMAIN queue' : DeletesFile(queue'[i])
      BY <3>1, <3>3 DEF TypeInv, QueuedAreFiles
    <3>5. QED
      BY <3>2, <3>3, <3>4, <1>2 DEF TypeInv, QueuedAreFiles
  <2>2. CASE queue' = queue
    <3>1. \A s : DeletesFile(s)' <=> DeletesFile(s)
      BY <1>2 DEF DeletesFile, PathOf
    <3>2. QED
      BY <2>2, <3>1, <1>t, <1>2 DEF TypeInv, QueuedAreFiles, TypeOK
  <2>3. QED
    BY <2>1, <2>2 DEF Remove, Unlist, Unlink, Store, Enqueue, deletion
<1>8. QED
  BY <1>t, <1>1, <1>2, <1>3, <1>4, <1>5, <1>6, <1>7
     DEF TypeInv, TypeOK, BatchWhileWorking, QueuedAreFiles, DeletesFile, PathOf

\* TypeInv after the steps of the worker and of exit().
LEMMA WorkerType ==
    ASSUME TypeInv, TakeBatch \/ DeleteBlock \/ Stop \/ WorkerEnds PROVE TypeInv'
<1>t. TypeOK
  BY DEF TypeInv
<1>1. UNCHANGED <<meta, listing, want, pc, copy, news, disturbed, late>>
  BY DEF TakeBatch, DeleteBlock, Stop, WorkerEnds, stores, requests, history
<1>2. CASE TakeBatch
  BY <1>2, <1>1, <1>t DEF TakeBatch, TypeInv, TypeOK, BatchWhileWorking, QueuedAreFiles, DeletesFile,
                       PathOf, Program, stores, history
<1>3. CASE DeleteBlock
  <2>1. batch # <<>> /\ batch \in Seq(Request) /\ Head(batch) = batch[1] /\ 1 \in DOMAIN batch
    BY <1>3, <1>t DEF DeleteBlock, TypeInv, BatchWhileWorking, TypeOK
  <2>2. PathOf(Head(batch)) \in File
    BY <2>1 DEF TypeInv, QueuedAreFiles, DeletesFile
  <2>3. block' \in [File -> Request \cup {Old, None}] /\ gaveUp' \subseteq File
    BY <1>3, <2>2, <1>t DEF DeleteBlock, TypeOK
  <2>4. /\ batch' = Tail(batch) /\ batch' \in Seq(Request)
        /\ worker' = IF batch' = <<>> THEN "wait" ELSE "work"
        /\ UNCHANGED <<stop, queue>>
    BY <1>3, <2>1 DEF DeleteBlock, AfterKey
  <2>5. \A i \in DOMAIN batch' : i + 1 \in DOMAIN batch /\ batch'[i] = batch[i + 1]
    BY <2>1, <2>4
  <2>6. \A s : DeletesFile(s)' <=> DeletesFile(s)
    BY <1>1 DEF DeletesFile, PathOf
  <2>7. QueuedAreFiles'
    BY <2>4, <2>5, <2>6 DEF TypeInv, QueuedAreFiles
  <2>8. QED
    BY <1>1, <1>t, <2>3, <2>4, <2>7 DEF TypeInv, TypeOK, BatchWhileWorking, Program
<1>4. CASE Stop \/ WorkerEnds
  BY <1>4, <1>1, <1>t DEF Stop, WorkerEnds, TypeInv, TypeOK, BatchWhileWorking, QueuedAreFiles,
                       DeletesFile, PathOf, Program, stores, history
<1>5. QED
  BY <1>2, <1>3, <1>4

\* TypeInv is inductive.
LEMMA StepType == TypeInv /\ [Next]_vars => TypeInv'
<1>1. TypeInv /\ UNCHANGED vars => TypeInv'
  BY DEF vars, stores, requests, deletion, history, TypeInv, TypeOK, BatchWhileWorking,
         QueuedAreFiles, DeletesFile, PathOf, Program
<1>2. QED
  BY <1>1, CheckType, CreateType, DeleteType, WorkerType DEF Next, Handle

\* The metaserver, its stores and its worker keep their types (TypeOK).
THEOREM TypeCorrect == Spec => []TypeOK
<1>1. TypeInv => TypeOK
  BY DEF TypeInv
<1>2. QED
  BY <1>1, InitType, StepType, PTL DEF Spec

-----------------------------------------------------------------------------
(* Stopping. *)

\* StopDrainsQueue is inductive with TypeInv: nothing is enqueued after the
\* worker has ended, and it ends between two batches.
LEMMA StopStep == TypeInv /\ StopDrainsQueue /\ [Next]_vars => StopDrainsQueue'
<1> SUFFICES ASSUME TypeInv, StopDrainsQueue, [Next]_vars PROVE StopDrainsQueue'
  OBVIOUS
<1>1. CASE UNCHANGED <<queue, batch, worker>>
  BY <1>1 DEF StopDrainsQueue
<1>2. ASSUME NEW r \in Request, Unlist(r) PROVE StopDrainsQueue'
  BY <1>2 DEF Unlist, Goes, Enqueue, StopDrainsQueue
<1>3. CASE TakeBatch \/ DeleteBlock
  BY <1>3 DEF TakeBatch, DeleteBlock, AfterKey, StopDrainsQueue
<1>4. CASE WorkerEnds
  BY <1>4 DEF WorkerEnds, Ends, TypeInv, BatchWhileWorking, StopDrainsQueue
<1>5. QED
  BY <1>1, <1>2, <1>3, <1>4 DEF Next, Handle, Check, ReadParent, WriteOwn, Link, Remove, Unlink,
                               Store, Stop, vars, deletion

\* A server that is stopped deletes what is queued before its worker ends
\* (StopDrainsQueue): process() leaves nothing in queue or batch.
THEOREM QueueDrained == Spec => []StopDrainsQueue
<1>1. Init => StopDrainsQueue
  BY DEF Init, StopDrainsQueue
<1>2. QED
  BY <1>1, InitType, StepType, StopStep, PTL DEF Spec

-----------------------------------------------------------------------------
(* Content of deleted files. *)

ContentInv == TypeInv /\ NoForgottenContent

\* What is garbage after a step that deletes no metadata and stores no
\* content was garbage before it.
LEMMA NoNewGarbage ==
    ASSUME NEW f \in File, meta \subseteq meta', UNCHANGED block,
           late \subseteq late', gaveUp \subseteq gaveUp', Garbage(f)'
    PROVE  Garbage(f)
BY DEF Garbage

\* It stays pending while program counters at "unlist", queue and batch stay.
LEMMA PendingKept ==
    ASSUME NEW f \in File, Pending(f), UNCHANGED <<want, queue, batch>>,
           \A s \in Request : pc[s] = "unlist" => pc'[s] = "unlist"
    PROVE  Pending(f)'
BY DEF Pending, PathOf

\* Requests that do not delete leave garbage pending.
LEMMA OthersKeep ==
    ASSUME ContentInv, NEW r \in Request,
           Check(r) \/ ReadParent(r) \/ WriteOwn(r) \/ Link(r) \/ Unlink(r)
    PROVE  NoForgottenContent'
<1>t. TypeOK
  BY DEF ContentInv, TypeInv
<1>1. UNCHANGED <<block, want, queue, batch, late, gaveUp>>
  BY DEF Check, ReadParent, WriteOwn, Link, Unlink, stores, deletion
<1>2. meta \subseteq meta'
  BY DEF Check, ReadParent, WriteOwn, Link, Unlink, SetsListing, stores
<1>3. \A s \in Request : pc[s] = "unlist" => pc'[s] = "unlist"
  BY <1>t DEF Check, ReadParent, WriteOwn, Link, Unlink, Goes, TypeOK
<1>4. QED
  BY <1>1, <1>2, <1>3, NoNewGarbage, PendingKept DEF ContentInv, NoForgottenContent

\* The deletion of metadata makes the content pending.
LEMMA RemoveKeeps == ASSUME ContentInv, NEW r \in Request, Remove(r) PROVE NoForgottenContent'
<1> SUFFICES ASSUME NEW f \in File, Garbage(f)' PROVE Pending(f)'
  BY DEF NoForgottenContent
<1>1. /\ UNCHANGED <<block, want, queue, batch, late, gaveUp>>
      /\ pc'[r] = "unlist" /\ \A s \in Request : s # r => pc'[s] = pc[s]
      /\ want[r].op = "delete"
      /\ meta \ {PathOf(r)} \subseteq meta'
  BY DEF Remove, Goes, deletion, ContentInv, TypeInv, TypeOK, Program
<1>2. CASE f = PathOf(r)
  BY <1>1, <1>2 DEF Pending, PathOf
<1>3. CASE f # PathOf(r)
  <2>1. Garbage(f)
    BY <1>1, <1>3 DEF Garbage
  <2>2. Pending(f)
    BY <2>1 DEF ContentInv, NoForgottenContent
  <2>3. QED
    BY <1>1, <2>2, PendingKept
<1>4. QED
  BY <1>2, <1>3

\* delete_path enqueues on every path that follows.
LEMMA UnlistKeeps == ASSUME ContentInv, NEW r \in Request, Unlist(r) PROVE NoForgottenContent'
<1> SUFFICES ASSUME NEW f \in File, Garbage(f)' PROVE Pending(f)'
  BY DEF NoForgottenContent
<1>1. /\ UNCHANGED <<meta, block, want, batch, late, gaveUp>>
      /\ \A s \in Request : s # r => pc'[s] = pc[s]
      /\ queue' = IF PathOf(r) \in File THEN Append(queue, r) ELSE queue
      /\ queue \in Seq(Request) /\ want[r].op = "delete"
  BY DEF Unlist, Enqueue, Goes, stores, ContentInv, TypeInv, TypeOK, Program
<1>2. Garbage(f) /\ Pending(f)
  BY <1>1, NoNewGarbage DEF ContentInv, NoForgottenContent
<1>3. PICK s \in Request :
        /\ want[s].op = "delete" /\ PathOf(s) = f
        /\ \/ pc[s] = "unlist"
           \/ \E i \in DOMAIN queue : queue[i] = s
           \/ \E i \in DOMAIN batch : batch[i] = s
  BY <1>2 DEF Pending
<1>4. \A i \in DOMAIN queue : i \in DOMAIN queue' /\ queue'[i] = queue[i]
  BY <1>1
<1>5. CASE s = r
  <2>1. Len(queue) + 1 \in DOMAIN queue' /\ queue'[Len(queue) + 1] = r
    BY <1>1, <1>3, <1>5
  <2>2. QED
    BY <1>1, <1>3, <1>5, <2>1 DEF Pending, PathOf
<1>6. CASE s # r
  BY <1>1, <1>3, <1>4, <1>6 DEF Pending, PathOf
<1>7. QED
  BY <1>5, <1>6

\* An upload stores content of a file that exists, or is late.
LEMMA StoreKeeps == ASSUME ContentInv, NEW r \in Request, Store(r) PROVE NoForgottenContent'
<1> SUFFICES ASSUME NEW f \in File, Garbage(f)' PROVE Pending(f)'
  BY DEF NoForgottenContent
<1>1. /\ UNCHANGED <<meta, want, queue, batch, gaveUp>> /\ late \subseteq late'
      /\ \A s \in Request : pc[s] = "unlist" => pc'[s] = "unlist"
  BY DEF Store, Goes, deletion, ContentInv, TypeInv, TypeOK
<1>2. Garbage(f)
  <2>1. CASE UNCHANGED <<block, late>>
    BY <1>1, <2>1, NoNewGarbage
  <2>2. CASE /\ block' = [block EXCEPT ![PathOf(r)] = r]
             /\ late' = IF PathOf(r) \in meta THEN late ELSE late \cup {r}
    <3>1. CASE f = PathOf(r)
      <4>1. block'[f] = r
        BY <2>2, <3>1 DEF ContentInv, TypeInv, TypeOK
      <4>2. QED
        BY <1>1, <2>2, <3>1, <4>1 DEF Garbage
    <3>2. CASE f # PathOf(r)
      <4>1. block'[f] = block[f]
        BY <2>2, <3>2 DEF ContentInv, TypeInv, TypeOK
      <4>2. QED
        BY <1>1, <4>1 DEF Garbage
    <3>3. QED
      BY <3>1, <3>2
  <2>3. QED
    BY <2>1, <2>2 DEF Store
<1>3. Pending(f)
  BY <1>2 DEF ContentInv, NoForgottenContent
<1>4. QED
  BY <1>1, <1>3, PendingKept

\* The worker drops a key when its content is gone or could not be deleted.
LEMMA WorkerKeeps ==
    ASSUME ContentInv, TakeBatch \/ DeleteBlock \/ Stop \/ WorkerEnds
    PROVE  NoForgottenContent'
<1>1. UNCHANGED <<meta, want, pc, late>> /\ gaveUp \subseteq gaveUp'
  BY DEF TakeBatch, DeleteBlock, Stop, WorkerEnds, stores, requests, history
<1>2. CASE Stop \/ WorkerEnds
  <2>1. UNCHANGED <<block, queue, batch>>
    BY <1>2 DEF Stop, WorkerEnds, stores
  <2>2. QED
    BY <1>1, <2>1, NoNewGarbage, PendingKept DEF ContentInv, NoForgottenContent
<1>3. CASE TakeBatch
  <2>1. UNCHANGED block /\ batch' = queue /\ batch = <<>>
    BY <1>3 DEF TakeBatch, stores, ContentInv, TypeInv, BatchWhileWorking
  <2>2. ASSUME NEW f \in File, Pending(f) PROVE Pending(f)'
    BY <1>1, <2>1, <2>2 DEF Pending, PathOf
  <2>3. QED
    BY <1>1, <2>1, <2>2, NoNewGarbage DEF ContentInv, NoForgottenContent
<1>4. CASE DeleteBlock
  <2> SUFFICES ASSUME NEW f \in File, Garbage(f)' PROVE Pending(f)'
    BY DEF NoForgottenContent
  <2>1. /\ batch # <<>> /\ batch \in Seq(Request) /\ UNCHANGED queue
        /\ batch' = Tail(batch) /\ Head(batch) = batch[1]
    BY <1>4 DEF DeleteBlock, AfterKey, ContentInv, TypeInv, TypeOK, BatchWhileWorking
  <2>2. f # PathOf(Head(batch)) /\ block'[f] = block[f]
    BY <1>4 DEF DeleteBlock, Garbage, ContentInv, TypeInv, TypeOK
  <2>3. Pending(f)
    BY <1>1, <2>2 DEF Garbage, ContentInv, NoForgottenContent
  <2>4. PICK s \in Request :
          /\ want[s].op = "delete" /\ PathOf(s) = f
          /\ \/ pc[s] = "unlist"
             \/ \E i \in DOMAIN queue : queue[i] = s
             \/ \E i \in DOMAIN batch : batch[i] = s
    BY <2>3 DEF Pending
  <2>5. CASE pc[s] = "unlist" \/ \E i \in DOMAIN queue : queue[i] = s
    BY <1>1, <2>1, <2>4, <2>5 DEF Pending, PathOf
  <2>6. CASE \E i \in DOMAIN batch : batch[i] = s
    <3>1. PICK i \in DOMAIN batch : batch[i] = s
      BY <2>6
    <3>2. i # 1
      BY <2>1, <2>2, <2>4, <3>1
    <3>3. i - 1 \in DOMAIN batch' /\ batch'[i - 1] = s
      BY <2>1, <3>1, <3>2
    <3>4. QED
      BY <1>1, <2>4, <3>3 DEF Pending, PathOf
  <2>7. QED
    BY <2>4, <2>5, <2>6
<1>5. QED
  BY <1>2, <1>3, <1>4

\* Content without metadata is queued, about to be queued or in the worker's
\* batch (NoForgottenContent), whatever requests overlap and whichever calls
\* fail: the order in which delete_path works forgets no file.
THEOREM ContentAccounted == Spec => []NoForgottenContent
<1>1. Init => ContentInv
  <2>1. Init => \A f \in File : ~Garbage(f)
    BY DEF Init, Garbage
  <2>2. QED
    BY <2>1, InitType DEF ContentInv, NoForgottenContent
<1>2. ContentInv /\ [Next]_vars => ContentInv'
  <2> SUFFICES ASSUME ContentInv, [Next]_vars PROVE ContentInv'
    OBVIOUS
  <2>1. TypeInv'
    BY StepType DEF ContentInv
  <2>2. CASE UNCHANGED vars
    <3>1. NoForgottenContent'
      BY <2>2 DEF vars, stores, requests, deletion, history, ContentInv, NoForgottenContent,
                  Garbage, Pending, PathOf
    <3>2. QED
      BY <2>1, <3>1 DEF ContentInv
  <2>3. CASE Next
    <3>1. NoForgottenContent'
      BY <2>3, OthersKeep, RemoveKeeps, UnlistKeeps, StoreKeeps, WorkerKeeps DEF Next, Handle
    <3>2. QED
      BY <2>1, <3>1 DEF ContentInv
  <2>4. QED
    BY <2>2, <2>3
<1>3. ContentInv => NoForgottenContent
  BY DEF ContentInv
<1>4. QED
  BY <1>1, <1>2, <1>3, PTL DEF Spec

-----------------------------------------------------------------------------
(* The invariant. *)

\* Requests that overlap in a directory disturb all they touch.
Overlapping ==
    \A r, s \in Request :
        InFlight(r) /\ InFlight(s) /\ r # s /\ Touches(r) \cap Touches(s) # {}
            => Touches(r) \cup Touches(s) \subseteq disturbed

DeletedDisturbed ==
    \A r \in Request :
        InFlight(r) /\ want[r].op = "delete" /\ PathOf(r) \in Dir => PathOf(r) \in disturbed

\* A parent that was found stays, unless the directory it is in is disturbed.
ParentStays ==
    \A r \in Request :
        /\ pc[r] \in {"own", "link", "linkFail", "unlink"}
        /\ ParentOf(r) = Root \/ Parent[ParentOf(r)] \notin disturbed
        => ParentOf(r) \in meta

\* What is to be created does not exist.
NotThere ==
    \A r \in Request :
        pc[r] \in {"parent", "own"} /\ ~(Touches(r) \subseteq disturbed) => PathOf(r) \notin meta

Children(d) == ChildrenIn(meta, d)
Announced(d) == {p \in Child : Parent[p] = d /\ news[p] = "+"}

\* The request that is between its first write and its last in d.
Editing(d) == {r \in Request : ParentOf(r) = d /\ pc[r] \in {"link", "unlist", "unlink"}}

\* What listing, metadata and events are at each of r's calls.
Progress(r) ==
    LET d == ParentOf(r)
        p == PathOf(r) IN
    /\ pc[r] = "own" => d \in meta /\ copy[r] = listing[d]
    /\ pc[r] # "linkFail"
    /\ pc[r] = "remove" => p \in meta
    /\ pc[r] \in {"link", "unlist", "unlink"} => d \in meta
    /\ pc[r] \in {"link", "unlink"} => copy[r] = listing[d]
    /\ pc[r] = "link" => Announced(d) = listing[d] /\ Children(d) = listing[d] \cup {p}
    /\ pc[r] = "unlist" => Announced(d) = listing[d] /\ Children(d) = listing[d] \ {p}
    /\ pc[r] = "unlink" => Announced(d) = Children(d) /\ Children(d) = listing[d] \ {p}

\* And what they are between requests.
Settled(d) ==
    Editing(d) = {} => /\ Announced(d) = Children(d)
                       /\ IF d \in meta THEN listing[d] = Children(d) ELSE Children(d) = {}

Exact(d) == Settled(d) /\ \A r \in Request : ParentOf(r) = d => Progress(r)

TurnInv == TypeInv /\ Overlapping /\ DeletedDisturbed /\ ParentStays /\ NotThere
DirInv == TurnInv /\ \A d \in Dir \ disturbed : Exact(d)

-----------------------------------------------------------------------------
(* What a step of a request changes. *)

\* A failed call disturbs what the request touches.
LEMMA RecordFails ==
    ASSUME NEW r, NEW failed, Record(r, failed), failed PROVE Touches(r) \subseteq disturbed'
BY DEF Record

\* What it touches and what others touch is not forgotten.
LEMMA RecordGrows ==
    ASSUME NEW r, NEW failed, Record(r, failed) PROVE disturbed \subseteq disturbed'
BY DEF Record

\* At its first call a request meets those that are in flight.
LEMMA RecordMeets ==
    ASSUME NEW r \in Request, NEW failed, Record(r, failed), pc[r] = "idle",
           NEW s \in Request, InFlight(s), Touches(s) \cap Touches(r) # {}
    PROVE  Touches(s) \cup Touches(r) \subseteq disturbed'
<1>1. s \in Meets(r)
  BY DEF Meets
<1>2. Touches(s) \cup Touches(r) \subseteq UNION {Touches(q) : q \in Meets(r) \cup {r}}
  BY <1>1
<1>3. QED
  BY <1>1, <1>2 DEF Record

\* The step of one request in the state of the others and in its own.
Local(r) ==
    /\ UNCHANGED want /\ disturbed \subseteq disturbed'
    /\ \A s \in Request : s # r => pc'[s] = pc[s] /\ copy'[s] = copy[s]
    /\ \A e \in Dir \ Touches(r) : listing'[e] = listing[e]
    /\ \A p \in Child : p # PathOf(r) => news'[p] = news[p]
    /\ meta \ {PathOf(r)} \subseteq meta' /\ meta' \subseteq meta \cup {PathOf(r), ParentOf(r)}
    /\ PathOf(r) \in meta \ meta' => pc[r] = "remove"
    /\ PathOf(r) \in meta' \ meta => pc[r] = "own"
    /\ ParentOf(r) \in meta' \ meta => pc[r] \in {"link", "linkFail", "unlink"}

\* Of a request that was checked.
Later(r) == ReadParent(r) \/ WriteOwn(r) \/ Link(r) \/ Remove(r) \/ Unlist(r) \/ Unlink(r) \/ Store(r)

\* After its first call a request is in flight.
LEMMA LaterInFlight == ASSUME NEW r, Later(r) PROVE InFlight(r)
BY DEF Later, ReadParent, WriteOwn, Link, Remove, Unlist, Unlink, Store, InFlight

\* A parent is another path.
LEMMA ParentDiffers ==
    ASSUME TypeInv, NEW r \in Request
    PROVE  /\ PathOf(r) \in Child /\ PathOf(r) \in Path /\ PathOf(r) # Root /\ ParentOf(r) \in Dir
           /\ ParentOf(r) # PathOf(r) /\ ParentOf(r) \in Touches(r)
           /\ PathOf(r) \in Dir => PathOf(r) \in Touches(r)
           /\ Parent[PathOf(r)] = ParentOf(r)
BY PathTypes, PathAssumption DEF TypeInv, Child, ParentOf, Touches

\* A call that writes the listing of d concerns d alone.
LEMMA SetsLocal ==
    ASSUME TypeInv, NEW c, NEW d \in Dir, NEW v, SetsListing(c, d, v)
    PROVE  /\ \A e \in Dir : e # d => listing'[e] = listing[e]
           /\ meta \subseteq meta' /\ meta' \subseteq meta \cup {d}
BY DEF SetsListing, TypeInv, TypeOK

\* Every call of a handler is local to its request.
LEMMA HandleLocal == ASSUME TypeInv, NEW r \in Request, Handle(r) PROVE Local(r)
<1>p. /\ PathOf(r) \in Child /\ ParentOf(r) \in Dir /\ ParentOf(r) # PathOf(r)
      /\ ParentOf(r) \in Touches(r)
      /\ PathOf(r) \in Dir => PathOf(r) \in Touches(r)
  BY ParentDiffers
<1>1. UNCHANGED want
  BY DEF Handle, Check, ReadParent, WriteOwn, Link, Remove, Unlist, Unlink, Store
<1>2. disturbed \subseteq disturbed'
  BY RecordGrows DEF Handle, Check, ReadParent, WriteOwn, Link, Remove, Unlist, Unlink, Store
<1>3. \A s \in Request : s # r => pc'[s] = pc[s] /\ copy'[s] = copy[s]
  BY DEF Handle, Check, ReadParent, WriteOwn, Link, Remove, Unlist, Unlink, Store, Goes, TypeInv, TypeOK
<1>4. \A p \in Child : p # PathOf(r) => news'[p] = news[p]
  BY DEF Handle, Check, ReadParent, WriteOwn, Link, Remove, Unlist, Unlink, Store, Broadcast, TypeInv, TypeOK
<1>5. /\ \A e \in Dir \ Touches(r) : listing'[e] = listing[e]
      /\ meta \ {PathOf(r)} \subseteq meta' /\ meta' \subseteq meta \cup {PathOf(r), ParentOf(r)}
      /\ PathOf(r) \in meta \ meta' => pc[r] = "remove"
      /\ PathOf(r) \in meta' \ meta => pc[r] = "own"
      /\ ParentOf(r) \in meta' \ meta => pc[r] \in {"link", "linkFail", "unlink"}
  <2>1. CASE Check(r) \/ ReadParent(r) \/ Unlist(r) \/ Store(r)
    BY <2>1 DEF Check, ReadParent, Unlist, Store, stores
  <2>2. CASE WriteOwn(r)
    <3>1. CASE PathOf(r) \in Dir
      <4>1. PICK c : SetsListing(c, PathOf(r), {})
        BY <2>2, <3>1 DEF WriteOwn
      <4>2. pc[r] = "own"
        BY <2>2 DEF WriteOwn
      <4>3. QED
        BY <4>1, <4>2, <3>1, <1>p, SetsLocal
    <3>2. CASE PathOf(r) \notin Dir
      BY <2>2, <3>2, <1>p DEF WriteOwn
    <3>3. QED
      BY <3>1, <3>2
  <2>3. CASE Link(r)
    <3>1. PICK c : SetsListing(c, ParentOf(r), copy[r] \cup {PathOf(r)})
      BY <2>3 DEF Link
    <3>2. pc[r] \in {"link", "linkFail"}
      BY <2>3 DEF Link
    <3>3. QED
      BY <3>1, <3>2, <1>p, SetsLocal
  <2>4. CASE Remove(r)
    BY <2>4 DEF Remove
  <2>5. CASE Unlink(r)
    <3>1. PICK c : SetsListing(c, ParentOf(r), copy[r] \ {PathOf(r)})
      BY <2>5 DEF Unlink
    <3>2. pc[r] = "unlink"
      BY <2>5 DEF Unlink
    <3>3. QED
      BY <3>1, <3>2, <1>p, SetsLocal
  <2>6. QED
    BY <2>1, <2>2, <2>3, <2>4, <2>5 DEF Handle
<1>6. QED
  BY <1>1, <1>2, <1>3, <1>4, <1>5 DEF Local

-----------------------------------------------------------------------------
(* Taking turns. *)

\* The parents and the paths that requests touch, before and after a step.
LEMMA SamePaths ==
    ASSUME UNCHANGED want
    PROVE  \A s : PathOf(s)' = PathOf(s) /\ ParentOf(s)' = ParentOf(s) /\ Touches(s)' = Touches(s)
BY DEF PathOf, ParentOf, Touches

\* A request that is in flight after a step was so before, or is r, checked.
LEMMA WasInFlight ==
    ASSUME TypeInv, NEW r \in Request, Handle(r), NEW s \in Request, InFlight(s)'
    PROVE  InFlight(s) \/ (s = r /\ Check(r) /\ pc[r] = "idle")
<1>1. CASE s # r
  BY <1>1, HandleLocal DEF Local, InFlight
<1>2. CASE s = r
  BY <1>2, LaterInFlight DEF Handle, Later, Check
<1>3. QED
  BY <1>1, <1>2

\* Overlapping is inductive.
LEMMA OverlappingStep ==
    ASSUME TypeInv, Overlapping, NEW q \in Request, Handle(q) PROVE Overlapping'
<1> SUFFICES ASSUME NEW r \in Request, NEW s \in Request, InFlight(r)', InFlight(s)', r # s,
                    (Touches(r) \cap Touches(s))' # {}
             PROVE  (Touches(r) \cup Touches(s) \subseteq disturbed)'
  BY DEF Overlapping
<1>1. /\ Touches(r)' = Touches(r) /\ Touches(s)' = Touches(s) /\ disturbed \subseteq disturbed'
      /\ Touches(r) \cap Touches(s) # {}
  BY HandleLocal, SamePaths DEF Local
<1>2. CASE InFlight(r) /\ InFlight(s)
  BY <1>1, <1>2 DEF Overlapping
<1>3. CASE ~(InFlight(r) /\ InFlight(s))
  <2>1. /\ Check(q) /\ pc[q] = "idle" /\ ~InFlight(q)
        /\ \/ r = q /\ InFlight(s)
           \/ s = q /\ InFlight(r)
    BY <1>3, WasInFlight DEF InFlight
  <2>2. PICK failed : Record(q, failed)
    BY <2>1 DEF Check
  <2>3. QED
    BY <1>1, <2>1, <2>2, RecordMeets
<1>4. QED
  BY <1>2, <1>3

\* Two requests in flight that touch the same directory disturb it.
LEMMA Alone ==
    ASSUME Overlapping, NEW r \in Request, NEW s \in Request, r # s, InFlight(r), InFlight(s),
           NEW d, d \in Touches(r), d \in Touches(s)
    PROVE  Touches(r) \subseteq disturbed /\ Touches(s) \subseteq disturbed
BY DEF Overlapping

\* DeletedDisturbed is inductive.
LEMMA DeletedStep ==
    ASSUME TypeInv, DeletedDisturbed, NEW q \in Request, Handle(q) PROVE DeletedDisturbed'
<1> SUFFICES ASSUME NEW r \in Request, InFlight(r)', want'[r].op = "delete", (PathOf(r) \in Dir)'
             PROVE  (PathOf(r) \in disturbed)'
  BY DEF DeletedDisturbed
<1>1. /\ PathOf(r)' = PathOf(r) /\ want'[r] = want[r] /\ disturbed \subseteq disturbed'
  BY HandleLocal, SamePaths DEF Local
<1>2. CASE InFlight(r)
  BY <1>1, <1>2 DEF DeletedDisturbed
<1>3. CASE r = q /\ Check(q) /\ pc[q] = "idle"
  <2>1. PICK failed : Record(q, failed)
    BY <1>3 DEF Check
  <2>2. PathOf(r) \in disturbed'
    BY <1>1, <1>3, <2>1 DEF Record
  <2>3. QED
    BY <1>1, <2>2
<1>4. QED
  BY <1>2, <1>3, WasInFlight

\* ParentStays is inductive: only a request that overlaps deletes the parent.
LEMMA ParentStep ==
    ASSUME TurnInv, NEW q \in Request, Handle(q) PROVE ParentStays'
<1> SUFFICES ASSUME NEW r \in Request, pc'[r] \in {"own", "link", "linkFail", "unlink"},
                    (ParentOf(r) = Root \/ Parent[ParentOf(r)] \notin disturbed)'
             PROVE  (ParentOf(r) \in meta)'
  BY DEF ParentStays
<1>1. /\ ParentOf(r)' = ParentOf(r) /\ disturbed \subseteq disturbed' /\ Local(q)
      /\ ParentOf(r) = Root \/ Parent[ParentOf(r)] \notin disturbed
  BY HandleLocal, SamePaths DEF Local, TurnInv
<1>2. ParentOf(r) \in meta
  <2>1. CASE pc[r] \in {"own", "link", "linkFail", "unlink"}
    BY <1>1, <2>1 DEF TurnInv, ParentStays
  <2>2. CASE pc[r] \notin {"own", "link", "linkFail", "unlink"}
    <3>1. r = q
      BY <2>2, <1>1 DEF Local
    <3>2. pc \in [Request -> {"idle", "parent", "own", "link", "linkFail", "remove",
                              "unlist", "unlink", "store", "ok", "error"}]
      BY DEF TurnInv, TypeInv, TypeOK
    <3>3. CASE ReadParent(q)
      <4>1. PICK found \in Finds(ParentOf(q)) : Goes(q, IF found THEN "own" ELSE "error")
        BY <3>3 DEF ReadParent
      <4>2. found = TRUE
        BY <4>1, <3>1, <3>2 DEF Goes, Finds
      <4>3. QED
        BY <4>1, <4>2, <3>1 DEF Finds
    <3>4. CASE Unlist(q)
      <4>1. PICK found \in Finds(ParentOf(q)) : Goes(q, IF found THEN "unlink" ELSE "ok")
        BY <3>4 DEF Unlist
      <4>2. found = TRUE
        BY <4>1, <3>1, <3>2 DEF Goes, Finds
      <4>3. QED
        BY <4>1, <4>2, <3>1 DEF Finds
    <3>5. CASE Check(q)
      <4>1. PICK found \in Finds(PathOf(q)) :
              Goes(q, CASE want[q].op = "create" -> IF found THEN "ok" ELSE "parent"
                        [] want[q].op = "mkdir"  -> IF found THEN "error" ELSE "parent"
                        [] want[q].op = "delete" -> IF found THEN "remove" ELSE "error"
                        [] want[q].op = "upload" -> IF found THEN "store" ELSE "error")
        BY <3>5 DEF Check
      <4>2. want[q].op \in {"create", "mkdir", "delete", "upload"}
        BY PathTypes DEF Want, TurnInv, TypeInv
      <4>3. pc'[q] \in {"ok", "parent", "error", "remove", "store"}
        BY <4>1, <4>2, <3>2 DEF Goes
      <4>4. QED
        BY <4>3, <3>1
    <3>6. CASE WriteOwn(q) \/ Link(q) \/ Remove(q) \/ Unlink(q) \/ Store(q)
      BY <3>6, <3>1, <3>2, <2>2 DEF WriteOwn, Link, Remove, Unlink, Store, Goes
    <3>7. QED
      BY <3>3, <3>4, <3>5, <3>6 DEF Handle
  <2>3. QED
    BY <2>1, <2>2
<1>3. CASE ParentOf(r) = PathOf(q) /\ pc[q] = "remove"
  <2>1. r # q
    BY <1>3, ParentDiffers DEF TurnInv
  <2>2. InFlight(q) /\ InFlight(r)
    BY <1>1, <1>3, <2>1 DEF Local, InFlight
  <2>3. PathOf(q) \in Touches(q) /\ PathOf(q) \in Touches(r)
    BY <1>3, ParentDiffers DEF TurnInv
  <2>4. Parent[PathOf(q)] \in disturbed /\ PathOf(q) # Root
    BY <2>1, <2>2, <2>3, Alone, ParentDiffers DEF TurnInv
  <2>5. QED
    BY <1>1, <1>3, <2>4
<1>4. QED
  BY <1>1, <1>2, <1>3 DEF Local

\* NotThere is inductive: only a request that overlaps creates the path.
LEMMA NotThereStep ==
    ASSUME TurnInv, NEW q \in Request, Handle(q) PROVE NotThere'
<1> SUFFICES ASSUME NEW r \in Request, pc'[r] \in {"parent", "own"},
                    (~(Touches(r) \subseteq disturbed))'
             PROVE  (PathOf(r) \notin meta)'
  BY DEF NotThere
<1>1. /\ PathOf(r)' = PathOf(r) /\ Touches(r)' = Touches(r) /\ disturbed \subseteq disturbed'
      /\ ~(Touches(r) \subseteq disturbed) /\ Local(q)
  BY HandleLocal, SamePaths DEF Local, TurnInv
<1>2. pc \in [Request -> {"idle", "parent", "own", "link", "linkFail", "remove",
                          "unlist", "unlink", "store", "ok", "error"}]
  BY DEF TurnInv, TypeInv, TypeOK
<1>3. PathOf(r) \notin meta
  <2>1. CASE pc[r] \in {"parent", "own"}
    BY <1>1, <2>1 DEF TurnInv, NotThere
  <2>2. CASE pc[r] \notin {"parent", "own"}
    <3>1. r = q
      BY <2>2, <1>1 DEF Local
    <3>2. CASE Check(q)
      <4>1. PICK found \in Finds(PathOf(q)) :
              /\ Goes(q, CASE want[q].op = "create" -> IF found THEN "ok" ELSE "parent"
                           [] want[q].op = "mkdir"  -> IF found THEN "error" ELSE "parent"
                           [] want[q].op = "delete" -> IF found THEN "remove" ELSE "error"
                           [] want[q].op = "upload" -> IF found THEN "store" ELSE "error")
              /\ Record(q, found # (PathOf(q) \in meta))
        BY <3>2 DEF Check
      <4>2. want[q].op \in {"create", "mkdir", "delete", "upload"}
        BY PathTypes DEF Want, TurnInv, TypeInv
      <4>3. found = FALSE
        BY <4>1, <4>2, <3>1, <1>2 DEF Goes, Finds
      <4>4. CASE PathOf(q) \in meta
        <5>1. found # (PathOf(q) \in meta)
          BY <4>3, <4>4
        <5>2. QED
          BY <5>1, <4>1, <3>1, <1>1, RecordFails
      <4>5. QED
        BY <4>4, <3>1
    <3>3. CASE ReadParent(q)
      BY <3>3, <3>1, <2>2 DEF ReadParent
    <3>4. CASE WriteOwn(q) \/ Link(q) \/ Remove(q) \/ Unlist(q) \/ Unlink(q) \/ Store(q)
      BY <3>4, <3>1, <1>2 DEF WriteOwn, Link, Remove, Unlist, Unlink, Store, Goes
    <3>5. QED
      BY <3>2, <3>3, <3>4 DEF Handle
  <2>3. QED
    BY <2>1, <2>2
<1>4. ASSUME r # q, PathOf(r) \in {PathOf(q), ParentOf(q)}, InFlight(q) PROVE FALSE
  <2>1. InFlight(r)
    BY <1>1, <1>4 DEF Local, InFlight
  <2>2. \E d : d \in Touches(r) /\ d \in Touches(q)
    <3>1. CASE PathOf(r) = PathOf(q)
      <4>1. ParentOf(r) = ParentOf(q)
        BY <3>1 DEF ParentOf
      <4>2. QED
        BY <4>1, ParentDiffers DEF TurnInv
    <3>2. CASE PathOf(r) = ParentOf(q)
      BY <3>2, ParentDiffers DEF TurnInv
    <3>3. QED
      BY <1>4, <3>1, <3>2
  <2>3. QED
    BY <1>1, <1>4, <2>1, <2>2, Alone DEF TurnInv
<1>5. CASE r = q
  <2>1. pc[q] \in {"idle", "parent"}
    BY <1>2, <1>5 DEF Handle, Check, ReadParent, WriteOwn, Link, Remove, Unlist, Unlink, Store, Goes
  <2>2. QED
    BY <1>1, <1>3, <1>5, <2>1 DEF Local
<1>6. CASE r # q /\ PathOf(r) \in meta'
  <2>1. PathOf(r) \in {PathOf(q), ParentOf(q)} /\ InFlight(q)
    BY <1>1, <1>3, <1>6 DEF Local, InFlight
  <2>2. QED
    BY <1>4, <1>6, <2>1
<1>7. QED
  BY <1>1, <1>5, <1>6

\* TurnInv is inductive.
LEMMA TurnStep == TurnInv /\ [Next]_vars => TurnInv'
<1> SUFFICES ASSUME TurnInv, [Next]_vars PROVE TurnInv'
  OBVIOUS
<1>1. TypeInv'
  BY StepType DEF TurnInv
<1>2. ASSUME NEW q \in Request, Handle(q) PROVE TurnInv'
  BY <1>1, <1>2, OverlappingStep, DeletedStep, ParentStep, NotThereStep DEF TurnInv
<1>3. CASE UNCHANGED <<meta, want, pc, disturbed>>
  <2>1. Overlapping'
    BY <1>3 DEF TurnInv, Overlapping, InFlight, Touches, PathOf, ParentOf
  <2>2. DeletedDisturbed'
    BY <1>3 DEF TurnInv, DeletedDisturbed, InFlight, PathOf
  <2>3. ParentStays'
    BY <1>3 DEF TurnInv, ParentStays, ParentOf, PathOf
  <2>4. NotThere'
    BY <1>3 DEF TurnInv, NotThere, Touches, PathOf, ParentOf
  <2>5. QED
    BY <1>1, <2>1, <2>2, <2>3, <2>4 DEF TurnInv
<1>4. QED
  BY <1>2, <1>3 DEF Next, TakeBatch, DeleteBlock, Stop, WorkerEnds, vars, stores, requests, history

-----------------------------------------------------------------------------
(* Directories that a request does not touch. *)

\* They keep their metadata, what it lists, their children, the events about
\* them, and the state of the requests that work on them.
LEMMA Untouched ==
    ASSUME TurnInv, NEW q \in Request, Handle(q), NEW d \in Dir, d \notin disturbed',
           d \notin Touches(q)
    PROVE  /\ d \in meta' <=> d \in meta
           /\ listing'[d] = listing[d] /\ Children(d)' = Children(d) /\ Announced(d)' = Announced(d)
           /\ \A s \in Request : ParentOf(s) = d => s # q
<1>1. Local(q)
  BY HandleLocal DEF TurnInv
<1>2. /\ PathOf(q) # d /\ ParentOf(q) # d
      /\ Parent[PathOf(q)] # d
  BY ParentDiffers DEF TurnInv
<1>3. d \in meta' <=> d \in meta
  BY <1>1, <1>2 DEF Local
<1>4. listing'[d] = listing[d]
  BY <1>1 DEF Local
<1>5. \A p \in Path \ {Root} : Parent[p] = d => (p \in meta' <=> p \in meta)
  <2> SUFFICES ASSUME NEW p \in Path \ {Root}, Parent[p] = d PROVE p \in meta' <=> p \in meta
    OBVIOUS
  <2>1. p # PathOf(q)
    BY <1>2
  <2>2. CASE p = ParentOf(q) /\ p \in meta' \ meta
    <3>1. pc[q] \in {"link", "linkFail", "unlink"}
      BY <1>1, <2>2 DEF Local
    <3>2. Parent[ParentOf(q)] \notin disturbed
      BY <1>1, <2>2 DEF Local
    <3>3. QED
      BY <2>2, <3>1, <3>2 DEF TurnInv, ParentStays
  <2>3. QED
    BY <1>1, <2>1, <2>2 DEF Local
<1>6. Children(d)' = Children(d)
  <2>1. meta \subseteq Path /\ meta' \subseteq Path
    <3>1. meta \subseteq Path
      BY DEF TurnInv, TypeInv, TypeOK
    <3>2. meta' \subseteq meta \cup {PathOf(q), ParentOf(q)}
      BY <1>1 DEF Local
    <3>3. PathOf(q) \in Path /\ ParentOf(q) \in Path
      BY ParentDiffers DEF TurnInv, Path
    <3>4. QED
      BY <3>1, <3>2, <3>3
  <2>2. QED
    BY <1>5, <2>1 DEF Children, ChildrenIn
<1>7. Announced(d)' = Announced(d)
  BY <1>1, <1>2 DEF Announced, Local
<1>8. QED
  BY <1>2, <1>3, <1>4, <1>6, <1>7

\* So they stay as exact as they are.
LEMMA UntouchedExact ==
    ASSUME TurnInv, NEW q \in Request, Handle(q), NEW d \in Dir, d \notin disturbed',
           d \notin Touches(q), Exact(d)
    PROVE  Exact(d)'
<1>1. /\ d \in meta' <=> d \in meta
      /\ listing'[d] = listing[d] /\ Children(d)' = Children(d) /\ Announced(d)' = Announced(d)
      /\ \A s \in Request : ParentOf(s) = d => s # q
  BY Untouched
<1>2. /\ Local(q)
      /\ \A s : PathOf(s)' = PathOf(s) /\ ParentOf(s)' = ParentOf(s)
  BY HandleLocal, SamePaths DEF TurnInv, Local
<1>3. Editing(d)' = Editing(d)
  BY <1>1, <1>2 DEF Editing, Local
<1>4. Settled(d)'
  BY <1>1, <1>3 DEF Exact, Settled
<1>5. ASSUME NEW s \in Request, ParentOf(s) = d PROVE Progress(s)'
  <2>1. Progress(s)
    BY <1>5 DEF Exact
  <2>2. pc'[s] = pc[s] /\ copy'[s] = copy[s]
    BY <1>1, <1>2, <1>5 DEF Local
  <2>3. PathOf(s) \in meta => PathOf(s) \in meta'
    BY <1>2, <1>5, ParentDiffers DEF Local, TurnInv
  <2>4. QED
    BY <1>1, <1>2, <1>5, <2>1, <2>2, <2>3 DEF Progress
<1>6. QED
  BY <1>2, <1>4, <1>5 DEF Exact

-----------------------------------------------------------------------------
(* The directories it touches. *)

\* Nobody else is at work there, before and after the step.
LEMMA OthersAway ==
    ASSUME TurnInv, NEW q \in Request, Handle(q), NEW d, d \in Touches(q), d \notin disturbed',
           NEW s \in Request, s # q, d \in Touches(s)
    PROVE  ~InFlight(s) /\ ~InFlight(s)'
<1>1. Local(q)
  BY HandleLocal DEF TurnInv
<1>2. InFlight(s)' <=> InFlight(s)
  BY <1>1 DEF Local, InFlight
<1>3. SUFFICES ASSUME InFlight(s) PROVE FALSE
  BY <1>2
<1>4. CASE InFlight(q)
  BY <1>1, <1>3, <1>4, Alone DEF TurnInv, Local
<1>5. CASE Check(q) /\ pc[q] = "idle"
  <2>1. PICK failed : Record(q, failed)
    BY <1>5 DEF Check
  <2>2. QED
    BY <1>3, <1>5, <2>1, RecordMeets
<1>6. QED
  BY <1>4, <1>5, LaterInFlight DEF Handle, Later, Check

\* Those who work in d are at it alone, and all is well with those who do not.
LEMMA OthersExact ==
    ASSUME TurnInv, NEW q \in Request, Handle(q), NEW d \in Dir, d \in Touches(q),
           d \notin disturbed', NEW s \in Request, s # q, ParentOf(s) = d
    PROVE  Progress(s)' /\ s \notin Editing(d) /\ s \notin Editing(d)'
<1>1. ~InFlight(s) /\ ~InFlight(s)'
  BY OthersAway, ParentDiffers DEF TurnInv
<1>2. pc[s] \in {"idle", "ok", "error"} /\ pc'[s] \in {"idle", "ok", "error"}
  BY <1>1 DEF InFlight
<1>3. QED
  BY <1>2 DEF Progress, Editing

\* A call that leaves d undisturbed did not fail: it finds what there is.
LEMMA FindsRight ==
    ASSUME NEW r, NEW p, NEW found \in Finds(p), Record(r, found # (p \in meta)),
           NEW d, d \in Touches(r), d \notin disturbed'
    PROVE  found = (p \in meta)
<1>1. CASE found # (p \in meta)
  BY <1>1, RecordFails
<1>2. QED
  BY <1>1

\* And what it sets or deletes is set or deleted.
LEMMA CallWorks ==
    ASSUME NEW r, NEW c \in Call, Record(r, Failed(c)), NEW d, d \in Touches(r), d \notin disturbed'
    PROVE  c.applied = TRUE /\ c.success = TRUE
<1>1. ~Failed(c)
  BY RecordFails
<1>2. c.applied /\ c.success
  BY <1>1 DEF Failed
<1>3. c.applied \in BOOLEAN /\ c.success \in BOOLEAN
  <2>1. CASE c \in [applied : BOOLEAN, success : BOOLEAN]
    BY <2>1
  <2>2. CASE c = [applied |-> TRUE, success |-> TRUE]
    BY <2>2
  <2>3. QED
    BY <2>1, <2>2, FaultAssumption DEF Call
<1>4. QED
  BY <1>2, <1>3

\* The parent of the path, call by call.
LEMMA ParentExact ==
    ASSUME TurnInv, NEW q \in Request, Handle(q), NEW d, NEW p, d = ParentOf(q), p = PathOf(q),
           d \notin disturbed', Exact(d)
    PROVE  Settled(d)' /\ Progress(q)'
<1>d. /\ d \in Dir /\ d # p /\ d \in Touches(q) /\ p \in Child /\ p # Root /\ p \in Path
      /\ Parent[p] = d
  BY ParentDiffers DEF TurnInv
<1>t. TypeOK /\ TypeInv
  BY DEF TurnInv, TypeInv
<1>l. /\ Local(q) /\ PathOf(q)' = p /\ ParentOf(q)' = d
      /\ \A s \in Request : ParentOf(s)' = ParentOf(s)
  BY <1>t, HandleLocal, SamePaths DEF Local
<1>o. \A s \in Request : s # q => s \notin Editing(d) /\ s \notin Editing(d)'
  <2> SUFFICES ASSUME NEW s \in Request, s # q PROVE s \notin Editing(d) /\ s \notin Editing(d)'
    OBVIOUS
  <2>1. CASE ParentOf(s) = d
    BY <1>d, <2>1, OthersExact
  <2>2. CASE ParentOf(s) # d
    BY <1>l, <2>2 DEF Editing
  <2>3. QED
    BY <2>1, <2>2
<1>e. /\ Editing(d) = {} <=> pc[q] \notin {"link", "unlist", "unlink"}
      /\ Editing(d)' = {} <=> pc'[q] \notin {"link", "unlist", "unlink"}
  BY <1>o, <1>l DEF Editing
<1>i. Settled(d) /\ Progress(q)
  BY DEF Exact
<1>s. Children(d) \subseteq Child /\ Announced(d) \subseteq Child /\ copy[q] \subseteq Child
  BY <1>t DEF Children, ChildrenIn, Announced, TypeOK, Child
<1>1. ASSUME Check(q) PROVE Settled(d)' /\ Progress(q)'
  <2>1. PICK found \in Finds(p) :
          /\ Goes(q, CASE want[q].op = "create" -> IF found THEN "ok" ELSE "parent"
                       [] want[q].op = "mkdir"  -> IF found THEN "error" ELSE "parent"
                       [] want[q].op = "delete" -> IF found THEN "remove" ELSE "error"
                       [] want[q].op = "upload" -> IF found THEN "store" ELSE "error")
          /\ Record(q, found # (p \in meta))
    BY <1>1 DEF Check
  <2>2. want[q].op \in {"create", "mkdir", "delete", "upload"}
    BY <1>t, PathTypes DEF Want
  <2>3. found = (p \in meta)
    BY <2>1, <1>d, FindsRight
  <2>4. /\ pc'[q] \in {"ok", "parent", "error", "remove", "store"}
        /\ pc'[q] = "remove" => found
    BY <2>1, <2>2, <1>t DEF Goes, TypeOK
  <2>5. UNCHANGED <<meta, listing, news>> /\ pc[q] = "idle"
    BY <1>1 DEF Check, stores
  <2>6. Progress(q)'
    BY <2>3, <2>4, <2>5, <1>l DEF Progress
  <2>7. Settled(d)'
    BY <2>4, <2>5, <1>e, <1>i DEF Settled, Children, ChildrenIn, Announced
  <2>8. QED
    BY <2>6, <2>7
<1>2. ASSUME ReadParent(q) PROVE Settled(d)' /\ Progress(q)'
  <2>1. PICK found \in Finds(d) :
          /\ Goes(q, IF found THEN "own" ELSE "error")
          /\ copy' = [copy EXCEPT ![q] = IF found THEN listing[d] ELSE @]
          /\ Record(q, found # (d \in meta))
    BY <1>2 DEF ReadParent
  <2>3. found = (d \in meta)
    BY <2>1, <1>d, FindsRight
  <2>4. /\ pc'[q] \in {"own", "error"}
        /\ pc'[q] = "own" => found /\ copy'[q] = listing[d]
    BY <2>1, <1>t DEF Goes, TypeOK
  <2>5. UNCHANGED <<meta, listing, news>> /\ pc[q] = "parent"
    BY <1>2 DEF ReadParent, stores
  <2>6. Progress(q)'
    BY <2>3, <2>4, <2>5, <1>l DEF Progress
  <2>7. Settled(d)'
    BY <2>4, <2>5, <1>e, <1>i DEF Settled, Children, ChildrenIn, Announced
  <2>8. QED
    BY <2>6, <2>7
<1>3. ASSUME WriteOwn(q) PROVE Settled(d)' /\ Progress(q)'
  <2>1. PICK c \in Call :
          /\ IF p \in Dir THEN SetsListing(c, p, {})
             ELSE /\ meta' = IF c.applied THEN meta \cup {p} ELSE meta
                  /\ UNCHANGED listing
          /\ Goes(q, IF c.success THEN "link"
                     ELSE IF want[q].op = "create" THEN "linkFail" ELSE "error")
          /\ Record(q, Failed(c))
    BY <1>3 DEF WriteOwn
  <2>2. c.applied = TRUE /\ c.success = TRUE
    BY <2>1, <1>d, CallWorks
  <2>3. meta' = meta \cup {p}
    BY <2>1, <2>2 DEF SetsListing
  <2>4. listing'[d] = listing[d]
    BY <2>1, <2>2, <1>d, <1>t DEF SetsListing, TypeOK
  <2>5. pc'[q] = "link" /\ pc[q] = "own" /\ UNCHANGED <<copy, news>>
    BY <2>1, <2>2, <1>3, <1>t DEF WriteOwn, Goes, TypeOK
  <2>6. d \in meta /\ copy[q] = listing[d] /\ Announced(d) = listing[d] /\ Children(d) = listing[d]
    BY <2>5, <1>e, <1>i DEF Progress, Settled
  <2>7. Announced(d)' = Announced(d)
    BY <2>5 DEF Announced
  <2>8. Children(d)' = Children(d) \cup {p}
    BY <2>3, <1>d DEF Children, ChildrenIn
  <2>9. Progress(q)'
    BY <2>3, <2>4, <2>5, <2>6, <2>7, <2>8, <1>l DEF Progress
  <2>10. Settled(d)'
    BY <2>5, <1>e DEF Settled
  <2>11. QED
    BY <2>9, <2>10
<1>4. ASSUME Link(q) PROVE Settled(d)' /\ Progress(q)'
  <2>1. PICK c \in Call :
          /\ SetsListing(c, d, copy[q] \cup {p})
          /\ Goes(q, IF want[q].op = "mkdir" \/ (pc[q] = "link" /\ c.success) THEN "ok" ELSE "error")
          /\ IF want[q].op = "mkdir" \/ (pc[q] = "link" /\ c.success)
             THEN Broadcast(p, "+") ELSE UNCHANGED news
          /\ Record(q, Failed(c))
    BY <1>4 DEF Link
  <2>2. c.applied = TRUE /\ c.success = TRUE
    BY <2>1, <1>d, CallWorks
  <2>3. pc[q] = "link"
    BY <1>4, <1>i DEF Link, Progress
  <2>4. /\ d \in meta /\ copy[q] = listing[d] /\ Announced(d) = listing[d]
        /\ Children(d) = listing[d] \cup {p}
    BY <2>3, <1>i DEF Progress
  <2>5. meta' = meta /\ listing'[d] = listing[d] \cup {p}
    BY <2>1, <2>2, <2>4, <1>d, <1>t DEF SetsListing, TypeOK
  <2>6. pc'[q] = "ok" /\ news' = [news EXCEPT ![p] = "+"]
    BY <2>1, <2>2, <2>3, <1>t DEF Goes, Broadcast, TypeOK
  <2>7. Children(d)' = Children(d)
    BY <2>5 DEF Children, ChildrenIn
  <2>8. Announced(d)' = Announced(d) \cup {p}
    BY <2>6, <1>d, <1>t DEF Announced, TypeOK
  <2>9. Settled(d)'
    BY <2>4, <2>5, <2>7, <2>8 DEF Settled
  <2>10. Progress(q)'
    BY <2>6 DEF Progress
  <2>11. QED
    BY <2>9, <2>10
<1>5. ASSUME Remove(q) PROVE Settled(d)' /\ Progress(q)'
  <2>1. PICK c \in Call : /\ meta' = IF c.applied THEN meta \ {p} ELSE meta
                          /\ Record(q, Failed(c))
    BY <1>5 DEF Remove
  <2>2. c.applied = TRUE
    BY <2>1, <1>d, CallWorks
  <2>3. /\ meta' = meta \ {p} /\ UNCHANGED <<listing, news, copy>>
        /\ pc[q] = "remove" /\ pc'[q] = "unlist"
    BY <2>1, <2>2, <1>5, <1>t DEF Remove, Goes, TypeOK
  <2>4. p \in meta
    BY <2>3, <1>i DEF Progress
  <2>5. p \in Children(d)
    BY <2>4, <1>d DEF Children, ChildrenIn
  <2>6. d \in meta /\ listing[d] = Children(d) /\ Announced(d) = listing[d]
    BY <2>3, <2>5, <1>e, <1>i DEF Settled
  <2>7. Children(d)' = Children(d) \ {p} /\ Announced(d)' = Announced(d)
    BY <2>3 DEF Children, ChildrenIn, Announced
  <2>8. Progress(q)'
    BY <2>3, <2>6, <2>7, <1>d, <1>l DEF Progress
  <2>9. Settled(d)'
    BY <2>3, <1>e DEF Settled
  <2>10. QED
    BY <2>8, <2>9
<1>6. ASSUME Unlist(q) PROVE Settled(d)' /\ Progress(q)'
  <2>1. PICK found \in Finds(d) :
         /\ Goes(q, IF found THEN "unlink" ELSE "ok")
         /\ copy' = [copy EXCEPT ![q] = IF found THEN listing[d] ELSE @]
         /\ IF found THEN Broadcast(p, "-") ELSE UNCHANGED news
         /\ Record(q, found # (d \in meta))
    BY <1>6 DEF Unlist
  <2>2. found = (d \in meta)
    BY <2>1, <1>d, FindsRight
  <2>3. UNCHANGED <<meta, listing>> /\ pc[q] = "unlist"
    BY <1>6 DEF Unlist, stores
  <2>4. d \in meta /\ Announced(d) = listing[d] /\ Children(d) = listing[d] \ {p}
    BY <2>3, <1>i DEF Progress
  <2>5. pc'[q] = "unlink" /\ copy'[q] = listing[d] /\ news' = [news EXCEPT ![p] = "-"]
    BY <2>1, <2>2, <2>4, <1>t DEF Goes, Broadcast, TypeOK
  <2>6. Children(d)' = Children(d)
    BY <2>3 DEF Children, ChildrenIn
  <2>7. Announced(d)' = Announced(d) \ {p}
    BY <2>5, <1>d, <1>t DEF Announced, TypeOK
  <2>8. Progress(q)'
    BY <2>3, <2>4, <2>5, <2>6, <2>7, <1>l DEF Progress
  <2>9. Settled(d)'
    BY <2>5, <1>e DEF Settled
  <2>10. QED
    BY <2>8, <2>9
<1>7. ASSUME Unlink(q) PROVE Settled(d)' /\ Progress(q)'
  <2>1. PICK c \in Call : SetsListing(c, d, copy[q] \ {p}) /\ Record(q, Failed(c))
    BY <1>7 DEF Unlink
  <2>2. c.applied = TRUE
    BY <2>1, <1>d, CallWorks
  <2>3. pc[q] = "unlink" /\ pc'[q] = "ok" /\ UNCHANGED news
    BY <1>7, <1>t DEF Unlink, Goes, TypeOK
  <2>4. /\ d \in meta /\ copy[q] = listing[d] /\ Announced(d) = Children(d)
        /\ Children(d) = listing[d] \ {p}
    BY <2>3, <1>i DEF Progress
  <2>5. meta' = meta /\ listing'[d] = listing[d] \ {p}
    BY <2>1, <2>2, <2>4, <1>d, <1>t DEF SetsListing, TypeOK
  <2>6. Children(d)' = Children(d) /\ Announced(d)' = Announced(d)
    BY <2>3, <2>5 DEF Children, ChildrenIn, Announced
  <2>7. Settled(d)'
    BY <2>4, <2>5, <2>6 DEF Settled
  <2>8. Progress(q)'
    BY <2>3 DEF Progress
  <2>9. QED
    BY <2>7, <2>8
<1>8. ASSUME Store(q) PROVE Settled(d)' /\ Progress(q)'
  <2>1. UNCHANGED <<meta, listing, news>> /\ pc[q] = "store" /\ pc'[q] = "ok"
    BY <1>8, <1>t DEF Store, Goes, TypeOK
  <2>2. Settled(d)'
    BY <2>1, <1>e, <1>i DEF Settled, Children, ChildrenIn, Announced
  <2>3. Progress(q)'
    BY <2>1 DEF Progress
  <2>4. QED
    BY <2>2, <2>3
<1>9. QED
  BY <1>1, <1>2, <1>3, <1>4, <1>5, <1>6, <1>7, <1>8 DEF Handle

\* The new directory itself, for create_directory, call by call: its own
\* metadata lists nothing, and it holds nothing.
LEMMA OwnExact ==
    ASSUME TurnInv, NEW q \in Request, Handle(q), NEW d \in Dir, d = PathOf(q),
           d \notin disturbed', Exact(d)
    PROVE  Settled(d)'
<1>d. /\ d # Root /\ d \in Child /\ d # ParentOf(q) /\ ParentOf(q) \in Dir /\ d \in Touches(q)
      /\ Parent[d] = ParentOf(q)
  BY ParentDiffers DEF TurnInv
<1>t. TypeOK /\ TypeInv
  BY DEF TurnInv, TypeInv
<1>l. Local(q) /\ \A s \in Request : ParentOf(s)' = ParentOf(s)
  BY <1>t, HandleLocal, SamePaths DEF Local
<1>e. Editing(d) = {} /\ Editing(d)' = {}
  <2>1. ASSUME NEW s \in Request, ParentOf(s) = d PROVE s \notin Editing(d) /\ s \notin Editing(d)'
    BY <2>1, <1>d, OthersExact
  <2>2. QED
    BY <2>1, <1>l DEF Editing
<1>i. /\ Announced(d) = Children(d)
      /\ IF d \in meta THEN listing[d] = Children(d) ELSE Children(d) = {}
  BY <1>e DEF Exact, Settled
<1>n. \A p \in Child : Parent[p] = d => news'[p] = news[p]
  BY <1>l, <1>d DEF Local
<1>a. Announced(d)' = Announced(d)
  BY <1>n DEF Announced
<1>m. UNCHANGED meta \/ meta' = meta \cup {d} => Children(d)' = Children(d)
  BY <1>d DEF Children, ChildrenIn
<1>1. CASE Check(q) \/ ReadParent(q)
  <2>1. UNCHANGED <<meta, listing>>
    BY <1>1 DEF Check, ReadParent, stores
  <2>2. QED
    BY <2>1, <1>i, <1>a, <1>m DEF Settled
<1>2. CASE WriteOwn(q)
  <2>1. d \notin meta
    BY <1>2, <1>d, <1>l DEF WriteOwn, TurnInv, NotThere, Local
  <2>2. PICK c \in Call : SetsListing(c, d, {}) /\ Record(q, Failed(c))
    BY <1>2 DEF WriteOwn
  <2>3. c.applied = TRUE
    BY <2>2, <1>d, CallWorks
  <2>4. meta' = meta \cup {d} /\ listing'[d] = {}
    BY <2>2, <2>3, <1>t DEF SetsListing, TypeOK
  <2>5. QED
    BY <2>1, <2>4, <1>i, <1>a, <1>m DEF Settled
<1>3. CASE Link(q)
  <2>1. PICK c : SetsListing(c, ParentOf(q), copy[q] \cup {d})
    BY <1>3 DEF Link
  <2>2. listing'[d] = listing[d] /\ (d \in meta' <=> d \in meta)
    BY <2>1, <1>d, <1>t, SetsLocal
  <2>3. Children(d)' = Children(d)
    <3>1. meta \subseteq meta' /\ meta' \subseteq meta \cup {ParentOf(q)}
      BY <2>1, <1>d, <1>t, SetsLocal
    <3>2. Parent[ParentOf(q)] = d => ParentOf(q) \in meta
      BY <1>3, <1>l DEF Link, TurnInv, ParentStays, Local
    <3>3. QED
      BY <3>1, <3>2 DEF Children, ChildrenIn
  <2>4. QED
    BY <2>2, <2>3, <1>i, <1>a DEF Settled
<1>4. CASE Remove(q) \/ Unlist(q) \/ Unlink(q)
  <2>1. want[q].op = "delete" /\ InFlight(q)
    BY <1>4 DEF Remove, Unlist, Unlink, InFlight, TurnInv, TypeInv, Program
  <2>2. d \in disturbed
    BY <2>1 DEF TurnInv, DeletedDisturbed
  <2>3. QED
    BY <2>2, <1>l DEF Local
<1>5. CASE Store(q)
  <2>1. UNCHANGED <<meta, listing>>
    BY <1>5 DEF Store
  <2>2. QED
    BY <2>1, <1>i, <1>a, <1>m DEF Settled
<1>6. QED
  BY <1>1, <1>2, <1>3, <1>4, <1>5 DEF Handle

\* A directory that a request touches is its parent or its path.
LEMMA TouchedExact ==
    ASSUME TurnInv, NEW q \in Request, Handle(q), NEW d \in Dir, d \notin disturbed',
           d \in Touches(q), Exact(d)
    PROVE  Exact(d)'
<1>1. Settled(d)'
  <2>1. CASE d = ParentOf(q)
    BY <2>1, ParentExact
  <2>2. CASE d = PathOf(q)
    BY <2>2, OwnExact
  <2>3. QED
    BY <2>1, <2>2 DEF Touches
<1>2. ASSUME NEW s \in Request, ParentOf(s) = d PROVE Progress(s)'
  <2>1. CASE s = q
    BY <2>1, <1>2, ParentExact
  <2>2. CASE s # q
    BY <2>2, <1>2, OthersExact
  <2>3. QED
    BY <2>1, <2>2
<1>3. \A s \in Request : ParentOf(s)' = ParentOf(s)
  BY HandleLocal, SamePaths DEF TurnInv, Local
<1>4. QED
  BY <1>1, <1>2, <1>3 DEF Exact

-----------------------------------------------------------------------------
(* The theorem. *)

\* At first nobody is at work, and the tree lists what it holds.
LEMMA DirInit == Init => DirInv
<1> SUFFICES ASSUME Init PROVE DirInv
  OBVIOUS
<1>1. TypeInv
  BY InitType
<1>2. \A r \in Request : ~InFlight(r) /\ pc[r] = "idle"
  BY DEF Init, InFlight
<1>3. TurnInv
  BY <1>1, <1>2 DEF TurnInv, Overlapping, DeletedDisturbed, ParentStays, NotThere, Init
<1>4. ASSUME NEW d \in Dir PROVE Exact(d)
  <2>1. PICK S \in Trees :
           /\ meta = S
           /\ listing = [e \in Dir |-> ChildrenIn(S, e)]
           /\ news = [p \in Child |-> IF p \in S THEN "+" ELSE "-"]
    BY DEF Init
  <2>2. listing[d] = Children(d)
    BY <2>1 DEF Children
  <2>3. Announced(d) = Children(d)
    BY <2>1 DEF Announced, Children, ChildrenIn, Trees, Child
  <2>4. d \notin meta => Children(d) = {}
    BY <2>1 DEF Children, ChildrenIn, Trees
  <2>5. \A r \in Request : Progress(r)
    BY <1>2 DEF Progress
  <2>6. QED
    BY <2>2, <2>3, <2>4, <2>5 DEF Exact, Settled
<1>5. QED
  BY <1>3, <1>4 DEF DirInv

\* DirInv is inductive.
LEMMA DirStep == DirInv /\ [Next]_vars => DirInv'
<1> SUFFICES ASSUME DirInv, [Next]_vars PROVE DirInv'
  OBVIOUS
<1>1. TurnInv'
  BY TurnStep DEF DirInv
<1>2. ASSUME NEW q \in Request, Handle(q), NEW d \in Dir, d \notin disturbed' PROVE Exact(d)'
  <2>1. Exact(d)
    BY <1>2, HandleLocal DEF Local, DirInv, TurnInv
  <2>2. QED
    BY <1>2, <2>1, UntouchedExact, TouchedExact DEF DirInv
<1>3. ASSUME UNCHANGED <<meta, listing, want, pc, copy, news, disturbed>>, NEW d \in Dir, d \notin disturbed'
      PROVE  Exact(d)'
  <2>1. Exact(d)
    BY <1>3 DEF DirInv
  <2>2. QED
    BY <1>3, <2>1 DEF Exact, Settled, Progress, Editing, Children, ChildrenIn, Announced, PathOf, ParentOf
<1>4. (\E q \in Request : Handle(q)) \/ UNCHANGED <<meta, listing, want, pc, copy, news, disturbed>>
  BY DEF Next, TakeBatch, DeleteBlock, Stop, WorkerEnds, vars, stores, requests, history
<1>5. QED
  BY <1>1, <1>2, <1>3, <1>4 DEF DirInv

\* A directory whose requests took turns and whose calls did not fail lists
\* what it holds, and the events say the same (UndisturbedDirectory): the
\* handlers lose an entry only when two of them overlap.
THEOREM TurnsKeepListing == Spec => []UndisturbedDirectory
<1>1. DirInv => UndisturbedDirectory
  <2> SUFFICES ASSUME DirInv, NEW d \in Dir \ disturbed, d \in meta, Quiet(d)
               PROVE  /\ listing[d] = ChildrenIn(meta, d)
                      /\ \A p \in Child : Parent[p] = d => (news[p] = "+" <=> p \in listing[d])
    BY DEF UndisturbedDirectory
  <2>1. \A r \in Request : r \notin Editing(d)
    BY ParentDiffers DEF Quiet, Editing, InFlight, DirInv, TurnInv
  <2>2. Announced(d) = Children(d) /\ listing[d] = Children(d)
    BY <2>1 DEF DirInv, Exact, Settled, Editing
  <2>3. listing[d] = ChildrenIn(meta, d)
    BY <2>2 DEF Children
  <2>4. ASSUME NEW p \in Child, Parent[p] = d PROVE news[p] = "+" <=> p \in listing[d]
    BY <2>2, <2>4 DEF Announced
  <2>5. QED
    BY <2>3, <2>4
<1>2. QED
  BY <1>1, DirInit, DirStep, PTL DEF Spec

=============================================================================
