----------------------------- MODULE Metaserver -----------------------------
(***************************************************************************)
(* The routes of src/CODE/src/metaserver/metadata_server_L1.cpp that change *)
(* the namespace, the DeletionManager's worker, and the uploads of content  *)
(* that run beside them.  httplib serves each request in a thread of its    *)
(* own; a request is a sequence of calls to the metadata store, and nothing *)
(* locks a directory between the call that reads it and the one that        *)
(* writes it back.  A step is one call.                                     *)
(***************************************************************************)
EXTENDS Integers, Sequences

CONSTANTS
    Request,    \* the requests whose token is accepted; a retry is another one
    Dir, File,  \* paths; those of files, and no others, end in .txt
    Root,       \* the directory the signup server makes
    Parent,     \* the path up to the last slash
    None,       \* no content: never set, or __DELETE__
    Old,        \* content uploaded before
    Faulty      \* may calls to the stores fail?

Path == Dir \cup File

ASSUME PathAssumption ==
    /\ Root \in Dir /\ Dir \cap File = {} /\ Parent \in [Path \ {Root} -> Dir]
    /\ \A p \in Path \ {Root} : Parent[p] # p
ASSUME ContentAssumption == None \notin Request /\ Old \notin Request \cup {None}
ASSUME FaultAssumption == Faulty \in BOOLEAN

VARIABLES
    meta,             \* the metadata store: the paths that have metadata
    listing,          \* what that of a directory lists, subdirectories and files
    block,            \* the block servers: whose upload a file's content is
    want, pc, copy,   \* a request, its thread, and the listing it has read
    queue, batch,     \* deletion_queue, and what process() took from it
    worker, stop,     \* the worker thread, stop_thread
    news,             \* the last event broadcast about a path
    disturbed,        \* history: directories with overlapping requests or failed calls
    late,             \* history: uploads stored when the metadata was gone
    gaveUp            \* history: files whose delete_blockdata failed

stores == <<meta, listing, block>>
requests == <<want, pc, copy>>
deletion == <<queue, batch, worker, stop>>
history == <<disturbed, late, gaveUp>>
vars == <<stores, requests, deletion, news, history>>

Child == Path \ {Root}
Want == [op : {"mkdir"}, path : Dir \ {Root}] \cup [op : {"create", "upload"}, path : File]
            \cup [op : {"delete"}, path : Child]

TypeOK ==
    /\ meta \subseteq Path /\ listing \in [Dir -> SUBSET Child]
    /\ block \in [File -> Request \cup {Old, None}]
    /\ want \in [Request -> Want]
    /\ pc \in [Request -> {"idle", "parent", "own", "link", "linkFail", "remove",
                           "unlist", "unlink", "store", "ok", "error"}]
    /\ copy \in [Request -> SUBSET Child]
    /\ queue \in Seq(Request) /\ batch \in Seq(Request)
    /\ worker \in {"wait", "work", "ended"} /\ stop \in BOOLEAN
    /\ news \in [Child -> {"+", "-"}]
    /\ disturbed \subseteq Dir /\ late \subseteq Request /\ gaveUp \subseteq File

\* A tree in which every directory lists its children, and their content.
Trees == {S \in SUBSET Path : Root \in S /\ \A p \in S \ {Root} : Parent[p] \in S}
ChildrenIn(S, d) == {q \in S \ {Root} : Parent[q] = d}

Init ==
    /\ \E S \in Trees :
         /\ meta = S
         /\ listing = [d \in Dir |-> ChildrenIn(S, d)]
         /\ block = [f \in File |-> IF f \in S THEN Old ELSE None]
         /\ news = [p \in Child |-> IF p \in S THEN "+" ELSE "-"]
    /\ want \in [Request -> Want]
    /\ pc = [r \in Request |-> "idle"]
    /\ copy = [r \in Request |-> {}]
    /\ queue = <<>> /\ batch = <<>> /\ worker = "wait" /\ stop = FALSE
    /\ disturbed = {} /\ late = {} /\ gaveUp = {}

-----------------------------------------------------------------------------
PathOf(r) == want[r].path
ParentOf(r) == Parent[PathOf(r)]

\* The directories a request reads or writes.
Touches(r) == {ParentOf(r)} \cup (IF PathOf(r) \in Dir THEN {PathOf(r)} ELSE {})
InFlight(r) == pc[r] \notin {"idle", "ok", "error"}

\* history: r's step spoils what it touches if a call of it fails or if it
\* begins to delete a directory, and, if it begins while another request is
\* at work in a directory it touches, what that one touches as well.
Meets(r) == {s \in Request : InFlight(s) /\ Touches(s) \cap Touches(r) # {}}

Record(r, failed) ==
    disturbed' = disturbed
        \cup (IF failed THEN Touches(r) ELSE {})
        \cup (IF pc[r] = "idle" /\ Meets(r) # {}
              THEN UNION {Touches(s) : s \in Meets(r) \cup {r}} ELSE {})
        \cup (IF pc[r] = "idle" /\ want[r].op = "delete" THEN {PathOf(r)} \cap Dir ELSE {})

Goes(r, label) == worker # "ended" /\ pc' = [pc EXCEPT ![r] = label]

\* distributed_KV::get, is there a value?  An error looks like a missing key.
Finds(p) == {p \in meta} \cup (IF Faulty THEN {FALSE} ELSE {})

\* distributed_KV::set and del: is it applied, is success returned?  After a
\* timeout both are open, and a reply {"code": "fail"} counts as success.
Call == IF Faulty THEN [applied : BOOLEAN, success : BOOLEAN]
                  ELSE {[applied |-> TRUE, success |-> TRUE]}
Failed(c) == ~(c.applied /\ c.success)

SetsListing(c, d, v) ==
    /\ meta' = IF c.applied THEN meta \cup {d} ELSE meta
    /\ listing' = IF c.applied THEN [listing EXCEPT ![d] = v] ELSE listing

Broadcast(p, event) == news' = [news EXCEPT ![p] = event]

-----------------------------------------------------------------------------
(* The handlers. *)

\* The first call: is there metadata?  create_file answers 200 for a file
\* that exists, create_directory 400; the others need it, and answer 404.
Check(r) ==
    /\ pc[r] = "idle"
    /\ \E found \in Finds(PathOf(r)) :
         /\ Goes(r, CASE want[r].op = "create" -> IF found THEN "ok" ELSE "parent"
                      [] want[r].op = "mkdir"  -> IF found THEN "error" ELSE "parent"
                      [] want[r].op = "delete" -> IF found THEN "remove" ELSE "error"
                      [] want[r].op = "upload" -> IF found THEN "store" ELSE "error")
         /\ Record(r, found # (PathOf(r) \in meta))
    /\ UNCHANGED <<stores, want, copy, deletion, news, late, gaveUp>>

\* create_file and create_directory read the parent's listing.
ReadParent(r) ==
    /\ pc[r] = "parent"
    /\ \E found \in Finds(ParentOf(r)) :
         /\ Goes(r, IF found THEN "own" ELSE "error")
         /\ copy' = [copy EXCEPT ![r] = IF found THEN listing[ParentOf(r)] ELSE @]
         /\ Record(r, found # (ParentOf(r) \in meta))
    /\ UNCHANGED <<stores, want, deletion, news, late, gaveUp>>

\* They write their own metadata.  If that fails a directory is given up,
\* while create_file goes on and fails after the next call.
WriteOwn(r) ==
    /\ pc[r] = "own"
    /\ \E c \in Call :
         /\ IF PathOf(r) \in Dir THEN SetsListing(c, PathOf(r), {})
            ELSE /\ meta' = IF c.applied THEN meta \cup {PathOf(r)} ELSE meta
                 /\ UNCHANGED listing
         /\ Goes(r, IF c.success THEN "link"
                    ELSE IF want[r].op = "create" THEN "linkFail" ELSE "error")
         /\ Record(r, Failed(c))
    /\ UNCHANGED <<block, want, copy, deletion, news, late, gaveUp>>

LinkForgotten(r) ==   \* mutant: the parent's listing is not written back
    /\ pc[r] \in {"link", "linkFail"}
    /\ Goes(r, "ok") /\ Broadcast(PathOf(r), "+")
    /\ Record(r, FALSE)
    /\ UNCHANGED <<stores, want, copy, deletion, late, gaveUp>>

LinkParent(r) ==   \* mutant: push_back(parent_dir) for push_back(dir_id)
    /\ pc[r] = "link"
    /\ SetsListing([applied |-> TRUE], ParentOf(r), copy[r] \cup {ParentOf(r)})
    /\ Goes(r, "ok") /\ Broadcast(PathOf(r), "+")
    /\ Record(r, FALSE)
    /\ UNCHANGED <<block, want, copy, deletion, late, gaveUp>>

\* They write the listing they have read, with the path added, and broadcast
\* the event; create_file does not after a failure of either call.
Link(r) ==
    /\ pc[r] \in {"link", "linkFail"}
    /\ \E c \in Call :
         LET good == want[r].op = "mkdir" \/ (pc[r] = "link" /\ c.success) IN
         /\ SetsListing(c, ParentOf(r), copy[r] \cup {PathOf(r)})
         /\ Goes(r, IF good THEN "ok" ELSE "error")
         /\ IF good THEN Broadcast(PathOf(r), "+") ELSE UNCHANGED news
         /\ Record(r, Failed(c))
    /\ UNCHANGED <<block, want, copy, deletion, late, gaveUp>>

\* delete_path deletes the metadata; the result is not looked at.
Remove(r) ==
    /\ pc[r] = "remove"
    /\ \E c \in Call :
         /\ meta' = IF c.applied THEN meta \ {PathOf(r)} ELSE meta
         /\ Record(r, Failed(c))
    /\ Goes(r, "unlist")
    /\ UNCHANGED <<listing, block, want, copy, deletion, news, late, gaveUp>>

Enqueue(r) ==
    /\ queue' = IF PathOf(r) \in File THEN Append(queue, r) ELSE queue
    /\ UNCHANGED <<batch, worker, stop>>

UnlistListedOnly(r) ==   \* mutant: nothing is enqueued without a parent
    /\ pc[r] = "unlist"
    /\ \E found \in Finds(ParentOf(r)) :
         /\ Goes(r, IF found THEN "unlink" ELSE "ok")
         /\ copy' = [copy EXCEPT ![r] = IF found THEN listing[ParentOf(r)] ELSE @]
         /\ IF found THEN Broadcast(PathOf(r), "-") /\ Enqueue(r)
                     ELSE UNCHANGED <<news, deletion>>
         /\ Record(r, found # (ParentOf(r) \in meta))
    /\ UNCHANGED <<stores, want, late, gaveUp>>

\* It reads the parent's listing, hands a file's content to the
\* DeletionManager, and broadcasts the event if there is a parent.
Unlist(r) ==
    /\ pc[r] = "unlist"
    /\ \E found \in Finds(ParentOf(r)) :
         /\ Goes(r, IF found THEN "unlink" ELSE "ok")
         /\ copy' = [copy EXCEPT ![r] = IF found THEN listing[ParentOf(r)] ELSE @]
         /\ IF found THEN Broadcast(PathOf(r), "-") ELSE UNCHANGED news
         /\ Record(r, found # (ParentOf(r) \in meta))
    /\ Enqueue(r)
    /\ UNCHANGED <<stores, want, late, gaveUp>>

\* It writes the listing back without the path and answers 200.
Unlink(r) ==
    /\ pc[r] = "unlink"
    /\ \E c \in Call : SetsListing(c, ParentOf(r), copy[r] \ {PathOf(r)}) /\ Record(r, Failed(c))
    /\ Goes(r, "ok")
    /\ UNCHANGED <<block, want, copy, deletion, news, late, gaveUp>>

\* A client that got the endpoints uploads to a block server, which refuses
\* a version that does not match (see BlockStore) and knows no metadata.
Store(r) ==
    /\ pc[r] = "store"
    /\ \/ /\ block' = [block EXCEPT ![PathOf(r)] = r]
          /\ late' = IF PathOf(r) \in meta THEN late ELSE late \cup {r}
       \/ UNCHANGED <<block, late>>
    /\ Goes(r, "ok")
    /\ UNCHANGED <<meta, listing, want, copy, deletion, news, disturbed, gaveUp>>

-----------------------------------------------------------------------------
(* DeletionManager::process. *)

\* The wait ends, with ten keys, after three seconds, or when stopped.
TakeBatch ==
    /\ worker = "wait" /\ queue # <<>>
    /\ worker' = "work" /\ batch' = queue /\ queue' = <<>>
    /\ UNCHANGED <<stores, requests, stop, news, history>>

AfterKey(rest) ==
    /\ batch' = rest
    /\ worker' = IF rest = <<>> THEN "wait" ELSE "work"
    /\ UNCHANGED stop

DeleteBlockClears ==   \* mutant: the queue is cleared after the batch, not before
    /\ worker = "work"
    /\ block' = [block EXCEPT ![PathOf(Head(batch))] = None]
    /\ AfterKey(Tail(batch))
    /\ queue' = IF Tail(batch) = <<>> THEN <<>> ELSE queue
    /\ UNCHANGED <<meta, listing, requests, news, history>>

\* One key of the batch: a failure is logged, the key is not kept.
DeleteBlock ==
    /\ worker = "work"
    /\ LET f == PathOf(Head(batch)) IN
         \/ block' = [block EXCEPT ![f] = None] /\ UNCHANGED gaveUp
         \/ Faulty /\ gaveUp' = gaveUp \cup {f} /\ UNCHANGED block
    /\ AfterKey(Tail(batch))
    /\ UNCHANGED <<meta, listing, requests, queue, news, disturbed, late>>

\* exit() runs the destructor, which waits for the worker to end.
Stop ==
    /\ ~stop /\ stop' = TRUE
    /\ UNCHANGED <<stores, requests, queue, batch, worker, news, history>>

EndsAtOnce == stop   \* mutant: "&& deletion_queue.empty()" is dropped

Ends == stop /\ queue = <<>>

WorkerEnds ==
    /\ worker = "wait" /\ Ends
    /\ worker' = "ended"
    /\ UNCHANGED <<stores, requests, queue, batch, stop, news, history>>

-----------------------------------------------------------------------------
Handle(r) == Check(r) \/ ReadParent(r) \/ WriteOwn(r) \/ Link(r) \/ Remove(r)
                \/ Unlist(r) \/ Unlink(r) \/ Store(r)

Next == (\E r \in Request : Handle(r)) \/ TakeBatch \/ DeleteBlock \/ Stop \/ WorkerEnds

\* A request that has begun goes on, each call of it returns or times out;
\* the worker's wait is timed.  No request has to arrive.
Fairness ==
    /\ \A r \in Request : WF_vars(InFlight(r) /\ Handle(r))
    /\ WF_vars(TakeBatch) /\ WF_vars(DeleteBlock)

Spec == Init /\ [][Next]_vars /\ Fairness

-----------------------------------------------------------------------------
\* A directory whose requests never overlapped, failed or deleted it, lists
\* what it holds, and the last event broadcast about a path says the same.
Quiet(d) == \A r \in Request : InFlight(r) => d \notin Touches(r)

UndisturbedDirectory ==
    \A d \in Dir \ disturbed :
        d \in meta /\ Quiet(d) =>
            /\ listing[d] = ChildrenIn(meta, d)
            /\ \A p \in Child : Parent[p] = d => (news[p] = "+" <=> p \in listing[d])

\* Content without metadata is somebody's business: a delete_path that will
\* enqueue it, or the worker's; unless it came after the deletion, or the
\* block servers failed to delete it.
Pending(f) ==
    \E r \in Request :
        /\ want[r].op = "delete" /\ PathOf(r) = f
        /\ \/ pc[r] = "unlist"
           \/ \E i \in DOMAIN queue : queue[i] = r
           \/ \E i \in DOMAIN batch : batch[i] = r

Garbage(f) == f \notin meta /\ block[f] \notin late \cup {None} /\ f \notin gaveUp

NoForgottenContent == \A f \in File : Garbage(f) => Pending(f)

\* It is deleted in the end, or the file is back, unless the server stops.
GarbageCollected == \A f \in File : Garbage(f) ~> (~Garbage(f) \/ worker = "ended")

\* A server that is stopped deletes what is queued before the worker ends.
StopDrainsQueue == worker = "ended" => queue = <<>> /\ batch = <<>>

\* data_blockserver/README.md: a deletion will "modify the parent directory metadata"; the
\* comment of create_directory: "Update parent directory metadata to include
\* the new directory".  A directory nobody works on lists what it holds.
ListingExact ==
    \A d \in Dir : d \in meta /\ Quiet(d) => listing[d] = ChildrenIn(meta, d)

=============================================================================
