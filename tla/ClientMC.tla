------------------------------ MODULE ClientMC ------------------------------
(***************************************************************************)
(* The two halves of the client's synchronisation side by side, for TLC:   *)
(* files (ClientSync) and directories (Directories).  They share no state; *)
(* the one in focus moves.                                                 *)
(***************************************************************************)
EXTENDS ClientSyncMC

CONSTANTS
    Dir, Root, Parent, MaxOps, MaxSetbacks,   \* Directories
    MaxNotices,                               \* bound: notices on their way at once
    root, top, sub, side

\* The directories are a tree: the way up from each ends in the root.
ASSUME TreeAssumption ==
    /\ Root \in Dir /\ None \notin Dir /\ IsFiniteSet(Dir)
    /\ Parent \in [Dir \ {Root} -> Dir]
    /\ \A S \in SUBSET (Dir \ {Root}) : S # {} => \E p \in S : Parent[p] \notin S
ASSUME RowAssumption == \A S \in SUBSET Dir : S # None
ASSUME LimitAssumption == MaxOps \in Nat /\ MaxSetbacks \in Nat

VARIABLES
    tree, listing, notices, dirs, rows, heard, watched, snapshot, queue, draining,
    stage, calls, doing, unseen, doubtful, ops, setbacks,
    focus

D == INSTANCE Directories WITH
       meta <- tree, wire <- notices, disk <- dirs, row <- rows, inotify <- heard,
       phase <- stage, job <- doing, spoiled <- doubtful, mishaps <- setbacks,
       MaxMishaps <- MaxSetbacks

directories == <<tree, listing, notices, dirs, rows, heard, watched, snapshot, queue, draining,
                 stage, calls, doing, unseen, doubtful, ops, setbacks>>
all == <<vars, directories, focus>>

\* top is in the root, and the two others are in it.
MCParent == (top :> Root) @@ (sub :> top) @@ (side :> top)

Files == focus = "files"
Directories == focus = "directories"

BothInit ==
    /\ Init /\ D!Init
    /\ focus \in {"files", "directories"}
    /\ ~Files => meta = {}
    /\ ~Directories => tree = {Root}

\* The first to do something is d1.  Nothing more is explored when all
\* directories are below one with a loss that is known.
DirectoriesNext ==
    /\ D!Next
    /\ ops = 0 /\ setbacks = 0 => dirs'[d2] = dirs[d2] /\ stage'[d2] = stage[d2]
    /\ D!Path \ UNION {D!Below(p) : p \in doubtful} # {}
    /\ BagCardinality(notices') <= MaxNotices

BothNext ==
    /\ UNCHANGED focus
    /\ IF Files THEN MCNext ELSE UNCHANGED vars
    /\ IF Directories THEN DirectoriesNext ELSE UNCHANGED directories

\* The fairness of each, for the one in focus.
BothFairness ==
    /\ \A d \in Device : WF_vars(Files /\ Watch(d)) /\ WF_vars(Files /\ Handler(d))
    /\ WF_vars(Files /\ Purge)
    /\ \A d \in Device : /\ WF_directories(Directories /\ D!Watch(d))
                          /\ WF_directories(Directories /\ D!Handler(d))

BothSpec == BothInit /\ [][BothNext]_all /\ BothFairness

-----------------------------------------------------------------------------
\* The type invariants of the two modules.
TypesOK == TypeOK /\ D!TypeOK

\* Directories: when nothing is left to do every device has what is listed.
TreesAgree == D!TreesAgree

\* Directories: rows are of directories that are there.
RowsFit == D!RowsFit

\* Echoes end, those of files and those of directories.
AllComesToRest == <>[](Quiet /\ D!Settled)
=============================================================================
