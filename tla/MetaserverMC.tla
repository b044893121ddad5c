---------------------------- MODULE MetaserverMC ----------------------------
(* Instances of Metaserver for TLC: the root may hold a directory and a     *)
(* file, the directory may hold one file.                                   *)
EXTENDS Metaserver, TLC

CONSTANTS top, sub, topFile, subFile

MCParent == (sub :> top) @@ (topFile :> top) @@ (subFile :> sub)

\* Requests 1, 2, 3 are alike: of the ways to give them what they want, one
\* in each order of operations and paths is enough.
MCRank(w) == 10 * (CASE w.op = "mkdir" -> 1 [] w.op = "create" -> 2
                     [] w.op = "upload" -> 3 [] w.op = "delete" -> 4)
             + (CASE w.path = sub -> 1 [] w.path = subFile -> 2 [] w.path = topFile -> 3)
MCOrdered == \A r, s \in Request : r < s => MCRank(want[r]) <= MCRank(want[s])
\* Both files are there to begin with, or none; the third request is not a
\* retry of the second.
MCInit ==
    /\ Init /\ MCOrdered /\ (topFile \in meta <=> subFile \in meta)
    /\ MCRank(want[2]) < MCRank(want[3])
MCSpec == MCInit /\ [][Next]_vars /\ Fairness
=============================================================================
