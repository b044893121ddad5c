---------------------------- MODULE ClientSyncMC ----------------------------
(* An instance of ClientSync for TLC: two devices, one file, two edits. eb   *)
(* clashes with ea, ec does not; devices are alike, and so are ea and eb:   *)
(* the first edit is ea and d1 makes it.                                    *)
EXTENDS ClientSync, FiniteSets

CONSTANTS d1, d2, file, copy1, copy2, deep, ea, eb, ec, old

\* No conflict on a conflicted copy is within the bounds: deep stays unused.
MCCopyName == [d \in Device |-> [f \in File |->
                 IF f # file THEN deep ELSE IF d = d1 THEN copy1 ELSE copy2]]
MCClash == {<<ea, eb>>, <<eb, ea>>}

Made == {e \in Edit : madeIn[e] # None}

\* Once a mishap has met other work on the file nothing more is claimed about
\* it, and nothing more is explored.
MCNext ==
    /\ mishaps = 0 \/ Main \ spoiled # {}
    /\ Next
    /\ Made = {} => Made' = {} \/ (Made' = {ea} /\ disk'[d2] = disk[d2])
    /\ Cardinality(Made') <= 2

MCSpec == Init /\ [][MCNext]_vars /\ Fairness
=============================================================================
