---------------------------- MODULE Subsequences ----------------------------
(***************************************************************************)
(* Parts of a sequence in its order: what erasing from a list leaves, what  *)
(* a queue keeps that takes no event twice.  SelectSeq and the folds would  *)
(* do; these forms have no recursion, so that the proofs can reason about   *)
(* them.                                                                    *)
(***************************************************************************)
EXTENDS Naturals, Sequences, FiniteSets

\* The elements of s at the positions of I.
Picked(s, I) ==
    LET rank(i) == Cardinality({j \in I : j <= i})
    IN [k \in 1..Cardinality(I) |-> s[CHOOSE i \in I : rank(i) = k]]

\* The first of the elements that are equal.
Distinct(s) == Picked(s, {i \in DOMAIN s : \A j \in 1..(i - 1) : s[j] # s[i]})
=============================================================================
