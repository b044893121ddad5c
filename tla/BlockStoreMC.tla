----------------------------- MODULE BlockStoreMC -----------------------------
(* Instances of BlockStore for TLC. *)
EXTENDS BlockStore, TLC
=============================================================================
