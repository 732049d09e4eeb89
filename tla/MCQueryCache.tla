---------------------------- MODULE MCQueryCache ----------------------------
(* Instances of QueryCache for TLC. *)
EXTENDS QueryCache, TLC

ReaderSymmetry == Permutations(Readers)
=============================================================================
