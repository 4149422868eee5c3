---------------------------- MODULE MCIndexReplay ----------------------------
(* A small instance of IndexReplay for TLC. *)
EXTENDS IndexReplay, TLC
CONSTANTS a, b
MCMutations == Inserts \cup Deletes
RowSymmetry == Permutations({a, b})
==============================================================================
