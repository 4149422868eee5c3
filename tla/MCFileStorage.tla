---------------------------- MODULE MCFileStorage ----------------------------
(* A small instance of FileStorage for TLC. *)
EXTENDS FileStorage
CONSTANTS n1, n2, a, l, q

==============================================================================
