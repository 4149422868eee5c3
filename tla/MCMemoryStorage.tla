--------------------------- MODULE MCMemoryStorage ---------------------------
(* A small instance of MemoryStorage for TLC.  The two rows differ in      *)
(* whether they have a full vector, so nothing is symmetric.               *)
EXTENDS MemoryStorage

==============================================================================
