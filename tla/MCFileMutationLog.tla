-------------------------- MODULE MCFileMutationLog --------------------------
(* A small instance of FileMutationLog for TLC. *)
EXTENDS FileMutationLog
CONSTANTS a, b
==============================================================================
