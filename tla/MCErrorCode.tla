---------------------------- MODULE MCErrorCode ----------------------------
(* Small instances of ErrorCode for TLC. *)
EXTENDS ErrorCode, TLC

Symmetry == Permutations(Threads)

=============================================================================
