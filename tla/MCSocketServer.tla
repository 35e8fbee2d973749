--------------------------- MODULE MCSocketServer ---------------------------
(* Small instances of SocketServer for TLC. *)
EXTENDS SocketServer, TLC

Symmetry == Permutations(Conns)

=============================================================================
