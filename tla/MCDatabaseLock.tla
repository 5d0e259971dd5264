--------------------------- MODULE MCDatabaseLock ---------------------------
(* DatabaseLock for TLC: processes are interchangeable. *)
EXTENDS DatabaseLock, TLC

Symmetry == Permutations(Proc)
=============================================================================
