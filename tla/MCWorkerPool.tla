---------------------------- MODULE MCWorkerPool ----------------------------
(* Small instances of WorkerPool for TLC. *)
EXTENDS WorkerPool, TLC

\* Sessions are interchangeable, and so are executor slots.
Interchangeable == Permutations(Session) \cup Permutations(Task)
=============================================================================
