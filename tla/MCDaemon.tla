------------------------------ MODULE MCDaemon ------------------------------
(* Daemon for TLC.  The binary x and its database x.i64 share a database;  *)
(* y has one of its own.                                                   *)
EXTENDS Daemon

MCLoadRequest ==
    {[path |-> "x", db |-> "x.i64"], [path |-> "x.i64", db |-> "x.i64"],
     [path |-> "y", db |-> "y.i64"]}
=============================================================================
