-------------------------- MODULE DatabaseLifetime --------------------------
(***************************************************************************)
(* What the IDA thread promises about databases.  At most one is open.     *)
(* Every opening starts a lifetime with a number that was never used       *)
(* before, and the lifetime ends with the database                         *)
(* (DatabaseGeneration, src/src/ida/request.rs and loop_impl.rs).          *)
(***************************************************************************)
EXTENDS Integers

CONSTANTS Path, NoPath

VARIABLES database, lifetime, last

vars == <<database, lifetime, last>>

Init == database = NoPath /\ lifetime = 0 /\ last = 0

Open(p) ==
  /\ database = NoPath
  /\ database' = p
  /\ last' = last + 1
  /\ lifetime' = last'

Close ==
  /\ database # NoPath
  /\ database' = NoPath
  /\ lifetime' = 0
  /\ UNCHANGED last

Next == Close \/ \E p \in Path : Open(p)

Spec == Init /\ [][Next]_vars
=============================================================================
