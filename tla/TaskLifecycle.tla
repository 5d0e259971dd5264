----------------------------- MODULE TaskLifecycle -----------------------------
(***************************************************************************)
(* What a client that polls a background task may rely on, whatever the    *)
(* registry does inside (server/task.rs): a request to cancel is never     *)
(* answered by a result, a terminal status is final, work in progress is   *)
(* never forgotten, and a result can be read before it is forgotten.       *)
(***************************************************************************)
CONSTANT Id
VARIABLE phase

Terminal == {"completed", "failed", "cancelled"}
Phase == {"unborn", "working", "cancelling", "gone"} \cup Terminal

Moves == {<<"unborn", "working">>, <<"working", "cancelling">>}
         \cup {"working"} \X Terminal
         \cup {"cancelling"} \X {"failed", "cancelled"}
         \cup Terminal \X {"gone"}

Init == phase = [i \in Id |-> "unborn"]

\* A step may forget several tasks and cancel several; each makes a legal move.
Next == /\ phase' \in [Id -> Phase]
        /\ \A i \in Id : phase'[i] # phase[i] => <<phase[i], phase'[i]>> \in Moves

Spec == Init /\ [][Next]_phase
================================================================================
