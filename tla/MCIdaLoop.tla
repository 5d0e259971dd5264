----------------------------- MODULE MCIdaLoop -----------------------------
(* Small instances of IdaLoop for TLC.  Clients and paths are model values; *)
(* no symmetry is declared, because the runs check liveness.                *)
EXTENDS IdaLoop
=============================================================================
