--------------------------- MODULE MCChildProcess ---------------------------
(* ChildProcess on three callers and two process ids.  Its liveness runs   *)
(* with it, so no symmetry is used.                                        *)
EXTENDS ChildProcess
=============================================================================
