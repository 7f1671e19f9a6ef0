-------------------------- MODULE MCReleaseCutover --------------------------
EXTENDS ReleaseCutover, TLC

CONSTANTS r1, r2, r3

MCLevel == (r1 :> 1) @@ (r2 :> 2) @@ (r3 :> 2)
=============================================================================
