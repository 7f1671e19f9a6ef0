---------------------------- MODULE ReleaseSwitch ----------------------------
(***************************************************************************)
(* What an update, an install or a rollback promises, without the files it *)
(* works with: one release is active; a run puts another one on trial, and *)
(* when it ends - finished, failed or interrupted - either the release on  *)
(* trial is the active one or the release that was active before still is. *)
(* There is one other outcome: a run may drop the release on trial after   *)
(* it has made it the active one, and then none is.                        *)
(***************************************************************************)
EXTENDS Naturals

CONSTANTS Releases, NoRelease

VARIABLES
    active, trial,
    dropped     \* how often the release on trial was dropped

Init == active = NoRelease /\ trial = NoRelease /\ dropped = 0

Try(r) == trial = NoRelease /\ trial' = r /\ UNCHANGED <<active, dropped>>

Accept == trial # NoRelease /\ active' = trial /\ trial' = NoRelease /\ UNCHANGED dropped

Reject == trial # NoRelease /\ trial' = NoRelease /\ UNCHANGED <<active, dropped>>

\* Not all of the switch had been made, so the release before may be back.
Drop ==
    /\ trial # NoRelease /\ trial' = NoRelease
    /\ active' \in {active, NoRelease} /\ dropped' = dropped + 1

Next == Accept \/ Reject \/ Drop \/ \E r \in Releases : Try(r)

Spec == Init /\ [][Next]_<<active, trial, dropped>>
=============================================================================
