------------------------ MODULE ReleaseCutover_proofs ------------------------
(***************************************************************************)
(* Proofs about ReleaseCutover, for any releases, any migrations and any   *)
(* number of runs and faults.                                              *)
(*                                                                         *)
(* The files disagree while a script runs and may stay so for ever after   *)
(* an interruption or a failed replacement.  What the invariant adds is    *)
(* which of them can be trusted when: what is current without the release  *)
(* on trial; how far each file has come at each step of a script; and that *)
(* the link names no missing directory as long as no activated release was *)
(* removed.                                                                *)
(***************************************************************************)
EXTENDS ReleaseCutover, TLAPS

\* The link resolves, and before there is one the pointer does, as long as no
\* activated release was removed.
CurrentResolves ==
    dropped = 0 =>
        /\ link # NoRelease => Present(link)
        /\ link = NoRelease /\ pointer # NoRelease => Present(pointer)

Preparing == {"staging", "migrating"}
Switching == {"activating", "pointed", "linked", "restarting", "probing"}

\* What is current when the directory of r is not there.
Beneath(r) ==
    IF link # r /\ Present(link) THEN link
    ELSE IF pointer # r /\ Present(pointer) THEN pointer ELSE NoRelease

\* A candidate that is being prepared or activated hides the release that was
\* active before, which comes back when the candidate is removed.  A release that
\* is rolled back to may be the active one.
OldBeneath ==
    /\ pc \in Preparing =>
        /\ run.kind \in {"install", "update"}
        /\ run.target # run.old /\ Beneath(run.target) = run.old
    /\ pc = "activating" /\ ~run.restoring =>
        /\ run.kind \in {"install", "update"} =>
            run.target # run.old /\ Beneath(run.target) = run.old
        /\ run.kind \notin {"install", "update"} => Current = run.old
    /\ pc \in {"pointed", "linked"} /\ ~run.restoring /\ run.kind = "install" =>
        Beneath(run.target) \in {run.old, NoRelease}

\* With a link that resolves the release that was active stays so until the link
\* moves.
OldIsCurrent ==
    dropped = 0 =>
        /\ pc \in Preparing => Current = run.old
        /\ pc = "activating" /\ ~run.restoring => Current = run.old

\* What is on trial is a release, and whatever is current is that one or the old.
OnTrial ==
    pc # "idle" => run.target # NoRelease /\ Current \in {run.old, run.target}

\* How far a switch has come, file by file.
Progress ==
    /\ pc \in Preparing => ~run.restoring /\ dest = run.target
    /\ pc = "migrating" => Present(run.target)
    /\ pc \in Switching => dest = IF run.restoring THEN run.old ELSE run.target
    /\ pc = "activating" /\ ~run.restoring => Present(dest)
    /\ pc \in {"pointed", "linked", "probing"} => Present(dest) /\ pointer = dest
    /\ pc \in {"linked", "probing"} /\ ~slipped => link = dest
    /\ pc = "restarting" /\ ~run.restoring => Present(dest) /\ pointer = dest
    /\ pc = "restarting" /\ ~slipped => pointer = dest /\ link = dest
    /\ pc = "probing" => ~run.restoring /\ (~stuck /\ ~slipped => serving = dest)

\* How the files stand to one another and to the script in progress.
Files == CurrentResolves /\ OldBeneath /\ OldIsCurrent /\ OnTrial /\ Progress

\* Everything a later step may activate has its migrations.
SchemaCoversAll ==
    /\ \A r \in {link, pointer, serving, recorded} \ {NoRelease} : schema >= Level[r]
    /\ \A r \in beenActive : schema >= Level[r]
    /\ pc # "idle" /\ run.old # NoRelease => schema >= Level[run.old]
    /\ pc \in {"pointed", "linked"} /\ keep # NoRelease => schema >= Level[keep]
    /\ pc \in Switching /\ dest # NoRelease => schema >= Level[dest]

\* The release to record is there and is not the one activated.
PreviousUsable ==
    dropped = 0 /\ ~run.restoring /\ run.old \notin {NoRelease, run.target} =>
        /\ pc \in {"pointed", "linked"} => Present(keep) /\ keep # dest
        /\ pc \in {"restarting", "probing"} => Present(recorded) /\ recorded # dest

IInv ==
    /\ TypeOK
    /\ Files /\ SchemaCoversAll /\ PreviousUsable
    /\ SuccessIsServing /\ FailureIsUndone /\ RollbackPossible

-----------------------------------------------------------------------------

\* What is active before anything is installed.
LEMMA InitInvariant == Init => IInv
<1> SUFFICES ASSUME Init PROVE IInv
    OBVIOUS
<1> USE ReleaseAssumption DEF Init
<1>1. TypeOK
  <2>1. run \in [kind : Kinds, target : MaybeRelease, old : MaybeRelease, restoring : BOOLEAN]
    BY DEF Kinds, MaybeRelease
  <2>2. stuck \in BOOLEAN /\ slipped \in BOOLEAN
    OBVIOUS
  <2>3. /\ dir \in [Releases -> {"absent", "partial", "complete"}]
        /\ {link, pointer, recorded, serving, dest, keep} \subseteq MaybeRelease
        /\ schema \in 0..MaxLevel
    BY DEF MaybeRelease, MaxLevel
  <2>4. /\ verdict \in {"none", "ok", "failed", "interrupted"}
        /\ pc \in {"idle", "staging", "migrating", "activating", "pointed", "linked",
               "restarting", "probing"}
        /\ beenActive \in SUBSET Releases /\ runs \in 0..MaxRuns /\ faults \in 0..MaxFaults
        /\ dropped \in 0..faults
    OBVIOUS
  <2>5. QED
    BY <2>1, <2>2, <2>3, <2>4 DEF TypeOK
<1>2. Files
    BY DEF Files, CurrentResolves, OldBeneath, OldIsCurrent, OnTrial, Progress, Preparing,
       Switching
<1>3. SchemaCoversAll /\ PreviousUsable
    BY DEF SchemaCoversAll, PreviousUsable, Switching
<1>4. SuccessIsServing /\ FailureIsUndone /\ RollbackPossible
    BY DEF SuccessIsServing, FailureIsUndone, RollbackPossible
<1>5. QED
    BY <1>1, <1>2, <1>3, <1>4 DEF IInv

\* Every step keeps the types.
LEMMA TypeStep == TypeOK /\ Files /\ [Next]_vars => TypeOK'
<1> SUFFICES ASSUME TypeOK, OnTrial, Progress, [Next]_vars PROVE TypeOK'
    BY DEF Files
<1> USE ReleaseAssumption DEF TypeOK, MaybeRelease, Kinds, MaxLevel, files, script, history
<1>1. ASSUME NEW kind \in Kinds, NEW r \in Releases, NEW at \in {"staging", "activating"},
             Begin(kind, r, at), dir' \in [Releases -> {"absent", "partial", "complete"}]
      PROVE  TypeOK'
  <2>1. Current \in MaybeRelease
    BY DEF Current
  <2>2. run' \in [kind : Kinds, target : MaybeRelease, old : MaybeRelease, restoring : BOOLEAN]
    BY <1>1, <2>1 DEF Begin
  <2>3. stuck' \in BOOLEAN
    BY <1>1 DEF Begin
  <2>4. pc' \in {"staging", "activating"} /\ runs' \in 0..MaxRuns
    BY <1>1 DEF Begin
  <2>5. {link, pointer, recorded, serving, dest, keep}' \subseteq MaybeRelease
    BY <1>1 DEF Begin
  <2>6. QED
    BY <1>1, <2>2, <2>3, <2>4, <2>5 DEF Begin
<1>2. ASSUME NEW v \in Releases, Update(v) \/ Install(v) \/ XtRollback(v) PROVE TypeOK'
    BY <1>1, <1>2 DEF Update, Install, XtRollback
<1>3. CASE Rollback
    BY <1>1, <1>3 DEF Rollback, Present
<1>4. CASE Extract
    BY <1>4 DEF Extract
<1>5. CASE ExtractFails
    BY <1>5 DEF ExtractFails, End
<1>6. CASE Migrate
    BY <1>6 DEF Migrate, OnTrial
<1>7. CASE Migrated
    BY <1>7 DEF Migrated
<1>8. CASE MigrationFails
    BY <1>8 DEF MigrationFails, End
<1>9. CASE Point
    BY <1>9 DEF Point, Previous, Current
<1>10. CASE PointFails
    BY <1>10 DEF PointFails, GivesUp, End, Fault
<1>11. CASE Link
    BY <1>11 DEF Link, Progress, Switching, Present
<1>12. CASE LinkFails
    BY <1>12 DEF LinkFails, Fault
<1>13. CASE Record
    BY <1>13 DEF Record
<1>14. CASE RecordFails
    BY <1>14 DEF RecordFails, GivesUp, End, Fault
<1>15. CASE Restart
    BY <1>15 DEF Restart, Restarted, End
<1>16. CASE RestartFails
    BY <1>16 DEF RestartFails, Fault, Restarted, End
<1>17. CASE NoUnit
    BY <1>17 DEF NoUnit, End
<1>18. CASE ProbeOk
    BY <1>18 DEF ProbeOk, End
<1>19. CASE ProbeFails
  <2>1. run' \in [kind : Kinds, target : MaybeRelease, old : MaybeRelease, restoring : BOOLEAN]
    BY <1>19 DEF ProbeFails
  <2>2. /\ pc' \in {"idle", "activating"} /\ dest' \in MaybeRelease
        /\ verdict' \in {"none", "ok", "failed", "interrupted"}
    BY <1>19 DEF ProbeFails, End
  <2>3. QED
    BY <1>19, <2>1, <2>2 DEF ProbeFails
<1>20. CASE Interrupt
    BY <1>20 DEF Interrupt, Fault, End
<1>21. CASE Reboot
    BY <1>21 DEF Reboot, Fault, End
<1>22. CASE UNCHANGED vars
    BY <1>22 DEF vars
<1>23. QED
    BY <1>2, <1>3, <1>4, <1>5, <1>6, <1>7, <1>8, <1>9, <1>10, <1>11, <1>12, <1>13, <1>14,
       <1>15, <1>16, <1>17, <1>18,
       <1>19, <1>20, <1>21, <1>22 DEF Next

-----------------------------------------------------------------------------

\* Every step keeps what can be said of the three files and how far they are.
LEMMA FilesStep ==
    TypeOK /\ Files /\ [Next]_vars => Files'
<1> SUFFICES ASSUME TypeOK, Files, [Next]_vars PROVE Files'
    OBVIOUS
<1> USE ReleaseAssumption DEF Files, CurrentResolves, OldBeneath, Beneath, OldIsCurrent,
        OnTrial, Progress, Preparing,
        Switching, Present, Current, TypeOK, MaybeRelease, files, script, history
<1>1. ASSUME NEW v \in Releases, Update(v) PROVE Files'
    BY <1>1 DEF Update, Begin
<1>2. ASSUME NEW v \in Releases, Install(v) PROVE Files'
    BY <1>2 DEF Install, Begin
<1>3. ASSUME NEW v \in Releases, XtRollback(v) PROVE Files'
    BY <1>3 DEF XtRollback, Begin
<1>4. CASE Rollback
    BY <1>4 DEF Rollback, Begin
<1>5. CASE Extract
    BY <1>5 DEF Extract
<1>6. CASE ExtractFails
    BY <1>6 DEF ExtractFails, End
<1>7. CASE Migrate
    BY <1>7 DEF Migrate
<1>8. CASE Migrated
    BY <1>8 DEF Migrated
<1>9. CASE MigrationFails
    BY <1>9 DEF MigrationFails, End
<1>10. CASE Point
    BY <1>10 DEF Point
<1>11. CASE PointFails
    BY <1>11 DEF PointFails, GivesUp, End, Fault
<1>12. CASE Link
    BY <1>12 DEF Link
<1>13. CASE LinkFails
    BY <1>13 DEF LinkFails, Fault
<1>14. CASE Record
    BY <1>14 DEF Record
<1>15. CASE RecordFails
    BY <1>15 DEF RecordFails, GivesUp, End, Fault
<1>16. CASE Restart
    BY <1>16 DEF Restart, Restarted, End
<1>17. CASE RestartFails
    BY <1>17 DEF RestartFails, Fault, Restarted, End
<1>18. CASE NoUnit
    BY <1>18 DEF NoUnit, End
<1>19. CASE ProbeOk
    BY <1>19 DEF ProbeOk, End
<1>20. CASE ProbeFails
    BY <1>20 DEF ProbeFails, End
<1>21. CASE Interrupt
    BY <1>21 DEF Interrupt, Fault, End
<1>22. CASE Reboot
    BY <1>22 DEF Reboot, Fault, End
<1>23. CASE UNCHANGED vars
    BY <1>23 DEF vars
<1>24. QED
    BY <1>1, <1>2, <1>3, <1>4, <1>5, <1>6, <1>7, <1>8, <1>9, <1>10, <1>11, <1>12, <1>13,
       <1>14, <1>15, <1>16, <1>17, <1>18, <1>19, <1>20, <1>21, <1>22, <1>23 DEF Next

\* No step makes a release reachable whose migrations are not applied.
LEMMA SchemaStep ==
    TypeOK /\ Files /\ SchemaCoversAll /\ [Next]_vars
        => SchemaCoversAll'
<1> SUFFICES ASSUME TypeOK, Files, SchemaCoversAll, [Next]_vars
             PROVE  SchemaCoversAll'
    OBVIOUS
<1> USE ReleaseAssumption DEF SchemaCoversAll, Files, OnTrial, Progress, Preparing,
        Switching, Present, Current, TypeOK, MaybeRelease, files, script, history
<1>1. ASSUME NEW v \in Releases, Update(v) PROVE SchemaCoversAll'
    BY <1>1 DEF Update, Begin
<1>2. ASSUME NEW v \in Releases, Install(v) PROVE SchemaCoversAll'
    BY <1>2 DEF Install, Begin
<1>3. ASSUME NEW v \in Releases, XtRollback(v) PROVE SchemaCoversAll'
    BY <1>3 DEF XtRollback, Begin
<1>4. CASE Rollback
    BY <1>4 DEF Rollback, Begin
<1>5. CASE Extract
    BY <1>5 DEF Extract
<1>6. CASE ExtractFails
    BY <1>6 DEF ExtractFails, End
<1>7. CASE Migrate
    BY <1>7 DEF Migrate
<1>8. CASE Migrated
    BY <1>8 DEF Migrated
<1>9. CASE MigrationFails
    BY <1>9 DEF MigrationFails, End
<1>10. CASE Point
    BY <1>10 DEF Point, Previous
<1>11. CASE PointFails
    BY <1>11 DEF PointFails, GivesUp, End, Fault
<1>12. CASE Link
    BY <1>12 DEF Link
<1>13. CASE LinkFails
    BY <1>13 DEF LinkFails, Fault
<1>14. CASE Record
    BY <1>14 DEF Record
<1>15. CASE RecordFails
    BY <1>15 DEF RecordFails, GivesUp, End, Fault
<1>16. CASE Restart
    BY <1>16 DEF Restart, End, Restarted
<1>17. CASE RestartFails
    BY <1>17 DEF RestartFails, Fault, End, Restarted
<1>18. CASE NoUnit
    BY <1>18 DEF NoUnit, End
<1>19. CASE ProbeOk
    BY <1>19 DEF ProbeOk, End
<1>20. CASE ProbeFails
    BY <1>20 DEF ProbeFails, End
<1>21. CASE Interrupt
    BY <1>21 DEF Interrupt, Fault, End
<1>22. CASE Reboot
    BY <1>22 DEF Reboot, Fault, End
<1>23. CASE UNCHANGED vars
    BY <1>23 DEF vars
<1>24. QED
    BY <1>1, <1>2, <1>3, <1>4, <1>5, <1>6, <1>7, <1>8, <1>9, <1>10, <1>11, <1>12, <1>13,
       <1>14, <1>15, <1>16, <1>17, <1>18, <1>19, <1>20, <1>21, <1>22, <1>23 DEF Next

\* The directory to roll back to survives until it is recorded.
LEMMA PreviousStep ==
    TypeOK /\ Files /\ PreviousUsable /\ [Next]_vars => PreviousUsable'
<1> SUFFICES ASSUME TypeOK, Files, PreviousUsable, [Next]_vars
             PROVE  PreviousUsable'
    OBVIOUS
<1> USE ReleaseAssumption DEF PreviousUsable, Files, OldIsCurrent, OldBeneath, Progress,
        Preparing,
        Switching, Present, Current, TypeOK, MaybeRelease, files, script, history
<1>1. ASSUME NEW v \in Releases, Update(v) PROVE PreviousUsable'
    BY <1>1 DEF Update, Begin
<1>2. ASSUME NEW v \in Releases, Install(v) PROVE PreviousUsable'
    BY <1>2 DEF Install, Begin
<1>3. ASSUME NEW v \in Releases, XtRollback(v) PROVE PreviousUsable'
    BY <1>3 DEF XtRollback, Begin
<1>4. CASE Rollback
    BY <1>4 DEF Rollback, Begin
<1>5. CASE Extract
    BY <1>5 DEF Extract
<1>6. CASE ExtractFails
    BY <1>6 DEF ExtractFails, End
<1>7. CASE Migrate
    BY <1>7 DEF Migrate
<1>8. CASE Migrated
    BY <1>8 DEF Migrated
<1>9. CASE MigrationFails
    BY <1>9 DEF MigrationFails, End
<1>10. CASE Point
    BY <1>10 DEF Point, Previous
<1>11. CASE PointFails
    BY <1>11 DEF PointFails, GivesUp, End, Fault
<1>12. CASE Link
    BY <1>12 DEF Link
<1>13. CASE LinkFails
    BY <1>13 DEF LinkFails, Fault
<1>14. CASE Record
    BY <1>14 DEF Record
<1>15. CASE RecordFails
    BY <1>15 DEF RecordFails, GivesUp, End, Fault
<1>16. CASE Restart
    BY <1>16 DEF Restart, End, Restarted
<1>17. CASE RestartFails
    BY <1>17 DEF RestartFails, Fault, End, Restarted
<1>18. CASE NoUnit
    BY <1>18 DEF NoUnit, End
<1>19. CASE ProbeOk
    BY <1>19 DEF ProbeOk, End
<1>20. CASE ProbeFails
    BY <1>20 DEF ProbeFails, End
<1>21. CASE Interrupt
    BY <1>21 DEF Interrupt, Fault, End
<1>22. CASE Reboot
    BY <1>22 DEF Reboot, Fault, End
<1>23. CASE UNCHANGED vars
    BY <1>23 DEF vars
<1>24. QED
    BY <1>1, <1>2, <1>3, <1>4, <1>5, <1>6, <1>7, <1>8, <1>9, <1>10, <1>11, <1>12, <1>13,
       <1>14, <1>15, <1>16, <1>17, <1>18, <1>19, <1>20, <1>21, <1>22, <1>23 DEF Next

\* What a run leaves behind when it ends is what its verdict says.
LEMMA OutcomeStep ==
    IInv /\ [Next]_vars => SuccessIsServing' /\ FailureIsUndone' /\ RollbackPossible'
<1> SUFFICES ASSUME IInv, [Next]_vars
             PROVE  SuccessIsServing' /\ FailureIsUndone' /\ RollbackPossible'
    OBVIOUS
<1> USE ReleaseAssumption DEF IInv, Files, SuccessIsServing, FailureIsUndone,
        RollbackPossible, Answers,
        PreviousUsable, Progress, Preparing, Switching, Present, TypeOK, MaybeRelease,
        files, script, history
<1>1. ASSUME NEW v \in Releases, Update(v)
      PROVE  SuccessIsServing' /\ FailureIsUndone' /\ RollbackPossible'
    BY <1>1 DEF Update, Begin
<1>2. ASSUME NEW v \in Releases, Install(v)
      PROVE  SuccessIsServing' /\ FailureIsUndone' /\ RollbackPossible'
    BY <1>2 DEF Install, Begin
<1>3. ASSUME NEW v \in Releases, XtRollback(v)
      PROVE  SuccessIsServing' /\ FailureIsUndone' /\ RollbackPossible'
    BY <1>3 DEF XtRollback, Begin
<1>4. CASE Rollback
    BY <1>4 DEF Rollback, Begin
<1>5. CASE Extract
    BY <1>5 DEF Extract
<1>6. CASE ExtractFails
    BY <1>6 DEF ExtractFails, End
<1>7. CASE Migrate
    BY <1>7 DEF Migrate
<1>8. CASE Migrated
    BY <1>8 DEF Migrated
<1>9. CASE MigrationFails
    BY <1>9 DEF MigrationFails, End
<1>10. CASE Point
    BY <1>10 DEF Point, Previous
<1>11. CASE PointFails
    BY <1>11 DEF PointFails, GivesUp, End, Fault
<1>12. CASE Link
    BY <1>12 DEF Link
<1>13. CASE LinkFails
    BY <1>13 DEF LinkFails, Fault
<1>14. CASE Record
    BY <1>14 DEF Record
<1>15. CASE RecordFails
    BY <1>15 DEF RecordFails, GivesUp, End, Fault
<1>16. CASE Restart
    BY <1>16 DEF Restart, End, Restarted
<1>17. CASE RestartFails
    BY <1>17 DEF RestartFails, Fault, End, Restarted
<1>18. CASE NoUnit
    BY <1>18 DEF NoUnit, End
<1>19. CASE ProbeOk
    BY <1>19 DEF ProbeOk, End
<1>20. CASE ProbeFails
    BY <1>20 DEF ProbeFails, End
<1>21. CASE Interrupt
    BY <1>21 DEF Interrupt, Fault, End
<1>22. CASE Reboot
    BY <1>22 DEF Reboot, Fault, End
<1>23. CASE UNCHANGED vars
    BY <1>23 DEF vars
<1>24. QED
    BY <1>1, <1>2, <1>3, <1>4, <1>5, <1>6, <1>7, <1>8, <1>9, <1>10, <1>11, <1>12, <1>13,
       <1>14, <1>15, <1>16, <1>17, <1>18, <1>19, <1>20, <1>21, <1>22, <1>23 DEF Next

-----------------------------------------------------------------------------

\* Every step preserves the inductive invariant.
LEMMA StepInvariant == IInv /\ [Next]_vars => IInv'
BY TypeStep, FilesStep, SchemaStep, PreviousStep, OutcomeStep DEF IInv

\* The inductive invariant holds in every reachable state, whatever runs are
\* started, interrupted or overtaken by a reboot (xt_activate_release,
\* release-layout.sh:251-297, and its callers).
THEOREM Invariance == Spec => []IInv
BY InitInvariant, StepInvariant, PTL DEF Spec

\* Every reachable state of the host is of its type.
THEOREM TypeCorrect == Spec => []TypeOK
BY Invariance, PTL DEF IInv

\* A run that reports success has moved the link, the pointer and the service to
\* its target, whatever runs were interrupted or failed before it, unless its own
\* restart or link failed unnoticed.
THEOREM SuccessServes == Spec => []SuccessIsServing
BY Invariance, PTL DEF IInv

\* A run that failed its readiness check has put the link, the pointer and the
\* service back, whatever failed before, unless the pointer, the link or the
\* restart of the restore itself failed unnoticed.
THEOREM FailureUndone == Spec => []FailureIsUndone
BY Invariance, PTL DEF IInv

\* After a switch there is a release to roll back to, and it is another one, as
\* long as the installer has removed no release it had activated.
THEOREM CanRollBack == Spec => []RollbackPossible
BY Invariance, PTL DEF IInv

\* What can be activated later is covered, so what is named now is.
LEMMA CoversActive == SchemaCoversAll => SchemaCoversActive
BY DEF SchemaCoversAll, SchemaCoversActive

\* No release is named or served before its migrations are applied.
THEOREM SchemaCovers == Spec => []SchemaCoversActive
BY Invariance, CoversActive, PTL DEF IInv

-----------------------------------------------------------------------------
(* The refinement *)

\* The host starts without an active release and without one on trial.
LEMMA SwitchInit == Init => Switch!Init
BY DEF Init, Switch!Init, Current, Present

\* A script that begins puts a release on trial and leaves the active one alone.
LEMMA TrialBegins ==
    ASSUME IInv, NEW kind, NEW r \in Releases, NEW at, at # "idle", Begin(kind, r, at)
    PROVE  Switch!Try(r)
BY ReleaseAssumption DEF Begin, Switch!Try

\* A script keeps its target and the release it began from, and when it ends one
\* of them is active, or it has removed what it activated.
LEMMA ScriptStep ==
    ASSUME IInv, pc # "idle", [Next]_vars
    PROVE  /\ run'.old = run.old /\ run'.target = run.target
           /\ \/ dropped' = dropped /\ (pc' = "idle" => Current' \in {run.old, run.target})
              \/ dropped' = dropped + 1 /\ pc' = "idle" /\ Current' \in {run.old, NoRelease}
<1> USE DEF IInv, Files, TypeOK, OnTrial, Present, Current, files, script, history
<1>1. ASSUME dir' = [dir EXCEPT ![run.target] = "absent"], UNCHANGED <<link, pointer>>
      PROVE  Current' = Beneath(run.target)
    BY <1>1 DEF Beneath, MaybeRelease
<1>2. CASE ExtractFails \/ MigrationFails
  <2>1. pc \in Preparing /\ run' = run /\ dropped' = dropped /\ UNCHANGED <<link, pointer>>
        /\ dir' \in {dir, [dir EXCEPT ![run.target] = "absent"]}
    BY <1>2 DEF ExtractFails, MigrationFails, Preparing
  <2>2. Beneath(run.target) = run.old
    BY <2>1 DEF OldBeneath
  <2>3. QED
    BY <1>1, <2>1, <2>2
<1>3. CASE PointFails
  <2>1. run' = run /\ dropped' = dropped /\ UNCHANGED <<link, pointer>>
    BY <1>3 DEF PointFails, GivesUp, End
  <2>2. CASE dir' = dir
    BY <2>1, <2>2
  <2>3. CASE dir' # dir
    <3>1. pc = "activating" /\ ~run.restoring /\ run.kind = "install"
          /\ dir' = [dir EXCEPT ![dest] = "absent"]
      BY <1>3, <2>3 DEF PointFails, GivesUp
    <3>2. dest = run.target /\ Beneath(run.target) = run.old
      BY <3>1 DEF Progress, Switching, OldBeneath
    <3>3. QED BY <1>1, <2>1, <3>1, <3>2
  <2>4. QED BY <2>2, <2>3
<1>4. CASE RecordFails
  <2>1. run' = run /\ UNCHANGED <<link, pointer>> /\ pc = "linked"
    BY <1>4 DEF RecordFails
  <2>2. CASE dir' = dir /\ dropped' = dropped
    BY <2>1, <2>2
  <2>3. CASE ~(dir' = dir /\ dropped' = dropped)
    <3>1. /\ ~run.restoring /\ run.kind = "install" /\ pc' = "idle"
          /\ dir' = [dir EXCEPT ![dest] = "absent"] /\ dropped' = dropped + 1
      BY <1>4, <2>3 DEF RecordFails, GivesUp, End
    <3>2. dest = run.target /\ Beneath(run.target) \in {run.old, NoRelease}
      BY <2>1, <3>1 DEF Progress, Switching, OldBeneath
    <3>3. QED BY <1>1, <2>1, <3>1, <3>2
  <2>4. QED BY <2>2, <2>3
<1>5. CASE Extract \/ Migrate \/ Migrated
    BY <1>5 DEF Extract, Migrate, Migrated
<1>6. CASE Point \/ Link \/ LinkFails \/ Record
    BY <1>6 DEF Point, Link, LinkFails, Record
<1>7. CASE Restart \/ RestartFails \/ NoUnit
    BY <1>7 DEF Restart, RestartFails, NoUnit
<1>8. CASE ProbeOk
    BY <1>8 DEF ProbeOk
<1>9. CASE ProbeFails
    BY <1>9 DEF ProbeFails
<1>10. CASE Interrupt \/ Reboot
    BY <1>10 DEF Interrupt, Reboot
<1>11. CASE UNCHANGED vars
    BY <1>11 DEF vars
<1>12. QED
    BY <1>2, <1>3, <1>4, <1>5, <1>6, <1>7, <1>8, <1>9, <1>10, <1>11
       DEF Next, Update, Install, XtRollback, Rollback, Begin

\* The state of the switch that a state of the host stands for.
Switched == <<IF pc = "idle" THEN Current ELSE run.old,
              IF pc = "idle" THEN NoRelease ELSE run.target, dropped>>

\* Every step of a script, every interruption and every reboot is a step of the
\* abstract switch or none.
LEMMA SwitchStep == IInv /\ [Next]_vars => [Switch!Next]_Switched
<1> SUFFICES ASSUME IInv, [Next]_vars PROVE [Switch!Next]_Switched
    OBVIOUS
<1>1. CASE pc # "idle"
  <2>1. run.target # NoRelease
    BY <1>1 DEF IInv, Files, OnTrial
  <2>2. CASE pc' = "idle" /\ dropped' = dropped
    <3>1. dropped \in Nat
      BY DEF IInv, TypeOK
    <3>2. Current' \in {run.old, run.target}
      BY <1>1, <2>2, <3>1, ScriptStep
    <3>3. QED BY <1>1, <2>1, <2>2, <3>2 DEF Switch!Next, Switch!Accept, Switch!Reject
  <2>3. CASE pc' = "idle" /\ dropped' # dropped
    <3>1. dropped' = dropped + 1 /\ Current' \in {run.old, NoRelease}
      BY <1>1, <2>3, ScriptStep
    <3>2. QED BY <1>1, <2>1, <2>3, <3>1 DEF Switch!Next, Switch!Drop
  <2>4. CASE pc' # "idle"
    BY <1>1, <2>4, ScriptStep DEF Switched
  <2>5. QED
    BY <2>2, <2>3, <2>4
<1>2. CASE pc = "idle"
  <2>1. ASSUME NEW r \in Releases, Switch!Try(r) PROVE Switch!Next
    BY <2>1 DEF Switch!Next
  <2>2. ASSUME NEW v \in Releases, Update(v) \/ Install(v) \/ XtRollback(v) PROVE Switch!Next
    BY <2>1, <2>2, TrialBegins DEF Update, Install, XtRollback
  <2>3. CASE Rollback
    BY <2>1, <2>3, TrialBegins DEF Rollback, Present, IInv, TypeOK, MaybeRelease
  <2>4. CASE Reboot
    BY <1>2, <2>4 DEF Reboot, Fault, Switched, Current, Present, history
  <2>5. CASE UNCHANGED vars
    BY <1>2, <2>5 DEF vars, files, script, history, Switched, Current, Present
  <2>6. QED
    BY <1>2, <2>2, <2>3, <2>4, <2>5
       DEF Next, Extract, ExtractFails, Migrate, Migrated, MigrationFails, Point, PointFails,
           Link, LinkFails, Record, RecordFails, Restart, RestartFails, NoUnit, ProbeOk,
           ProbeFails, Interrupt
<1>3. QED
    BY <1>1, <1>2

\* The three files, replaced one after the other by scripts that may be cut off
\* between any two steps and may fail at each of them, implement one switch of the
\* active release: to the target, not at all, or to nothing where the installer
\* removes what it has activated.
THEOREM ImplementsSwitch == Spec => SwitchIsAtomic
<1>1. IInv /\ [Next]_vars
        => [Switch!Next]_<<IF pc = "idle" THEN Current ELSE run.old,
                           IF pc = "idle" THEN NoRelease ELSE run.target, dropped>>
    BY SwitchStep DEF Switched
<1>2. QED
    BY SwitchInit, <1>1, Invariance, PTL DEF Spec, SwitchIsAtomic, Switch!Spec
=============================================================================
