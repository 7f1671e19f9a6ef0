---------------------------- MODULE ReleaseCutover ----------------------------
(***************************************************************************)
(* Installing, updating and rolling back the panel on its host:            *)
(* scripts/lib/release-layout.sh as scripts/update.sh, release-install.sh  *)
(* and the xt-rollback command use it.                                     *)
(*                                                                         *)
(* Which release is active is told by three files, replaced one after the  *)
(* other: the `current` symlink, which the systemd unit starts from, the   *)
(* pointer file, and the record, which names the release to roll back to.  *)
(* Each of the replacements may fail, and what the script does then        *)
(* differs: it gives up, the installer with the candidate removed, or it   *)
(* says nothing and goes on.  A run may be interrupted between any two     *)
(* steps (a signal, a lost terminal) and the host may reboot.  The         *)
(* operator runs one script at a time.  Left out: downloading and          *)
(* verifying the artifact and the backup (they change nothing here), the   *)
(* admin account, a migration that is applied but not reported.            *)
(***************************************************************************)
EXTENDS Integers

CONSTANTS
    Releases,       \* names of release directories
    NoRelease,
    Broken,         \* releases whose server never answers the health probe
    Level,          \* migrations each release ships, as a prefix of one history
    MaxRuns,        \* bound: scripts run in a behaviour
    MaxFaults       \* bound: interruptions, reboots, failed restarts and replacements

MaxLevel == 2       \* bound: migrations in the history

ASSUME ReleaseAssumption ==
    /\ NoRelease \notin Releases /\ Broken \in SUBSET Releases
    /\ Level \in [Releases -> 0..MaxLevel]
    /\ MaxRuns \in Nat /\ MaxFaults \in Nat

VARIABLES
    dir,        \* each release directory: absent, partial or complete
    link,       \* XT_CURRENT_LINK
    pointer,    \* XT_CURRENT_POINTER
    recorded,   \* "previous" of XT_ACTIVE_MANIFEST
    schema,     \* migrations applied to the database
    serving,    \* the release the running service was started from
    pc,         \* how far the script in progress is
    run,        \* its kind, its target, PREVIOUS_ACTIVE, and whether it is restoring it
    dest,       \* the release xt_activate_release is switching to
    keep,       \* the "previous" it is going to record
    verdict,    \* exit status of the last script
    stuck,      \* history: the last restart of the last script failed
    slipped,    \* history: its last activation left the link or the pointer behind
    dropped,    \* history: how often the installer removed a release it had activated
    beenActive, \* history: the releases that were active at some time
    runs, faults \* counters of the bounds

script == <<run, dest, keep>>
history == <<stuck, slipped, dropped, beenActive, runs, faults>>
files == <<dir, link, pointer, recorded, schema, serving>>
vars == <<files, pc, script, verdict, history>>

MaybeRelease == Releases \cup {NoRelease}
Kinds == {"install", "update", "rollback", "xt-rollback"}

TypeOK ==
    /\ dir \in [Releases -> {"absent", "partial", "complete"}]
    /\ {link, pointer, recorded, serving, dest, keep} \subseteq MaybeRelease
    /\ schema \in 0..MaxLevel
    /\ pc \in {"idle", "staging", "migrating", "activating", "pointed", "linked",
               "restarting", "probing"}
    /\ run \in [kind : Kinds, target : MaybeRelease, old : MaybeRelease, restoring : BOOLEAN]
    /\ verdict \in {"none", "ok", "failed", "interrupted"}
    /\ stuck \in BOOLEAN /\ slipped \in BOOLEAN /\ beenActive \in SUBSET Releases
    /\ runs \in 0..MaxRuns /\ faults \in 0..MaxFaults /\ dropped \in 0..faults

Init ==
    /\ dir = [r \in Releases |-> "absent"]
    /\ link = NoRelease /\ pointer = NoRelease /\ recorded = NoRelease
    /\ schema = 0 /\ serving = NoRelease
    /\ pc = "idle" /\ dest = NoRelease /\ keep = NoRelease
    /\ run = [kind |-> "install", target |-> NoRelease, old |-> NoRelease,
               restoring |-> FALSE]
    /\ verdict = "none" /\ stuck = FALSE /\ slipped = FALSE /\ dropped = 0
    /\ beenActive = {} /\ runs = 0 /\ faults = 0

Present(r) == r # NoRelease /\ dir[r] # "absent"

\* xt_current_release(): the symlink if it resolves, else the pointer file.
Current ==
    IF Present(link) THEN link ELSE IF Present(pointer) THEN pointer ELSE NoRelease

-----------------------------------------------------------------------------
(* A script begins and ends *)

Begin(kind, r, at) ==
    /\ pc = "idle" /\ runs < MaxRuns
    /\ runs' = runs + 1
    /\ run' = [kind |-> kind, target |-> r, old |-> Current, restoring |-> FALSE]
    /\ stuck' = FALSE /\ slipped' = FALSE
    /\ pc' = at /\ dest' = r
    /\ UNCHANGED <<link, pointer, recorded, schema, serving, keep, verdict, dropped, beenActive, faults>>

End(status) == pc' = "idle" /\ verdict' = status

\* An update that also replaces the active release.
MutUpdate(v) ==
    /\ Begin("update", v, "staging")
    /\ dir' = [dir EXCEPT ![v] = "partial"]

\* update.sh: an existing directory of the version is replaced.
Update(v) ==
    /\ Current # v
    /\ Begin("update", v, "staging")
    /\ dir' = [dir EXCEPT ![v] = "partial"]

\* release-install.sh: an existing directory is left alone and another name is taken.
Install(v) ==
    /\ dir[v] = "absent"
    /\ Begin("install", v, "staging")
    /\ dir' = [dir EXCEPT ![v] = "partial"]

\* update.sh --rollback: to the release recorded as previous.
Rollback ==
    /\ Present(recorded)
    /\ Begin("rollback", recorded, "activating")
    /\ UNCHANGED dir

\* xt-rollback <dir>: to the directory the operator names, one that was active once.
XtRollback(r) ==
    /\ Present(r) /\ r \in beenActive
    /\ Begin("xt-rollback", r, "activating")
    /\ UNCHANGED dir

-----------------------------------------------------------------------------
(* Staging *)

Extract ==
    /\ pc = "staging"
    /\ dir' = [dir EXCEPT ![run.target] = "complete"]
    /\ pc' = "migrating"
    /\ UNCHANGED <<link, pointer, recorded, schema, serving, script, verdict, history>>

\* tar fails, or the artifact has no server: the directory is removed.
ExtractFails ==
    /\ pc = "staging"
    /\ dir' = [dir EXCEPT ![run.target] = "absent"]
    /\ End("failed")
    /\ UNCHANGED <<link, pointer, recorded, schema, serving, script, history>>

\* apply-migrations.mjs: one transaction per migration the database lacks.
Migrate ==
    /\ pc = "migrating" /\ schema < Level[run.target]
    /\ schema' = schema + 1
    /\ UNCHANGED <<dir, link, pointer, recorded, serving, pc, script, verdict, history>>

\* Activation without waiting for the applier.
MutMigrated ==
    /\ pc = "migrating"
    /\ pc' = "activating"
    /\ UNCHANGED <<files, script, verdict, history>>

Migrated ==
    /\ pc = "migrating" /\ schema >= Level[run.target]
    /\ pc' = "activating"
    /\ UNCHANGED <<files, script, verdict, history>>

\* A failing statement or a checksum mismatch: only update.sh removes the directory.
MigrationFails ==
    /\ pc = "migrating"
    /\ dir' = IF run.kind = "update" THEN [dir EXCEPT ![run.target] = "absent"] ELSE dir
    /\ End("failed")
    /\ UNCHANGED <<link, pointer, recorded, schema, serving, script, history>>

-----------------------------------------------------------------------------
(* xt_activate_release *)

\* A record that keeps what it held although that is the release activated.
MutPrevious ==
    IF Present(recorded) THEN recorded
    ELSE IF Current # dest THEN Current ELSE NoRelease

\* The release to record as previous: the one recorded, while it is usable.
Previous ==
    IF Present(recorded) /\ recorded # dest THEN recorded
    ELSE IF Current # dest THEN Current ELSE NoRelease

Fault == faults < MaxFaults /\ faults' = faults + 1

Point ==
    /\ pc = "activating" /\ Present(dest)
    /\ keep' = Previous
    /\ pointer' = dest
    /\ pc' = "pointed" /\ slipped' = FALSE
    /\ UNCHANGED <<dir, link, recorded, schema, serving, run, dest, verdict>>
    /\ UNCHANGED <<stuck, dropped, beenActive, runs, faults>>

Link ==
    /\ pc = "pointed"
    /\ link' = dest /\ beenActive' = beenActive \cup {dest}
    /\ pc' = "linked"
    /\ UNCHANGED <<dir, pointer, recorded, schema, serving, script, verdict>>
    /\ UNCHANGED <<stuck, slipped, dropped, runs, faults>>

\* The link stays as it is, and the activation goes on.
LinkFails ==
    /\ pc = "pointed" /\ Fault
    /\ pc' = "linked" /\ slipped' = TRUE
    /\ UNCHANGED <<files, script, verdict, stuck, dropped, beenActive, runs>>

\* xt_write_active_manifest() replaces the record, and the pointer once more.
Record ==
    /\ pc = "linked"
    /\ recorded' = keep /\ pointer' = dest
    /\ pc' = "restarting"
    /\ UNCHANGED <<dir, link, schema, serving, script, verdict, history>>

\* An activation that fails ends the script; the installer removes the candidate,
\* whatever names it by then.  A restore takes no notice.
GivesUp ==
    IF run.restoring
    THEN pc' = "restarting" /\ UNCHANGED <<dir, verdict, dropped>>
    ELSE /\ End("failed")
         /\ IF run.kind = "install"
            THEN /\ dir' = [dir EXCEPT ![dest] = "absent"]
                 /\ dropped' = IF pc = "linked" THEN dropped + 1 ELSE dropped
            ELSE UNCHANGED <<dir, dropped>>

\* The release is missing, or the pointer cannot be replaced.
PointFails ==
    /\ pc = "activating"
    /\ IF Present(dest) THEN Fault ELSE UNCHANGED faults
    /\ GivesUp /\ slipped' = TRUE
    /\ UNCHANGED <<link, pointer, recorded, schema, serving, script, stuck, beenActive, runs>>

\* The record cannot be replaced, or the pointer after it.
RecordFails ==
    /\ pc = "linked" /\ Fault
    /\ recorded' \in {recorded, keep}
    /\ GivesUp
    /\ UNCHANGED <<link, pointer, schema, serving, script, stuck, slipped, beenActive, runs>>

-----------------------------------------------------------------------------
(* Restart and probe *)

\* A restore is not probed; it ends the script with an error.
Restarted == IF run.restoring THEN End("failed") ELSE pc' = "probing" /\ UNCHANGED verdict

\* A restore that leaves the restart to the operator.
MutRestart ==
    /\ pc = "restarting"
    /\ serving' = IF run.restoring THEN serving ELSE link
    /\ stuck' = FALSE
    /\ Restarted
    /\ UNCHANGED <<dir, link, pointer, recorded, schema, script>>
    /\ UNCHANGED <<slipped, dropped, beenActive, runs, faults>>

Restart ==
    /\ pc = "restarting"
    /\ serving' = link /\ stuck' = FALSE
    /\ Restarted
    /\ UNCHANGED <<dir, link, pointer, recorded, schema, script>>
    /\ UNCHANGED <<slipped, dropped, beenActive, runs, faults>>

\* systemctl fails and the old process runs on: only xt-rollback gives up.
RestartFails ==
    /\ pc = "restarting" /\ Fault
    /\ stuck' = TRUE
    /\ IF run.kind = "xt-rollback" THEN End("failed") ELSE Restarted
    /\ UNCHANGED <<files, script, slipped, dropped, beenActive, runs>>

Answers == serving # NoRelease /\ dir[serving] = "complete" /\ serving \notin Broken

\* xt-rollback looks for a running service before it restarts it; without one,
\* which is so only while none answers, the shell ends the script there.
NoUnit ==
    /\ pc = "restarting" /\ run.kind = "xt-rollback" /\ ~run.restoring /\ ~Answers
    /\ End("failed")
    /\ UNCHANGED <<files, script, history>>

\* A script that takes a restart for proof that the release serves.
MutProbeOk ==
    /\ pc = "probing"
    /\ End("ok")
    /\ UNCHANGED <<files, script, history>>

ProbeOk ==
    /\ pc = "probing" /\ Answers
    /\ End("ok")
    /\ UNCHANGED <<files, script, history>>

\* No answer in time: back to PREVIOUS_ACTIVE if there is one.  Only update.sh
\* --rollback does not ask whether there is.
ProbeFails ==
    /\ pc = "probing"
    /\ IF Present(run.old) \/ run.kind = "rollback"
       THEN /\ pc' = "activating" /\ dest' = run.old
            /\ run' = [run EXCEPT !.restoring = TRUE]
            /\ UNCHANGED verdict
       ELSE End("failed") /\ UNCHANGED <<run, dest>>
    /\ UNCHANGED <<files, keep, history>>

-----------------------------------------------------------------------------
(* Faults *)

\* A signal ends the script between two steps; it leaves everything as it is.
Interrupt ==
    /\ pc # "idle" /\ Fault
    /\ End("interrupted")
    /\ UNCHANGED <<files, script, stuck, slipped, dropped, beenActive, runs>>

\* The host reboots: the unit starts what the link names.
Reboot ==
    /\ Fault
    /\ serving' = link
    /\ IF pc = "idle" THEN UNCHANGED <<pc, verdict>> ELSE End("interrupted")
    /\ UNCHANGED <<dir, link, pointer, recorded, schema, script>>
    /\ UNCHANGED <<stuck, slipped, dropped, beenActive, runs>>

Next ==
    \/ \E v \in Releases : Update(v) \/ Install(v) \/ XtRollback(v)
    \/ Rollback
    \/ Extract \/ ExtractFails \/ Migrate \/ Migrated \/ MigrationFails
    \/ Point \/ PointFails \/ Link \/ LinkFails \/ Record \/ RecordFails
    \/ Restart \/ RestartFails \/ NoUnit \/ ProbeOk \/ ProbeFails
    \/ Interrupt \/ Reboot

Spec == Init /\ [][Next]_vars

-----------------------------------------------------------------------------
(* Correctness *)

\* The files together implement one switch: however a run ends, also when it is
\* interrupted between two of the renames of xt_activate_release() or when one of
\* them fails, what xt_current_release() reads is the release that was active
\* before the run or the run's target; and nothing at all only when the installer
\* removed the candidate it had activated (update.sh:349-404,
\* release-layout.sh:271-297, 381-400, release-install.sh:727-728).
Switch == INSTANCE ReleaseSwitch WITH
    active <- IF pc = "idle" THEN Current ELSE run.old,
    trial <- IF pc = "idle" THEN NoRelease ELSE run.target

SwitchIsAtomic == Switch!Spec

\* A run that reports success has moved all there is to move, whatever runs
\* were interrupted or failed before it: the link, the pointer and the service
\* agree on the target, whose directory is whole and whose server answers.  Left
\* are a last restart that failed and a link that could not be replaced, about
\* which the scripts say nothing (release-layout.sh:287-295, update.sh:392).
SuccessIsServing ==
    pc = "idle" /\ verdict = "ok" /\ ~stuck /\ ~slipped =>
        link = run.target /\ pointer = run.target /\ serving = run.target /\ Answers

\* A run that failed its readiness check has put everything back, whichever steps
\* of the switch failed before it: the link, the pointer and the service, also if
\* the record cannot be written again.  It says so in any case; left are a restore
\* whose own pointer, link or restart failed (update.sh:394-404, 228-234,
\* release-install.sh:820-832).
FailureIsUndone ==
    pc = "idle" /\ verdict = "failed" /\ run.restoring /\ ~stuck /\ ~slipped =>
        link = run.old /\ pointer = run.old /\ serving = run.old

\* No release is ever named by the link, the pointer or the service before the
\* migrations it ships are applied, in spite of interruptions and of rollbacks.
SchemaCoversActive ==
    \A r \in {link, pointer, serving} \ {NoRelease} : schema >= Level[r]

\* After a switch from one release to another the record names a directory to
\* roll back to, and it is not the one activated (release-layout.sh:251-270).  This
\* is so as long as the installer has removed no release that the link names: a
\* later run that stages the same version makes it current by that.
RollbackPossible ==
    pc = "idle" /\ verdict = "ok" /\ dropped = 0 /\ run.old \notin {NoRelease, run.target} =>
        Present(recorded) /\ recorded # run.target

\* The record names the release that the last switch replaced, as
\* release-layout.sh:132 says.  The code violates this from the third release on.
PreviousIsWhatWasActive ==
    pc = "idle" /\ verdict = "ok" /\ run.old \notin {NoRelease, run.target} =>
        recorded = run.old
=============================================================================
