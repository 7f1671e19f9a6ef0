------------------------ MODULE ChildProcess_proofs ------------------------
(***************************************************************************)
(* Proofs about ChildProcess, for every set of callers and process ids and *)
(* every retry policy.  The inductive invariant adds to the properties     *)
(* what the code never writes down: which promise, process and counter     *)
(* goes with which.                                                        *)
(***************************************************************************)
EXTENDS ChildProcess, TLAPS

\* startOnce() is only ever suspended for the actor startInFlight names, and
\* only while there is no child.
StartsSerialized ==
    /\ \A a \in Actors : pc[a] = "mkdir" <=> startInFlight = a
    /\ startInFlight # NoOne => child = NoChild
    /\ pc[Respawner] \in {"idle", "mkdir"}

\* Every stop() under way waits for the child of this moment.
WaitersAwaitChild ==
    \A c \in Callers :
        pc[c] \in {"stopping", "restarting"} => child # NoChild /\ awaits[c] = child

\* The attempts counted bound the respawns made.
StreakCounted ==
    /\ streak <= MaxAttempts
    /\ retryAttempts <= MaxAttempts
    /\ ~exhausted => streak <= retryAttempts
    /\ timer # NoTimer => streak + 1 <= retryAttempts

IInv ==
    /\ TypeOK
    /\ StartsSerialized
    /\ WaitersAwaitChild
    /\ EveryProcessTracked
    /\ RetryOnlyWhenDown
    /\ ExhaustedIsQuiet
    /\ StreakCounted

----------------------------------------------------------------------------

\* The delay of a retry is positive.
LEMMA NextDelayPositive ==
    ASSUME TypeOK
    PROVE  NextDelay \in Nat \ {0}
  BY PolicyAssumption DEF TypeOK, NextDelay, Min2, Max2

\* The handle starts in a state of the inductive invariant.
LEMMA InitInvariant == Init => IInv
  <1> SUFFICES ASSUME Init PROVE IInv
    OBVIOUS
  <1> USE PolicyAssumption, NamesAssumption DEF Init, Actors, NoTimer, Never
  <1>1. TypeOK
    BY DEF TypeOK
  <1>2. StartsSerialized /\ WaitersAwaitChild
    BY DEF StartsSerialized, WaitersAwaitChild
  <1>3. EveryProcessTracked /\ RetryOnlyWhenDown /\ ExhaustedIsQuiet
    BY DEF EveryProcessTracked, RetryOnlyWhenDown, ExhaustedIsQuiet
  <1>4. StreakCounted
    BY DEF StreakCounted
  <1> QED
    BY <1>1, <1>2, <1>3, <1>4 DEF IInv

\* startOnce() keeps types, and never marks the handle as having given up.
LEMMA StartOnceTypes ==
    ASSUME TypeOK, NEW a \in Actors, StartOnce(a)
    PROVE  /\ timer' \in Nat \cup {NoTimer}
           /\ retryAttempts' \in Nat /\ retryDelay' \in Nat /\ streak' \in Nat
           /\ startInFlight' \in Actors \cup {NoOne}
           /\ pc' \in [Actors -> {"idle", "join", "mkdir", "stopping", "restarting"}]
           /\ manualStop' \in BOOLEAN
           /\ exhausted' \in BOOLEAN
           /\ ~exhausted => ~exhausted'
  <1> USE DEF TypeOK, StartOnce, ResetStreak
  <1>1. /\ timer' \in Nat \cup {NoTimer}
        /\ retryAttempts' \in Nat /\ retryDelay' \in Nat /\ streak' \in Nat
    OBVIOUS
  <1>2. /\ startInFlight' \in Actors \cup {NoOne}
        /\ pc' \in [Actors -> {"idle", "join", "mkdir", "stopping", "restarting"}]
    OBVIOUS
  <1>3. manualStop' \in BOOLEAN
    OBVIOUS
  <1>4. exhausted' \in BOOLEAN
    OBVIOUS
  <1>5. ~exhausted => ~exhausted'
    OBVIOUS
  <1> QED
    BY <1>1, <1>2, <1>3, <1>4, <1>5

\* The joiners of a start keep the types.
LEMMA JoinersTypes ==
    ASSUME TypeOK, JoinersResetStreak
    PROVE  /\ retryAttempts' \in Nat /\ retryDelay' \in Nat /\ streak' \in Nat
           /\ exhausted' \in BOOLEAN
  <1> USE DEF TypeOK, JoinersResetStreak, ResetStreak, retryVars
  <1>1. retryAttempts' \in Nat /\ retryDelay' \in Nat /\ streak' \in Nat
    OBVIOUS
  <1>2. exhausted' \in BOOLEAN
    OBVIOUS
  <1> QED
    BY <1>1, <1>2

\* Every step preserves the types.
LEMMA TypeStep == TypeOK /\ [Next]_vars => TypeOK'
  <1> SUFFICES ASSUME TypeOK, [Next]_vars PROVE TypeOK'
    OBVIOUS
  <1> USE PolicyAssumption DEF TypeOK, Actors, NoTimer, Never
  <1>1. ASSUME NEW c \in Callers, BeginStart(c) PROVE TypeOK'
    BY <1>1, StartOnceTypes DEF BeginStart, procVars
  <1>2. ASSUME NEW c \in Callers, StartWhileRunning(c) PROVE TypeOK'
    BY <1>2 DEF StartWhileRunning, ResetStreak, procVars
  <1>3. ASSUME NEW c \in Callers, JoinStart(c) PROVE TypeOK'
    BY <1>3 DEF JoinStart, procVars, retryVars
  <1>4. ASSUME NEW c \in Callers, StopIdle(c) PROVE TypeOK'
    BY <1>4 DEF StopIdle, StopRequest, procVars
  <1>5. ASSUME NEW c \in Callers, RestartIdle(c) PROVE TypeOK'
    <2>1. CASE startInFlight = NoOne
      BY <1>5, <2>1, StartOnceTypes DEF RestartIdle, procVars
    <2>2. CASE startInFlight # NoOne
      <3>1. manualStop' \in BOOLEAN
        BY <1>5, <2>2 DEF RestartIdle
      <3>2. exhausted' \in BOOLEAN
        BY <1>5, <2>2 DEF RestartIdle
      <3> QED
        BY <1>5, <2>2, <3>1, <3>2 DEF RestartIdle, procVars
    <2> QED
      BY <2>1, <2>2
  <1>6. ASSUME NEW c \in Callers, NEW op \in {"stopping", "restarting"}, Signal(c, op)
        PROVE  TypeOK'
    BY <1>6 DEF Signal, StopRequest
  <1>7. ASSUME NEW a \in Actors, Spawned(a) PROVE TypeOK'
    BY <1>7, JoinersTypes DEF Spawned, Settle
  <1>8. ASSUME NEW a \in Actors, SpawnErrors(a) PROVE TypeOK'
    BY <1>8, JoinersTypes DEF SpawnErrors, Settle
  <1>9. ASSUME NEW a \in Actors, StartRejects(a) PROVE TypeOK'
    BY <1>9 DEF StartRejects, Settle, procVars, retryVars
  <1>10. ASSUME NEW p \in Pids, Crash(p) PROVE TypeOK'
    <2>1. exhausted' \in BOOLEAN
      BY <1>10 DEF Crash, ScheduleRetry, ArmRetry, GiveUp
    <2>2. /\ timer' \in Nat \cup {NoTimer} /\ retryAttempts' \in Nat
          /\ retryDelay' \in Nat /\ streak' \in Nat
      BY <1>10, NextDelayPositive DEF Crash, ScheduleRetry, ArmRetry, GiveUp, Attempts
    <2> QED
      BY <1>10, <2>1, <2>2 DEF Crash, Reap, ScheduleRetry, Waiting
  <1>11. ASSUME NEW p \in Pids, ExitStopped(p) PROVE TypeOK'
    BY <1>11 DEF ExitStopped, Reap, Waiting, retryVars
  <1>12. ASSUME NEW p \in Pids, ExitRestart(p) PROVE TypeOK'
    BY <1>12 DEF ExitRestart, Reap, Waiting, ResetStreak
  <1>13. CASE FireTimer
    BY <1>13, StartOnceTypes DEF FireTimer, procVars, retryVars
  <1>14. CASE Tick
    BY <1>14 DEF Tick, procVars, retryVars, callVars
  <1>15. CASE UNCHANGED vars
    BY <1>15 DEF vars, procVars, retryVars, callVars
  <1> QED
    BY <1>1, <1>2, <1>3, <1>4, <1>5, <1>6, <1>7, <1>8, <1>9, <1>10, <1>11,
       <1>12, <1>13, <1>14, <1>15 DEF Next

\* Every step of every actor preserves the inductive invariant.
LEMMA StepInvariant == IInv /\ [Next]_vars => IInv'
  <1> DEFINE Rest == /\ StartsSerialized /\ WaitersAwaitChild
                     /\ EveryProcessTracked /\ RetryOnlyWhenDown
                     /\ ExhaustedIsQuiet /\ StreakCounted
  <1> SUFFICES ASSUME TypeOK, Rest, [Next]_vars PROVE Rest'
    BY TypeStep DEF IInv
  <1> USE PolicyAssumption, NamesAssumption
      DEF TypeOK, StartsSerialized, WaitersAwaitChild, EveryProcessTracked,
          RetryOnlyWhenDown, ExhaustedIsQuiet, StreakCounted, Actors,
          NoTimer
  <1>1. ASSUME NEW c \in Callers, BeginStart(c) PROVE Rest'
    <2>1. StartsSerialized' /\ WaitersAwaitChild'
      BY <1>1 DEF BeginStart, StartOnce, ResetStreak, procVars
    <2>2. EveryProcessTracked' /\ RetryOnlyWhenDown'
      BY <1>1 DEF BeginStart, StartOnce, ResetStreak, procVars
    <2>3. ExhaustedIsQuiet'
      BY <1>1 DEF BeginStart, StartOnce, ResetStreak, procVars
    <2>4. StreakCounted'
      BY <1>1 DEF BeginStart, StartOnce, ResetStreak, procVars
    <2> QED
      BY <2>1, <2>2, <2>3, <2>4
  <1>2. ASSUME NEW c \in Callers, StartWhileRunning(c) PROVE Rest'
    <2>1. StartsSerialized' /\ WaitersAwaitChild'
      BY <1>2 DEF StartWhileRunning, ResetStreak, procVars
    <2>2. EveryProcessTracked' /\ RetryOnlyWhenDown'
      BY <1>2 DEF StartWhileRunning, ResetStreak, procVars
    <2>3. ExhaustedIsQuiet'
      BY <1>2 DEF StartWhileRunning, ResetStreak, procVars
    <2>4. StreakCounted'
      BY <1>2 DEF StartWhileRunning, ResetStreak, procVars
    <2> QED
      BY <2>1, <2>2, <2>3, <2>4
  <1>3. ASSUME NEW c \in Callers, JoinStart(c) PROVE Rest'
    BY <1>3 DEF JoinStart, procVars, retryVars
  <1>4. ASSUME NEW c \in Callers, StopIdle(c) PROVE Rest'
    BY <1>4 DEF StopIdle, StopRequest, procVars
  <1>5. ASSUME NEW c \in Callers, RestartIdle(c) PROVE Rest'
    <2>1. StartsSerialized' /\ WaitersAwaitChild'
      BY <1>5 DEF RestartIdle, StartOnce, ResetStreak, procVars
    <2>2. EveryProcessTracked' /\ RetryOnlyWhenDown'
      BY <1>5 DEF RestartIdle, StartOnce, ResetStreak, procVars
    <2>3. ExhaustedIsQuiet'
      BY <1>5 DEF RestartIdle, StartOnce, ResetStreak, procVars
    <2>4. StreakCounted'
      BY <1>5 DEF RestartIdle, StartOnce, ResetStreak, procVars
    <2> QED
      BY <2>1, <2>2, <2>3, <2>4
  <1>6. ASSUME NEW c \in Callers, NEW op \in {"stopping", "restarting"}, Signal(c, op)
        PROVE  Rest'
    BY <1>6 DEF Signal, StopRequest
  <1>7. ASSUME NEW a \in Actors, Spawned(a) PROVE Rest'
    <2>1. StartsSerialized' /\ WaitersAwaitChild'
      BY <1>7 DEF Spawned, Settle, JoinersResetStreak, ResetStreak, retryVars
    <2>2. EveryProcessTracked' /\ RetryOnlyWhenDown'
      BY <1>7 DEF Spawned, Settle, JoinersResetStreak, ResetStreak, retryVars
    <2>3. ExhaustedIsQuiet'
      BY <1>7 DEF Spawned, Settle, JoinersResetStreak, ResetStreak, retryVars
    <2>4. StreakCounted'
      BY <1>7 DEF Spawned, Settle, JoinersResetStreak, ResetStreak, retryVars
    <2> QED
      BY <2>1, <2>2, <2>3, <2>4
  <1>8. ASSUME NEW a \in Actors, SpawnErrors(a) PROVE Rest'
    <2>1. StartsSerialized' /\ WaitersAwaitChild'
      BY <1>8 DEF SpawnErrors, Settle, JoinersResetStreak, ResetStreak, retryVars
    <2>2. EveryProcessTracked' /\ RetryOnlyWhenDown'
      BY <1>8 DEF SpawnErrors, Settle, JoinersResetStreak, ResetStreak, retryVars
    <2>3. ExhaustedIsQuiet'
      BY <1>8 DEF SpawnErrors, Settle, JoinersResetStreak, ResetStreak, retryVars
    <2>4. StreakCounted'
      BY <1>8 DEF SpawnErrors, Settle, JoinersResetStreak, ResetStreak, retryVars
    <2> QED
      BY <2>1, <2>2, <2>3, <2>4
  <1>9. ASSUME NEW a \in Actors, StartRejects(a) PROVE Rest'
    BY <1>9 DEF StartRejects, Settle, procVars, retryVars
  <1>10. ASSUME NEW p \in Pids, Crash(p) PROVE Rest'
    <2>1. StartsSerialized' /\ WaitersAwaitChild'
      BY <1>10, NextDelayPositive DEF Crash, Reap, ScheduleRetry, ArmRetry, GiveUp, Attempts, Waiting
    <2>2. EveryProcessTracked' /\ RetryOnlyWhenDown'
      BY <1>10, NextDelayPositive DEF Crash, Reap, ScheduleRetry, ArmRetry, GiveUp, Attempts, Waiting
    <2>3. ExhaustedIsQuiet'
      BY <1>10, NextDelayPositive DEF Crash, Reap, ScheduleRetry, ArmRetry, GiveUp, Attempts, Waiting
    <2>4. StreakCounted'
      BY <1>10, NextDelayPositive DEF Crash, Reap, ScheduleRetry, ArmRetry, GiveUp, Attempts, Waiting
    <2> QED
      BY <2>1, <2>2, <2>3, <2>4
  <1>11. ASSUME NEW p \in Pids, ExitStopped(p) PROVE Rest'
    BY <1>11 DEF ExitStopped, Reap, Waiting, retryVars
  <1>12. ASSUME NEW p \in Pids, ExitRestart(p) PROVE Rest'
    <2>1. StartsSerialized' /\ WaitersAwaitChild'
      BY <1>12 DEF ExitRestart, Reap, Waiting, ResetStreak
    <2>2. EveryProcessTracked' /\ RetryOnlyWhenDown'
      BY <1>12 DEF ExitRestart, Reap, Waiting, ResetStreak
    <2>3. ExhaustedIsQuiet'
      BY <1>12 DEF ExitRestart, Reap, Waiting, ResetStreak
    <2>4. StreakCounted'
      BY <1>12 DEF ExitRestart, Reap, Waiting, ResetStreak
    <2> QED
      BY <2>1, <2>2, <2>3, <2>4
  <1>13. CASE FireTimer
    <2>1. StartsSerialized' /\ WaitersAwaitChild'
      BY <1>13 DEF FireTimer, StartOnce, ResetStreak, procVars, retryVars
    <2>2. EveryProcessTracked' /\ RetryOnlyWhenDown'
      BY <1>13 DEF FireTimer, StartOnce, ResetStreak, procVars, retryVars
    <2>3. ExhaustedIsQuiet'
      <3>1. ~exhausted
        BY <1>13 DEF FireTimer
      <3>2. ~exhausted'
        BY <1>13, <3>1, StartOnceTypes DEF FireTimer, retryVars
      <3> QED
        BY <3>2
    <2>4. StreakCounted'
      BY <1>13 DEF FireTimer, StartOnce, ResetStreak, procVars, retryVars
    <2> QED
      BY <2>1, <2>2, <2>3, <2>4
  <1>14. CASE Tick
    BY <1>14 DEF Tick, procVars, retryVars, callVars
  <1>15. CASE UNCHANGED vars
    BY <1>15 DEF vars, procVars, retryVars, callVars
  <1> QED
    BY <1>1, <1>2, <1>3, <1>4, <1>5, <1>6, <1>7, <1>8, <1>9, <1>10, <1>11,
       <1>12, <1>13, <1>14, <1>15 DEF Next

\* The inductive invariant holds in every reachable state, for any number of
\* concurrent callers of start, stop, restart and dispose.
THEOREM Invariance == Spec => []IInv
  BY InitInvariant, StepInvariant, PTL DEF Spec

\* Every reachable state of the handle is of its type, whatever its callers,
\* the process ids and the policy.
THEOREM TypeCorrect == Spec => []TypeOK
  BY Invariance, PTL DEF IInv

\* However starts, stops and respawns interleave, the operating system runs no
\* process of this handle other than the child it tracks: no double spawn.
THEOREM NoDoubleSpawn == Spec => []EveryProcessTracked
  BY Invariance, PTL DEF IInv

\* A pending retry never coexists with a child, a start in flight, a stop
\* request or a give-up.
THEOREM RetrySafe == Spec => []RetryOnlyWhenDown
  BY Invariance, PTL DEF IInv

\* Respawns without a fresh intent or a healthy gap never exceed the ceiling.
THEOREM AttemptsBounded == Spec => []CeilingHonoured
  <1>1. IInv => CeilingHonoured
    BY DEF IInv, StreakCounted, CeilingHonoured
  <1> QED
    BY <1>1, Invariance, PTL

\* A handle that gave up has no process, retry or start left.
THEOREM GiveUpFinal == Spec => []ExhaustedIsQuiet
  BY Invariance, PTL DEF IInv
============================================================================
