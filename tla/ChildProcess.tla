---------------------------- MODULE ChildProcess ----------------------------
(***************************************************************************)
(* ChildProcessHandle of packages/tunnel-core/src/process.ts: one tunnel   *)
(* role run as a child of the panel, respawned with exponential backoff.   *)
(*                                                                         *)
(* The handle is shared: API requests (Callers) call start, stop, restart  *)
(* and dispose on it while the retry timer and the exit of the operating   *)
(* system process run their own callbacks.  An action is what runs between *)
(* two returns to the event loop: promise continuations that follow one    *)
(* another without I/O (an exit handler and the stop() it wakes, a start   *)
(* and the callers that joined it) belong to one step.                     *)
(*                                                                         *)
(* dispose() changes the same state as stop() (it also closes the log      *)
(* stream, which is left out), so Stop stands for both.                    *)
(***************************************************************************)
EXTENDS Integers, FiniteSets

CONSTANTS
    Callers,        \* concurrent API requests using this handle
    Pids,           \* operating system process ids the kernel may hand out
    Respawner,      \* the retry timer's callback, the other source of starts
    NoOne,          \* startInFlight = null
    NoChild,        \* child = null
    BaseDelay,      \* policy.baseDelayMs
    MaxDelay,       \* policy.maxDelayMs
    MaxAttempts,    \* policy.maxAttempts
    ResetAfter      \* policy.resetAfterMs

\* clampRetryPolicy keeps every field positive; it does not order the two delays.
ASSUME PolicyAssumption ==
    /\ BaseDelay \in Nat \ {0}
    /\ MaxDelay \in Nat \ {0}
    /\ MaxAttempts \in Nat \ {0}
    /\ ResetAfter \in Nat \ {0}

ASSUME NamesAssumption ==
    /\ Respawner \notin Callers
    /\ NoOne \notin Callers \cup {Respawner}
    /\ NoChild \notin Pids

VARIABLES
    live,           \* processes the operating system is running for this handle
    killed,         \* those among them that were sent SIGTERM (SIGKILL after 8 s)
    child,          \* this.child
    manualStop,     \* this.manualStop
    timer,          \* time left on this.respawnTimer, or NoTimer
    sinceExit,      \* now - lastExitAt, or Never
    retryAttempts,  \* this.retryAttempts
    retryDelay,     \* this.retryDelay
    exhausted,      \* this.exhausted
    startInFlight,  \* the actor whose startOnce() is this.startInFlight
    pc,             \* where each actor's call is suspended
    awaits,         \* the process whose exit a stop() waits for
    \* History, for the properties only:
    intent,         \* the last explicit request: "run" or "stop"
    startFailed,    \* the last startOnce() did not leave a process behind
    streak          \* respawns since the last fresh intent or long gap

procVars == <<live, killed, child>>
callVars == <<pc, awaits, intent, startFailed>>
retryVars == <<retryAttempts, retryDelay, exhausted, streak>>
vars == <<live, killed, child, manualStop, timer, sinceExit, retryAttempts,
          retryDelay, exhausted, startInFlight, pc, awaits, intent,
          startFailed, streak>>

Actors == Callers \cup {Respawner}
NoTimer == -1
Never == -1

TypeOK ==
    /\ live \in SUBSET Pids
    /\ killed \in SUBSET Pids
    /\ child \in Pids \cup {NoChild}
    /\ manualStop \in BOOLEAN
    /\ timer \in Nat \cup {NoTimer}
    /\ sinceExit \in Nat \cup {Never}
    /\ retryAttempts \in Nat
    /\ retryDelay \in Nat
    /\ exhausted \in BOOLEAN
    /\ startInFlight \in Actors \cup {NoOne}
    /\ pc \in [Actors -> {"idle", "join", "mkdir", "stopping", "restarting"}]
    /\ awaits \in [Callers -> Pids \cup {NoChild}]
    /\ intent \in {"run", "stop"}
    /\ startFailed \in BOOLEAN
    /\ streak \in Nat

Init ==
    /\ live = {} /\ killed = {} /\ child = NoChild
    /\ manualStop = FALSE
    /\ timer = NoTimer /\ sinceExit = Never
    /\ retryAttempts = 0 /\ retryDelay = 0 /\ exhausted = FALSE
    /\ startInFlight = NoOne
    /\ pc = [a \in Actors |-> "idle"]
    /\ awaits = [c \in Callers |-> NoChild]
    /\ intent = "stop" /\ startFailed = FALSE /\ streak = 0

-----------------------------------------------------------------------------
(* Backoff *)

Min2(a, b) == IF a <= b THEN a ELSE b
Max2(a, b) == IF a >= b THEN a ELSE b

\* The delay scheduleRetry() picks.
NextDelay ==
    LET raw == IF retryDelay = 0 THEN BaseDelay ELSE Min2(retryDelay * 2, MaxDelay)
    IN  Min2(Max2(raw, BaseDelay), MaxDelay)

\* More than ResetAfter since the previous crash: the process was healthy.
LongGap == sinceExit > ResetAfter

Attempts == IF LongGap THEN 0 ELSE retryAttempts

\* resetStreak(): a fresh intent.
ResetStreak ==
    /\ retryAttempts' = 0 /\ retryDelay' = 0 /\ exhausted' = FALSE
    /\ streak' = 0

\* scheduleRetry(), below and at the ceiling of attempts.
ArmRetry ==
    /\ Attempts < MaxAttempts
    /\ retryAttempts' = Attempts + 1
    /\ retryDelay' = NextDelay
    /\ timer' = NextDelay
    /\ UNCHANGED exhausted

GiveUp ==
    /\ Attempts >= MaxAttempts
    /\ exhausted' = TRUE
    /\ retryAttempts' = 0 /\ retryDelay' = 0
    /\ timer' = NoTimer

ScheduleRetry ==
    /\ ArmRetry \/ GiveUp
    /\ sinceExit' = 0
    /\ streak' = IF LongGap THEN 0 ELSE streak

-----------------------------------------------------------------------------
(* start *)

\* A startOnce() that takes a respawn for a fresh intent.
MutStartOnce(a) ==
    /\ startInFlight' = a
    /\ pc' = [pc EXCEPT ![a] = "mkdir"]
    /\ timer' = NoTimer
    /\ manualStop' = FALSE
    /\ retryAttempts' = 0 /\ retryDelay' = 0 /\ exhausted' = FALSE
    /\ streak' = IF a = Respawner THEN streak + 1 ELSE 0

\* A respawn that begins the backoff anew and counts on.
MutRespawn(a) ==
    /\ startInFlight' = a
    /\ pc' = [pc EXCEPT ![a] = "mkdir"]
    /\ timer' = NoTimer
    /\ manualStop' = FALSE
    /\ \/ /\ a = Respawner
          /\ streak' = streak + 1 /\ retryDelay' = 0
          /\ UNCHANGED <<retryAttempts, exhausted>>
       \/ a # Respawner /\ ResetStreak

\* startOnce() up to its first await.
StartOnce(a) ==
    /\ startInFlight' = a
    /\ pc' = [pc EXCEPT ![a] = "mkdir"]
    /\ timer' = NoTimer
    /\ manualStop' = FALSE
    /\ \/ /\ a = Respawner
          /\ streak' = streak + 1
          /\ UNCHANGED <<retryAttempts, retryDelay, exhausted>>
       \/ a # Respawner /\ ResetStreak

\* start() finding no start in flight and no child.
BeginStart(c) ==
    /\ pc[c] = "idle" /\ startInFlight = NoOne /\ child = NoChild
    /\ StartOnce(c)
    /\ intent' = "run"
    /\ UNCHANGED <<procVars, sinceExit, awaits, startFailed>>

\* start() finding a child: it only clears the backoff.
StartWhileRunning(c) ==
    /\ pc[c] = "idle" /\ startInFlight = NoOne /\ child # NoChild
    /\ ResetStreak
    /\ intent' = "run"
    /\ UNCHANGED <<procVars, manualStop, timer, sinceExit, startInFlight,
                   pc, awaits, startFailed>>

\* A start() that does not wait for the one in flight.
MutJoinStart(c) ==
    /\ pc[c] = "idle" /\ startInFlight # NoOne
    /\ StartOnce(c)
    /\ intent' = "run"
    /\ UNCHANGED <<procVars, sinceExit, awaits, startFailed>>

\* start() finding a start in flight: it waits for it.
JoinStart(c) ==
    /\ pc[c] = "idle" /\ startInFlight # NoOne
    /\ pc' = [pc EXCEPT ![c] = "join"]
    /\ intent' = "run"
    /\ UNCHANGED <<procVars, manualStop, timer, sinceExit, retryVars,
                   startInFlight, awaits, startFailed>>

Joiners == {c \in Callers : pc[c] = "join"}

\* The start in flight settles: its owner and everyone who joined it return.
Settle(a) ==
    /\ startInFlight' = NoOne
    /\ pc' = [b \in Actors |-> IF b = a \/ pc[b] = "join" THEN "idle" ELSE pc[b]]

\* A joiner finds a child and, being an explicit start, clears the backoff.
JoinersResetStreak ==
    \/ Joiners = {} /\ UNCHANGED retryVars
    \/ Joiners # {} /\ ResetStreak

\* spawn() succeeds.
Spawned(a) ==
    /\ pc[a] = "mkdir"
    /\ \E p \in Pids \ live :
        /\ live' = live \cup {p}
        /\ child' = p
    /\ Settle(a)
    /\ JoinersResetStreak
    /\ startFailed' = FALSE
    /\ UNCHANGED <<killed, manualStop, timer, sinceExit, awaits, intent>>

\* spawn() returns a child that reports "error" on the next tick: start() and
\* its joiners have resolved by then, and nothing schedules a retry.
SpawnErrors(a) ==
    /\ pc[a] = "mkdir"
    /\ child' = NoChild
    /\ Settle(a)
    /\ JoinersResetStreak
    /\ startFailed' = TRUE
    /\ UNCHANGED <<live, killed, manualStop, timer, sinceExit, awaits, intent>>

\* mkdir rejects or spawn() throws: the owner and its joiners reject.
StartRejects(a) ==
    /\ pc[a] = "mkdir"
    /\ Settle(a)
    /\ startFailed' = TRUE
    /\ UNCHANGED <<procVars, manualStop, timer, sinceExit, retryVars,
                   awaits, intent>>

\* A timer that fires into nothing.
MutFireTimer ==
    /\ timer = 0
    /\ timer' = NoTimer
    /\ UNCHANGED <<procVars, manualStop, sinceExit, retryVars, startInFlight, callVars>>

\* The retry timer fires.
FireTimer ==
    /\ timer = 0
    /\ \/ /\ startInFlight = NoOne /\ child = NoChild
          /\ StartOnce(Respawner)
       \/ /\ startInFlight # NoOne \/ child # NoChild
          /\ timer' = NoTimer
          /\ UNCHANGED <<manualStop, retryVars, startInFlight, pc>>
    /\ UNCHANGED <<procVars, sinceExit, awaits, intent, startFailed>>

-----------------------------------------------------------------------------
(* stop, dispose, restart *)

\* A stop() that leaves the retry timer armed.
MutStopRequest ==
    /\ manualStop' = TRUE
    /\ UNCHANGED timer
    /\ retryAttempts' = 0 /\ retryDelay' = 0 /\ streak' = 0
    /\ UNCHANGED exhausted
    /\ intent' = "stop"

\* What stop() does before looking at the child.
StopRequest ==
    /\ manualStop' = TRUE
    /\ timer' = NoTimer
    /\ retryAttempts' = 0 /\ retryDelay' = 0 /\ streak' = 0
    /\ UNCHANGED exhausted
    /\ intent' = "stop"

\* stop() or dispose() with no child: returns at once.
StopIdle(c) ==
    /\ pc[c] = "idle" /\ child = NoChild
    /\ StopRequest
    /\ UNCHANGED <<procVars, sinceExit, startInFlight, pc, awaits, startFailed>>

\* restart() with no child: its start() follows in the same turn.
RestartIdle(c) ==
    /\ pc[c] = "idle" /\ child = NoChild
    /\ intent' = "run"
    /\ \/ startInFlight = NoOne /\ StartOnce(c)
       \/ /\ startInFlight # NoOne
          /\ pc' = [pc EXCEPT ![c] = "join"]
          /\ manualStop' = TRUE /\ timer' = NoTimer
          /\ retryAttempts' = 0 /\ retryDelay' = 0 /\ streak' = 0
          /\ UNCHANGED <<exhausted, startInFlight>>
    /\ UNCHANGED <<procVars, sinceExit, awaits, startFailed>>

\* A stop() that waits for the exit without sending the signal.
MutSignal(c, op) ==
    /\ pc[c] = "idle" /\ child # NoChild
    /\ StopRequest
    /\ pc' = [pc EXCEPT ![c] = op]
    /\ awaits' = [awaits EXCEPT ![c] = child]
    /\ UNCHANGED <<procVars, sinceExit, startInFlight, startFailed>>

\* stop() or the first half of restart() with a child: signal it and wait.
Signal(c, op) ==
    /\ pc[c] = "idle" /\ child # NoChild
    /\ StopRequest
    /\ killed' = killed \cup {child}
    /\ pc' = [pc EXCEPT ![c] = op]
    /\ awaits' = [awaits EXCEPT ![c] = child]
    /\ UNCHANGED <<live, child, sinceExit, startInFlight, startFailed>>

-----------------------------------------------------------------------------
(* exit of the process *)

Waiting(p, op) == {c \in Callers : pc[c] = op /\ awaits[c] = p}

Reap(p) ==
    /\ p \in live
    /\ live' = live \ {p} /\ killed' = killed \ {p}
    /\ child' = NoChild
    /\ awaits' = [c \in Callers |-> IF awaits[c] = p THEN NoChild ELSE awaits[c]]
    /\ UNCHANGED startFailed

\* An exit nobody asked for: the handler schedules the next attempt.
Crash(p) ==
    /\ Reap(p)
    /\ Waiting(p, "restarting") = {}
    /\ ~manualStop
    /\ ScheduleRetry
    /\ pc' = [a \in Actors |-> IF a \in Waiting(p, "stopping") THEN "idle" ELSE pc[a]]
    /\ UNCHANGED <<manualStop, startInFlight, intent>>

\* The exit a stop() asked for (or any exit once manualStop is set).
ExitStopped(p) ==
    /\ Reap(p)
    /\ Waiting(p, "restarting") = {}
    /\ manualStop
    /\ pc' = [a \in Actors |-> IF a \in Waiting(p, "stopping") THEN "idle" ELSE pc[a]]
    /\ UNCHANGED <<manualStop, timer, sinceExit, retryVars, startInFlight, intent>>

\* The exit a restart() waits for: one of the restarts begins its start() at
\* once and the others join it.
ExitRestart(p) ==
    /\ Reap(p)
    /\ manualStop
    /\ \E c \in Waiting(p, "restarting") :
        /\ startInFlight' = c
        /\ pc' = [a \in Actors |->
                    CASE a = c -> "mkdir"
                      [] a \in Waiting(p, "restarting") \ {c} -> "join"
                      [] a \in Waiting(p, "stopping") -> "idle"
                      [] OTHER -> pc[a]]
    /\ timer' = NoTimer
    /\ manualStop' = FALSE
    /\ ResetStreak
    /\ intent' = "run"
    /\ UNCHANGED sinceExit

\* A countdown that does not stop at zero.
MutTick ==
    /\ timer' = timer - 1
    /\ UNCHANGED <<procVars, manualStop, sinceExit, retryVars, startInFlight, callVars>>

\* One unit of time: the gap since the last crash saturates once it is long.
Tick ==
    /\ timer' = IF timer > 0 THEN timer - 1 ELSE timer
    /\ sinceExit' = IF sinceExit \in 0..ResetAfter THEN sinceExit + 1 ELSE sinceExit
    /\ UNCHANGED <<procVars, manualStop, retryVars, startInFlight, pc,
                   awaits, intent, startFailed>>

Exit(p) == Crash(p) \/ ExitStopped(p) \/ ExitRestart(p)
StartSettles(a) == Spawned(a) \/ SpawnErrors(a) \/ StartRejects(a)

Next ==
    \/ \E c \in Callers :
        \/ BeginStart(c) \/ StartWhileRunning(c) \/ JoinStart(c)
        \/ StopIdle(c) \/ RestartIdle(c)
        \/ Signal(c, "stopping") \/ Signal(c, "restarting")
    \/ \E a \in Actors : Spawned(a) \/ SpawnErrors(a) \/ StartRejects(a)
    \/ \E p \in Pids : Crash(p) \/ ExitStopped(p) \/ ExitRestart(p)
    \/ FireTimer
    \/ Tick

Spec == Init /\ [][Next]_vars

\* mkdir and spawn settle, timers fire, time passes, and a signalled process
\* exits: SIGKILL follows SIGTERM after 8 s.  Callers owe nothing.
Fairness ==
    /\ \A a \in Actors : WF_vars(StartSettles(a))
    /\ \A p \in Pids : WF_vars(p \in killed /\ Exit(p))
    /\ WF_vars(FireTimer)
    /\ WF_vars(Tick)

FairSpec == Spec /\ Fairness

-----------------------------------------------------------------------------
(* Properties *)

\* The single in-flight start promise prevents a double spawn: every process
\* of this handle is the one it tracks, so stop() can always reach it
\* (startSerialized, process.ts 318-350).
EveryProcessTracked == live = IF child = NoChild THEN {} ELSE {child}

\* A retry is only ever pending while the tunnel is wanted and down: a stop
\* cancels it, and no start, child or give-up coexists with it (process.ts
\* 417-422 and the guarantee "at most one pending timer").
RetryOnlyWhenDown ==
    timer # NoTimer =>
        /\ child = NoChild /\ live = {}
        /\ startInFlight = NoOne
        /\ ~manualStop /\ ~exhausted

\* A crash loop is retried ever more slowly: the wait before the respawn that
\* follows n others is the base delay doubled n times, or the longest delay, or
\* more, whatever starts, joins and exits come between; it is never 0
\* (process.ts 429, 453-469 and 366-373).
BackoffGrows ==
    [][timer = NoTimer /\ timer' # NoTimer
        => timer' >= Min2(BaseDelay * 2^streak', MaxDelay)]_vars

\* "the attempt ceiling is honoured": without a fresh intent or a long healthy
\* gap, at most MaxAttempts respawns are made, although the counter itself is
\* zeroed when the handle gives up (process.ts 430-431 and 445-451).
CeilingHonoured == streak <= MaxAttempts

\* A handle that gave up is quiet until someone asks again (445-451).
ExhaustedIsQuiet ==
    exhausted => live = {} /\ timer = NoTimer /\ startInFlight = NoOne

\* Every stop() and restart() that signalled its child comes back, however
\* the calls interleave (process.ts 472-489).
StopReturns ==
    \A c \in Callers : (pc[c] \in {"stopping", "restarting"}) ~> (pc[c] \notin {"stopping", "restarting"})

\* A handle that crashed and was not stopped is up again, gives up, or lost an
\* attempt to a failed spawn: a crash is never just forgotten (399-414, 461-469).
CrashAnswered ==
    (timer # NoTimer) ~> (live # {} \/ exhausted \/ manualStop \/ startFailed)

\* Nothing under way: no call suspended and no retry pending.
Settled == timer = NoTimer /\ \A a \in Actors : pc[a] = "idle"

\* "nothing respawns after an intentional stop" (scripts/test-retry-bounds.ts
\* 252): once the calls have returned and the last one was a stop, no process
\* runs.  Does not hold: stop() does not see a start suspended in mkdir.
StopHonoured == Settled /\ intent = "stop" => live = {}

\* "An explicit start(), however, is a deliberate start now" (process.ts
\* 323-324): once the calls have returned and the last one was a start, the
\* tunnel runs, gave up, or its spawn failed.  Does not hold: a restart() that
\* joins a start in flight leaves manualStop set, so nobody answers the exit of
\* the new process; and a start() that finds the child of a stop() in progress
\* returns without starting.
StartHonoured == Settled /\ intent = "run" => live # {} \/ exhausted \/ startFailed

\* "a successful run resets the streak, so a tunnel that has been up for hours
\* and then drops starts again from the base delay" (process.ts 432-433).
\* Does not hold: scheduleRetry() zeroes the attempts and keeps the delay.
LongRunRestartsBackoff ==
    [][LongGap /\ timer = NoTimer /\ timer' # NoTimer => timer' = BaseDelay]_vars
=============================================================================
