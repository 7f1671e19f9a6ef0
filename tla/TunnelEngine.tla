---------------------------- MODULE TunnelEngine ----------------------------
(***************************************************************************)
(* The lifecycle operations of TunnelEngine (packages/tunnel-core/src/     *)
(* engine.ts) on ONE tunnel id: deploy, start, stop, restart, remove.      *)
(* Operations on different ids share no state but caches keyed by id.      *)
(*                                                                         *)
(* A tunnel runs one process per role.  As a child of the panel            *)
(* (childMode) every deploy has processes of its own; as systemd units the *)
(* unit name holds only the tunnel id and the role, so every deploy of the *)
(* tunnel shares the units.                                                *)
(*                                                                         *)
(* Requests are the API calls in flight.  Each is suspended at its awaits; *)
(* an action is what runs up to the next one.  A process may also die by   *)
(* itself and be started again: a child by its handle's retry timer, a     *)
(* unit by systemd (Restart=on-failure, RestartSec=5).  How a handle       *)
(* counts and spaces its retries is ChildProcess's subject.  Left out:     *)
(* diagnostics and the engine's caches.                                    *)
(***************************************************************************)
EXTENDS Integers, FiniteSets

CONSTANTS
    Requests,       \* concurrent operations on the tunnel
    NRoles,         \* processes a deploy plans
    MaxDeploys,     \* bound: deploys in a behaviour
    Modes,          \* bound: the values childMode may have
    MaxFaults,      \* bound: commands that fail or hang, and as many deaths, in a behaviour
    Detached        \* owner of a teardown its request stopped waiting for

ASSUME EngineAssumption ==
    /\ NRoles \in Nat \ {0} /\ MaxDeploys \in Nat
    /\ Modes \in SUBSET BOOLEAN /\ MaxFaults \in Nat
    /\ Detached \notin Requests

VARIABLES
    childMode,  \* the node's ProcessManager spawns children, or runs units
    runtime,    \* the deploy this.runtimes tracks for the id, or Untracked
    deploys,    \* deploys begun so far
    alive,      \* processes that run, or that a respawn will start again
    waiting,    \* of these, the ones that crashed: the retry timer or RestartSec runs
    spawning,   \* children whose respawn waits in mkdir: nothing cancels it
    gone,       \* history: processes that ended for good since they were last started
    missed,     \* history: processes a stop or a disposal took for ended while a
                \* respawn was coming
    unitFile,   \* the unit file of each process: absent, disabled or enabled
    jobs,       \* handle.stop() and handle.dispose() calls in progress
    pc,         \* where each request is suspended
    mine,       \* the deploy whose handles a request works on
    done,       \* roles a request's loop has passed
    still,      \* roles stop() found running
    faults,     \* faults so far: "slow", a command that exceeds DISPOSE_TIMEOUT_MS;
                \* "lost", one that fails, when run() resolves with exit code 1;
                \* "death", a process that ended by itself
    last,       \* history: the last operation that returned successfully
    overlapped  \* history: have two operations been in progress at once: never, but
                \* only ones that kept the processes, or one that replaced them

locals == <<mine, done, still>>
history == <<last, overlapped>>
lives == <<alive, waiting, spawning, gone, missed>>
vars == <<childMode, runtime, deploys, lives, unitFile, jobs, pc, locals, faults, history>>

Untracked == 0
Roles == 1..NRoles
Deploys == 1..MaxDeploys
Procs == (0..MaxDeploys) \X Roles
Proc(d, i) == <<IF childMode THEN d ELSE 0, i>>
ProcsOf(d) == IF d = Untracked THEN {} ELSE {Proc(d, i) : i \in Roles}

Kinds == {"slow", "lost", "death"}
Ops == {"none", "deploy", "start", "stop", "restart", "remove"}
Jobs == [owner : Requests \cup {Detached}, op : {"stop", "dispose"}, proc : Procs]

TypeOK ==
    /\ childMode \in Modes
    /\ runtime \in {Untracked} \cup Deploys
    /\ deploys \in 0..MaxDeploys
    /\ alive \in SUBSET Procs /\ waiting \in SUBSET Procs /\ spawning \in SUBSET Procs
    /\ gone \in SUBSET Procs /\ missed \in SUBSET Procs
    /\ unitFile \in [Procs -> {"absent", "disabled", "enabled"}]
    /\ jobs \in SUBSET Jobs
    /\ pc \in [Requests -> {"idle", "replacing", "planning", "deploying", "rollback",
                            "starting", "probing", "stopping", "restarting", "removing"}]
    /\ mine \in [Requests -> {Untracked} \cup Deploys]
    /\ done \in [Requests -> 0..NRoles]
    /\ still \in [Requests -> SUBSET Roles]
    /\ faults \in [Kinds -> 0..MaxFaults]
    /\ last \in Ops /\ overlapped \in {"never", "kept", "replaced"}

Init ==
    /\ childMode \in Modes
    /\ runtime = Untracked /\ deploys = 0
    /\ alive = {} /\ waiting = {} /\ spawning = {} /\ gone = {} /\ missed = {}
    /\ unitFile = [p \in Procs |-> "absent"]
    /\ jobs = {}
    /\ pc = [r \in Requests |-> "idle"]
    /\ mine = [r \in Requests |-> Untracked]
    /\ done = [r \in Requests |-> 0]
    /\ still = [r \in Requests |-> {}]
    /\ faults = [k \in Kinds |-> 0]
    /\ last = "none" /\ overlapped = "never"

-----------------------------------------------------------------------------
(* Handles *)

Goto(r, label) == pc' = [pc EXCEPT ![r] = label]

\* deploy() and remove() under way: they change what the engine tracks.
Replacing == {"replacing", "planning", "deploying", "rollback", "removing"}

\* The operation begins.
Enter(r, label) ==
    /\ Goto(r, label) /\ UNCHANGED last
    /\ overlapped' =
        LET others == {pc[q] : q \in Requests \ {r}} \ {"idle"} IN
        IF others = {} THEN overlapped
        ELSE IF overlapped = "replaced" \/ label \in Replacing \/ others \cap Replacing # {}
             THEN "replaced" ELSE "kept"

\* Something goes wrong on a node that runs units; a child never fails so.
Fault(kind) ==
    /\ ~childMode /\ faults["slow"] + faults["lost"] < MaxFaults
    /\ faults' = [faults EXCEPT ![kind] = @ + 1]

\* The operation returns (with an error if op is "none"); its locals are gone.
Return(r, op) ==
    /\ Goto(r, "idle") /\ last' = op /\ UNCHANGED overlapped
    /\ mine' = [mine EXCEPT ![r] = Untracked]
    /\ done' = [done EXCEPT ![r] = 0]
    /\ still' = [still EXCEPT ![r] = {}]

\* The process is there: a child that is not null, a unit that is active.
Runs(p) == p \in alive \ (waiting \cup spawning)

\* The process runs now, whatever it did before.
Begins(p) ==
    /\ alive' = alive \cup {p}
    /\ waiting' = waiting \ {p} /\ spawning' = spawning \ {p}
    /\ gone' = gone \ {p} /\ missed' = missed \ {p}

\* The process neither runs nor will be started again.
Ends(p) ==
    /\ alive' = alive \ {p}
    /\ waiting' = waiting \ {p} /\ spawning' = spawning \ {p}
    /\ missed' = missed \ {p} /\ UNCHANGED gone

JobsOf(r) == {j \in jobs : j.owner = r}
Doomed(p) == \E j \in jobs : j.proc = p
Teardown(r, op, procs) == {[owner |-> r, op |-> op, proc |-> p] : p \in procs}

\* stop() or dispose() of these handles is called.  A child that is not there has
\* its retry timer cleared and the call returns; a respawn in mkdir goes on.  The
\* caller passed the processes of "passed" over, although they will run again.
CallTeardown(r, op, procs, passed) ==
    /\ IF childMode
       THEN /\ jobs' = jobs \cup Teardown(r, op, {p \in procs : Runs(p)})
            /\ alive' = alive \ (waiting \cap procs)
            /\ waiting' = waiting \ procs
            /\ missed' = missed \cup passed \cup (spawning \cap procs)
       ELSE /\ jobs' = jobs \cup Teardown(r, op, procs)
            /\ missed' = missed \cup passed
            /\ UNCHANGED <<alive, waiting>>
    /\ UNCHANGED <<spawning, gone>>

\* handle.start(): writes and enables the unit, then starts the process.  A child's
\* start() joins the respawn in progress, or cancels the one that is timed.
StartProc(p) ==
    /\ Begins(p)
    /\ unitFile' = IF childMode THEN unitFile ELSE [unitFile EXCEPT ![p] = "enabled"]

\* handle.start() throws: at the unit file, at enable, or at start, when the
\* unit stays enabled; it runs if only the reply of systemctl start was lost.
\* A child's start() throws where it would spawn, and its respawn is over.
StartProcFails(p) ==
    \/ /\ childMode /\ ~Runs(p)
       /\ Ends(p)
       /\ UNCHANGED <<unitFile, faults>>
    \/ /\ ~childMode
       /\ \E f \in {unitFile[p], "disabled", "enabled"} : unitFile' = [unitFile EXCEPT ![p] = f]
       /\ UNCHANGED <<lives, faults>>
    \/ /\ Fault("lost")
       /\ Begins(p)
       /\ unitFile' = [unitFile EXCEPT ![p] = "enabled"]

\* handle.restart(): a child is stopped, which awaits its exit, and spawned again;
\* systemctl needs the unit.
RestartProc(p) ==
    /\ \/ Begins(p) /\ UNCHANGED faults
       \/ Fault("lost") /\ UNCHANGED lives
    /\ IF childMode THEN ~Doomed(p) ELSE unitFile[p] # "absent"

\* The exit of a child answers every call that awaits it.
Answered(j) == IF childMode THEN {k \in jobs : k.proc = j.proc} ELSE {j}

\* A dispose() that only stops: the unit file survives.
MutTeardownDone(j) ==
    /\ j \in jobs
    /\ jobs' = jobs \ Answered(j)
    /\ Ends(j.proc)
    /\ unitFile' = [unitFile EXCEPT ![j.proc] = IF @ = "absent" THEN @ ELSE "disabled"]
    /\ UNCHANGED <<childMode, runtime, deploys, pc, locals, faults, history>>

\* stop() disables the unit, dispose() removes it.
TeardownDone(j) ==
    /\ j \in jobs
    /\ jobs' = jobs \ Answered(j)
    /\ Ends(j.proc)
    /\ unitFile' = [unitFile EXCEPT ![j.proc] =
                        IF @ = "absent" \/ j.op = "dispose" THEN "absent" ELSE "disabled"]
    /\ UNCHANGED <<childMode, runtime, deploys, pc, locals, faults, history>>

\* The commands failed: the handle does not look at their exit codes.
TeardownLost(j) ==
    /\ j \in jobs /\ Fault("lost")
    /\ jobs' = jobs \ {j}
    /\ UNCHANGED <<childMode, runtime, deploys, lives, unitFile, pc, locals, history>>

\* withTimeout(): the request goes on with an error, the teardown goes on too.
TeardownTimesOut(r) ==
    /\ Fault("slow")
    /\ pc[r] \in {"rollback", "stopping", "removing"} /\ JobsOf(r) # {}
    /\ jobs' = (jobs \ JobsOf(r)) \cup {[j EXCEPT !.owner = Detached] : j \in JobsOf(r)}
    /\ Return(r, "none")
    /\ UNCHANGED <<childMode, runtime, deploys, lives, unitFile>>

-----------------------------------------------------------------------------
(* A process by itself *)

\* A process ends by itself: a respawn is timed, or it stays down (a clean exit of
\* a unit, the attempts are used up, stop() had been called on the handle).  The
\* exit of a child that is being torn down is TeardownDone.
Dies(p) ==
    /\ Runs(p) /\ ~(childMode /\ Doomed(p))
    /\ faults["death"] < MaxFaults
    /\ faults' = [faults EXCEPT !["death"] = @ + 1]
    /\ \/ waiting' = waiting \cup {p} /\ UNCHANGED <<alive, spawning, gone, missed>>
       \/ /\ alive' = alive \ {p} /\ gone' = gone \cup {p} /\ missed' = missed \ {p}
          /\ UNCHANGED <<waiting, spawning>>
    /\ UNCHANGED <<childMode, runtime, deploys, unitFile, jobs, pc, locals, history>>

\* The retry timer fires: startOnce() waits for mkdir.
TimerFires(p) ==
    /\ childMode /\ p \in waiting
    /\ waiting' = waiting \ {p} /\ spawning' = spawning \cup {p}
    /\ UNCHANGED <<childMode, runtime, deploys, alive, gone, missed, unitFile, jobs, pc, locals,
                   faults, history>>

\* The respawn itself: of a child after mkdir, of a unit after RestartSec.
Respawns(p) ==
    /\ p \in IF childMode THEN spawning ELSE waiting
    /\ waiting' = waiting \ {p} /\ spawning' = spawning \ {p}
    /\ UNCHANGED <<childMode, runtime, deploys, alive, gone, missed, unitFile, jobs, pc, locals,
                   faults, history>>

\* mkdir or spawn fails: nobody schedules another retry.
RespawnFails(p) ==
    /\ childMode /\ p \in spawning
    /\ alive' = alive \ {p} /\ spawning' = spawning \ {p}
    /\ gone' = gone \cup {p} /\ missed' = missed \ {p}
    /\ UNCHANGED <<childMode, runtime, deploys, waiting, unitFile, jobs, pc, locals, faults, history>>

-----------------------------------------------------------------------------
(* deploy *)

\* deploy() begins: the predecessor is disposed, without a timeout.
Deploy(r) ==
    /\ pc[r] = "idle" /\ deploys < MaxDeploys
    /\ deploys' = deploys + 1
    /\ mine' = [mine EXCEPT ![r] = deploys + 1]
    /\ Enter(r, IF runtime = Untracked THEN "planning" ELSE "replacing")
    /\ CallTeardown(r, "dispose", ProcsOf(runtime), {})
    /\ UNCHANGED <<childMode, runtime, unitFile, done, still, faults>>

\* A deploy that does not await the disposal of its predecessor.
MutReplaced(r) ==
    /\ pc[r] = "replacing"
    /\ runtime' = Untracked
    /\ Goto(r, "planning")
    /\ UNCHANGED <<childMode, deploys, lives, unitFile, jobs, locals, faults, history>>

Replaced(r) ==
    /\ pc[r] = "replacing" /\ JobsOf(r) = {}
    /\ runtime' = Untracked
    /\ Goto(r, "planning")
    /\ UNCHANGED <<childMode, deploys, lives, unitFile, jobs, locals, faults, history>>

\* buildPlan, ensureBinaries, writeFile and createHandle; any may throw.
Planned(r) ==
    /\ pc[r] = "planning"
    /\ Goto(r, "deploying")
    /\ UNCHANGED <<childMode, runtime, deploys, lives, unitFile, jobs, locals, faults, history>>

PlanFails(r) ==
    /\ pc[r] = "planning"
    /\ Return(r, "none")
    /\ UNCHANGED <<childMode, runtime, deploys, lives, unitFile, jobs, faults>>

\* A loop that runs past the last handle.
MutPass(r, op) ==
    IF done[r] = NRoles
    THEN Return(r, op)
    ELSE done' = [done EXCEPT ![r] = @ + 1] /\ UNCHANGED <<pc, history, mine, still>>

\* One handle of a loop is done; after the last one the operation returns.
Pass(r, op) ==
    IF done[r] + 1 = NRoles
    THEN Return(r, op)
    ELSE done' = [done EXCEPT ![r] = @ + 1] /\ UNCHANGED <<pc, history, mine, still>>

\* runtimes.set() follows the start of the last process.
Recorded(r) == IF done[r] + 1 = NRoles THEN mine[r] ELSE runtime

DeployStarts(r) ==
    /\ pc[r] = "deploying"
    /\ StartProc(Proc(mine[r], done[r] + 1))
    /\ runtime' = Recorded(r)
    /\ Pass(r, "deploy")
    /\ UNCHANGED <<childMode, deploys, jobs, faults>>

\* The rollback forgets the processes already started.
MutRollback(r) == {}

\* The rollback disposes the handles that did start, not the one that failed.
Rollback(r) == {Proc(mine[r], i) : i \in 1..done[r]}

\* A child whose first start() throws never was.
DeployStartFails(r) ==
    /\ pc[r] = "deploying"
    /\ IF childMode
       THEN CallTeardown(r, "dispose", Rollback(r), {}) /\ UNCHANGED <<unitFile, faults>>
       ELSE /\ StartProcFails(Proc(mine[r], done[r] + 1))
            /\ jobs' = jobs \cup Teardown(r, "dispose", Rollback(r))
    /\ Goto(r, "rollback")
    /\ UNCHANGED <<childMode, runtime, deploys, locals, history>>

RolledBack(r) ==
    /\ pc[r] = "rollback" /\ JobsOf(r) = {}
    /\ runtime' = Untracked
    /\ Return(r, "none")
    /\ UNCHANGED <<childMode, deploys, lives, unitFile, jobs, faults>>

-----------------------------------------------------------------------------
(* start, stop, restart, remove *)

\* The operation captures the runtime of this moment.
Begin(r, label) ==
    /\ pc[r] = "idle" /\ runtime # Untracked
    /\ mine' = [mine EXCEPT ![r] = runtime]
    /\ Enter(r, label)
    /\ UNCHANGED <<childMode, runtime, deploys, unitFile, done, still, faults>>

Start(r) == Begin(r, "starting") /\ UNCHANGED <<jobs, lives>>
Stop(r) == Begin(r, "probing") /\ UNCHANGED <<jobs, lives>>
Restart(r) == Begin(r, "restarting") /\ UNCHANGED <<jobs, lives>>
Remove(r) == Begin(r, "removing") /\ CallTeardown(r, "dispose", ProcsOf(runtime), {})

\* start(), stop(), restart() or remove() of an id the engine does not track.
Ignored(r) == pc[r] = "idle" /\ runtime = Untracked /\ UNCHANGED vars

StartStarts(r) ==
    /\ pc[r] = "starting"
    /\ StartProc(Proc(mine[r], done[r] + 1))
    /\ Pass(r, "start")
    /\ UNCHANGED <<childMode, runtime, deploys, jobs, faults>>

StartFails(r) ==
    /\ pc[r] = "starting"
    /\ StartProcFails(Proc(mine[r], done[r] + 1))
    /\ Return(r, "none")
    /\ UNCHANGED <<childMode, runtime, deploys, jobs>>

RestartRestarts(r) ==
    /\ pc[r] = "restarting"
    /\ RestartProc(Proc(mine[r], done[r] + 1))
    /\ Pass(r, "restart")
    /\ UNCHANGED <<childMode, runtime, deploys, unitFile, jobs>>

\* A child that was stopped and whose start() throws.
RestartThrows(r) ==
    /\ pc[r] = "restarting"
    /\ LET p == Proc(mine[r], done[r] + 1) IN childMode /\ ~Doomed(p) /\ Ends(p)
    /\ Return(r, "none")
    /\ UNCHANGED <<childMode, runtime, deploys, unitFile, jobs, faults>>

\* systemctl restart of a unit whose file is gone fails; its exit code is ignored.
RestartNoUnit(r) ==
    /\ pc[r] = "restarting" /\ ~childMode
    /\ unitFile[Proc(mine[r], done[r] + 1)] = "absent"
    /\ Pass(r, "restart")
    /\ UNCHANGED <<childMode, runtime, deploys, lives, unitFile, jobs, faults>>

\* A probe that takes every process for stopped.
MutProbed(p, running) == ~running /\ UNCHANGED faults

\* isRunning() answers: a command that fails reads as "not active", one that
\* times out as running.
Probed(p, running) ==
    \/ running = Runs(p) /\ UNCHANGED faults
    \/ Runs(p) /\ ~running /\ Fault("lost")
    \/ ~Runs(p) /\ running /\ Fault("slow")

\* stop() probes one process after the other, then stops those it found running.
\* One that waits for its respawn is not running: it is passed over.
Probe(r) ==
    LET k == done[r] + 1
        p == Proc(mine[r], k) IN
    /\ pc[r] = "probing"
    /\ \E running \in BOOLEAN :
        LET found == still[r] \cup (IF running THEN {k} ELSE {})
            passed == (IF running THEN {} ELSE {p}) \cap (waiting \cup spawning) IN
        /\ Probed(p, running)
        /\ still' = [still EXCEPT ![r] = found]
        /\ IF k = NRoles
           THEN /\ Goto(r, "stopping")
                /\ CallTeardown(r, "stop", {Proc(mine[r], i) : i \in found}, passed)
           ELSE missed' = missed \cup passed /\ UNCHANGED <<pc, jobs, alive, waiting, spawning, gone>>
    /\ done' = [done EXCEPT ![r] = k]
    /\ UNCHANGED <<childMode, runtime, deploys, unitFile, mine, history>>

\* The runtime stays tracked: the tunnel can be started again.
Stopped(r) ==
    /\ pc[r] = "stopping" /\ JobsOf(r) = {}
    /\ Return(r, "stop")
    /\ UNCHANGED <<childMode, runtime, deploys, lives, unitFile, jobs, faults>>

Removed(r) ==
    /\ pc[r] = "removing" /\ JobsOf(r) = {}
    /\ runtime' = Untracked
    /\ Return(r, "remove")
    /\ UNCHANGED <<childMode, deploys, lives, unitFile, jobs, faults>>

-----------------------------------------------------------------------------

Advance(r) ==
    \/ Replaced(r) \/ Planned(r) \/ PlanFails(r) \/ DeployStarts(r) \/ DeployStartFails(r)
    \/ RolledBack(r) \/ StartStarts(r) \/ StartFails(r) \/ RestartRestarts(r)
    \/ RestartThrows(r) \/ RestartNoUnit(r) \/ Probe(r) \/ Stopped(r) \/ Removed(r) \/ TeardownTimesOut(r)

Next ==
    \/ \E r \in Requests : Deploy(r) \/ Start(r) \/ Stop(r) \/ Restart(r) \/ Remove(r)
    \/ \E r \in Requests : Ignored(r) \/ Advance(r)
    \/ \E j \in jobs : TeardownDone(j) \/ TeardownLost(j)
    \/ \E p \in Procs : Dies(p) \/ TimerFires(p) \/ Respawns(p) \/ RespawnFails(p)

Spec == Init /\ [][Next]_vars

-----------------------------------------------------------------------------
(* Properties *)

Settled == jobs = {} /\ \A r \in Requests : pc[r] = "idle"
Never(kind) == faults[kind] = 0

\* "no process started before the failure is left running (no orphan)"
\* (scripts/test-tunnel-lifecycle.ts 289): once the operations have returned,
\* what runs or will run again is what the engine tracks, whatever crashes and
\* respawns there were, but for the process whose respawn a removal or redeploy
\* met between the timer and the spawn (process.ts 375-383, 505-511).  Starts,
\* stops and restarts may overlap and teardowns be slow; it needs deploys and
\* removals that take turns, and commands that arrive.
NoOrphan ==
    Settled /\ overlapped # "replaced" /\ Never("lost") => alive \subseteq ProcsOf(runtime) \cup missed

\* A deploy() or start() that returned left every process of the tunnel
\* running (engine.ts 436-458, 498-503), or crashed since and coming back, or
\* ended for good since.  It needs teardowns that finish in time: one abandoned
\* by an earlier stop() still stops the new process.
DeployedRuns ==
    Settled /\ overlapped = "never" /\ Never("slow") /\ last \in {"deploy", "start"} =>
        ProcsOf(runtime) \subseteq alive \cup gone

\* After a stop() that returned nothing of the tunnel runs or will run again
\* (engine.ts 505-539), but what stop() met between a crash and its respawn.  It
\* needs a node that answers: a probe that fails counts as "not running",
\* although "if the evidence is unavailable, assume it is running" (529).
StopStops ==
    Settled /\ overlapped = "never" /\ Never("lost") /\ last = "stop" => alive \subseteq missed

\* "deleted tunnels stay deleted across reboots" (process.ts 239): remove()
\* leaves no unit file of the tunnel, whatever happened before it, overlapping
\* starts and stops and slow teardowns included.
RemoveForgets ==
    Settled /\ overlapped # "replaced" /\ Never("lost") /\ last = "remove" =>
        \A p \in Procs : unitFile[p] = "absent"

\* Design 5.2: a failed deploy disposes all handles the attempt created, so an
\* untracked tunnel has no enabled unit.  Does not hold: the handle whose start
\* failed is not among those disposed.
UntrackedNotEnabled ==
    Settled /\ runtime = Untracked => \A p \in Procs : unitFile[p] # "enabled"

\* A removed tunnel has no process left.  Does not hold: dispose() does not
\* cancel a respawn that waits in mkdir, and startOnce() does not look again.
RemovedEnds ==
    Settled /\ overlapped = "never" /\ Never("lost") /\ last = "remove" => alive = {}

\* A stop() that returned keeps the tunnel stopped.  Does not hold: a crashed
\* process is "not running" while its respawn is timed, and stop() skips it.
StoppedStays ==
    Settled /\ overlapped = "never" /\ Never("lost") /\ last = "stop" => alive = {}
=============================================================================
