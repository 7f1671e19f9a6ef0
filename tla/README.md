# Formal models of Xistance Panel

TLA+ models of the parts of the panel where several actors share state: the
processes behind a tunnel, the engine that deploys and stops them, the routes
that keep its database row, the supervisor of port-forward rules, the caches,
sessions, user administration, the userland forwarder, and the scripts that
switch releases on the host. TLC checks them on small instances; TLAPS proves
the safety properties of all ten for every instance, and that the release
scripts implement one switch of the active release.

Paths without a prefix are relative to the repository. `process.ts`,
`engine.ts`, `bounded.ts` and `forwarder.ts` are in
`packages/tunnel-core/src`; `forward-supervisor.ts`, `query-cache.ts`,
`auth.ts` and the like in `apps/web/src/lib`; routes in `apps/web/app/api`;
shell scripts in `scripts`.

## 1. Inventory

The panel is one Node.js process: a Next.js application (pages and API routes)
that owns a SQLite database and one `TunnelEngine`. All concurrency is that of
an event loop: code runs without interruption between two `await`s, timers or
process events, and anything may happen at one. The panel may be killed at any
moment; systemd units on the nodes outlive it, its children do not.

| Component | State | Operations | Interacts with | Hard behaviour | Correct when |
|---|---|---|---|---|---|
| Child process handle (`process.ts`) | child, retry timer, backoff, start in flight | start, stop, restart, dispose; exit, error, timer | engine (calls), operating system (events) | callbacks between awaits, retries | one process at most, retries bounded and spaced, last request wins |
| systemd handle (`process.ts`) | none; units and unit files on a node | start, stop, restart, isRunning, dispose | engine, runner | commands that fail or hang | a removed tunnel leaves no unit |
| Tunnel engine, lifecycle (`engine.ts`) | `runtimes`: the handles of each tunnel | deploy, start, stop, restart, remove | routes, supervisor, boot; handles | interleaved requests, partial failure, timeouts | what runs is what is tracked |
| Tunnel engine, caches | status, process and reachability caches, io counters | status, stats, invalidate | pages that poll | write-back after invalidation | no stale status after an operation |
| Bounded cache, coalescer (`bounded.ts`) | entries; the run in flight | get, set, sweep; run, scheduleFollowUp | engine, supervisor | eviction, joins | bounded; the last write is applied |
| Port-forward supervisor | active groups, the coalesced run | reconcile | routes, boot; engine, database | long runs while rules change, partial failure, restarts | statuses tell the truth, stale rules stop |
| Port-forward routes | rows | POST, PUT, DELETE | supervisor, database | check then act | one rule per port is served |
| Query cache (`query-cache.ts`) | store, in-flight computations, generations | cached, invalidateCache | read and write routes | invalidation during a computation | readers see writes |
| Boot (`instrumentation.ts`) | none | register | engine, supervisor, database | crash before or during it | rows and processes agree again |
| Tunnel routes | rows: state, status, autostart | create, actions, delete, batch | engine, database | decisions across awaits, half failures | row and engine agree |
| Sessions (`auth.ts`) | sessions, session cache | login, refresh, logout, getSession | every route | concurrent refreshes, stale cache | a revoked session ends |
| Users, ports | rows | demote, delete; allocate | database | check then act | one super admin is left; ports are distinct |
| Forwarder (`forwarder.ts`) | sockets, UDP flows | packets, idle timeout, stop | network | events while a socket binds | no leaked socket |
| Sampler, pool, maintenance, rate limiter | counters, timers | periodic jobs | database, nodes | overlap with themselves | bounded work |
| 3x-ui synchronisation, runners, plans, config builders, preflight, reachability, diagnostics | little or none | remote calls, pure functions | engine | retries | each call's contract |
| Release scripts (`lib/release-layout.sh`, `update.sh`, `release-install.sh`) | release directories, pointer file, symlink, record, schema, the running service | install, update, rollback, `xt-rollback` | systemd, database | interruption, reboot or failure between two renames, failed readiness | one switch: the old release or the new one |
| Backup and restore scripts (`lib/backup-lib.sh`) | archives; database and environment files | create, verify, restore | database | interruption between two renames | a verified archive restores |
| Database, types, i18n, pages, tests | schema, messages | | | | |

`PROJECT.json` lists the same parts with their status, and under `hazards` what
is hard to test in each, at its line.

## 2. Modules

| Module | Models |
|---|---|
| `ChildProcess` | `ChildProcessHandle`, one handle under concurrent calls |
| `TunnelEngine` | the lifecycle operations of the engine on one tunnel id, over both kinds of handle |
| `StatusCache` | `status()` of the engine: its two memos, slow probes, lifecycle operations |
| `TunnelApi` | the tunnel routes and the boot: rows against the engine, over panel restarts |
| `ForwardSupervisor` | the port-forward routes, the coalescer, the reconcile, boot and panel restart |
| `Forwarder` | a batch of userland TCP and UDP forwarders: bind, serve, collect, stop |
| `QueryCache` | the cache of expensive reads with its readers and writers |
| `Sessions` | the session of one user in one browser: memo, refresh rotation, logout, password, deactivation |
| `Users` | demotion, deactivation and deletion of administrators |
| `ReleaseCutover` | install, update and rollback of a release on the host, with failures and interruptions |
| `ReleaseSwitch` | the abstract switch of releases, which `ReleaseCutover` implements |
| `..._proofs` | theorems and proofs about the module of that name |
| `Caches_proofs` | those about `StatusCache` and `QueryCache` |
| `Accounts_proofs` | those about `Sessions` and `Users` |
| `MC...` | instances for TLC (`Forwarder` is checked as it is) |

In every model an action is what the code runs between two returns to the event
loop (in `ReleaseCutover`, between two steps of a script that a signal can
separate). Continuations that follow one another without I/O are one step, so
the models have the interleavings the event loop has, and no others.

Two pairs of models share a module of proofs, which extends both. So that it
can, `StatusCache` and `Users` have other names than the usual ones for what
their partner has too (`StatusInit`, `StatusNext`, `statusVars`; `UsersInit`,
`Changes` and `change` for the requests).

How they fit together: `ChildProcess` is what a handle does, `TunnelEngine` what
the engine does with the handles of a tunnel; `StatusCache`, `TunnelApi` and
`ForwardSupervisor` take an operation of the engine as one step that takes
effect or fails, and each adds a part of the panel that reads or writes around
it. What goes wrong inside an operation is in `TunnelEngine`; the others take
over what may come of it, such as a process that a stop passed over.

### ChildProcess

`child`, `manualStop`, `retryAttempts`, `retryDelay`, `exhausted` and
`startInFlight` are the fields of the class; `timer` is the time left on
`respawnTimer` and `sinceExit` the time since `lastExitAt`. `live` is what the
operating system runs, `pc` where each caller is suspended: `mkdir` in
`startOnce()`, `join` on another start, `stopping` or `restarting` on the exit of
the child. `intent`, `startFailed` and `streak` are history.

| Action | Code |
|---|---|
| BeginStart, StartWhileRunning, JoinStart | `start()`, by what it finds |
| Spawned, SpawnErrors, StartRejects | how `startOnce()` and its joiners end |
| Signal, StopIdle, RestartIdle | `stop()`, `dispose()`, `restart()` with and without a child |
| Crash, ExitStopped, ExitRestart | the exit handler and the calls that exit resolves |
| FireTimer, Tick | the retry timer |

Joiners of a start that settled with a child clear the backoff in the same step
(they resume before any callback). `dispose()` changes the same state as
`stop()`. Left out: the log stream, `autorestart: false`, `maxAttempts: null`.

### TunnelEngine

`runtime` is the map entry of the tunnel, as the number of the deploy that made
it; `alive` and `unitFile` are the truth on the node; `jobs` are the
`handle.stop()` and `handle.dispose()` calls in progress, which outlive a
request that gave up on them (`withTimeout`). With `childMode` each deploy has
its own processes; as systemd units the deploys of a tunnel share unit names, so
an old teardown can stop a new process. Each request goes through the awaits of
its operation (`pc`), with its captured runtime (`mine`) and loop index
(`done`). A node that runs units may be slow (a teardown exceeds its timeout) or
lose a command (`run()` resolves with a non-zero exit code); `faults` counts
them. A process may also end by itself (`Dies`), as often: for good (`gone`), or
to be started again - a child by its handle's retry timer (`waiting`, then
`spawning` while the respawn waits in `mkdir`), a unit by systemd after
`RestartSec`. A stop or disposal that meets it there takes it for ended: it
cancels the timer of a child, but not the respawn in `mkdir`, and a `stop()`,
which first asks `isRunning()`, does not even do that; `missed` remembers the
processes it passed over. When and how often a handle retries is
`ChildProcess`'s subject; here any crash may be the last one. Two requests may
overlap: the engine has no lock. `overlapped` remembers whether operations have
overlapped that only started or stopped the processes (`kept`) or one that
changed what the engine tracks (`replaced`), because a property may hold over
the first kind and not over the second. Left out: XUI tunnels, which have no
process, diagnostics.

### StatusCache

`memo` is `statusCache`, `deadAge` the entries of `processRunningCache`, `call`
what each concurrent `computeStatus()` knows of each process. Instants are kept
as ages in ticks; a tick does not pass a probe that has reached its timeout.

| Action | Code |
|---|---|
| Answer | `status()` from the memo, or without a runtime |
| Compute, Look, Hear, NoAnswer, Computed | `computeStatus()`: begin, the probe looks, its answer arrives or does not, the verdict is memoised |
| BeginOperation, Advance, End, Fail | a lifecycle operation, which clears both memos when it ends and none when it throws |
| Die, Respawn, Tick | processes and time |

`upAge`, `downAge`, `wasUp`, `wasDown` are history: how long ago each process
was last alive or not, and what has been true since the memos were cleared.
Left out: the reverse probe, XUI tunnels, the size limits of the memos.

### TunnelApi

`row` is the tunnel's row (`status` is the wish, `state` the observation),
`tracked` what `engine.has()` says, `up` the tunnels with a process that runs or
will be started again, `boot` what the booting panel has still to deploy again.
A request goes through the awaits of its route: `finding`, `checking` the port,
`inserting`, `loading` the configuration, `deploying`, `acting`, `asking` for
the status, `writing`; a deletion through `removing` and `dropping`, a batch
through `listing` and one turn per tunnel. Each engine call succeeds (`Deploy`,
`Act`, `Remove`) or fails (`DeployFails`, `ActFails`, `RemoveFails`) with the
effect the engine then has: a failed deploy (`RollBack`) disposes its
predecessor, if the engine tracks one, and what it started, but not the unit
whose start failed nor one that outlived an earlier panel; a stop or removal
(`TearDown`) may pass over a process that is about to be started again. `Crash`
ends the panel in any state: requests and tracked tunnels are gone, processes
too unless they are units (`survives`); `Rehydrate` and `RehydrateFails` are
`register()`. The history variables say which tunnels have been through
something the code is known not to handle (see section 3). All tunnels want one
port. Left out: editing a tunnel, ownership, quota, rate limits, audit log,
database writes that fail.

### ForwardSupervisor

`db` and `status` are the rows: the node and port a rule is enabled on, and
whether its direction fits the type of that node. `units` is what is installed
on a node, `tracked` the engine's map, `active` the supervisor's, `run` the run
the coalescer holds and `stage`, `group`, `result` its locals. A request writes
a row, then calls `reconcilePortForwardsSoon()`, which starts a run or joins the
one in flight and stops waiting after the grace period. A run plans all enabled
rules of a node, first come first served on each port (`Load`); the engine
disposes what it tracks (`Replace`), plans a process for the rules whose
direction fits (`Planned`) - one for each protocol and port on a remote node,
one for all on the panel's own host - and starts them (`Deployed`), or throws
(`DeployFails`, `BuildFails`). A unit that is up under the name to be started
stays as it is (`Kept`, `Started`). `Persist` writes the statuses, of which any
may fail (`unwritten`).

A unit is `stray` when the engine failed to take it down or replace it, or when
the panel has ended since it was started: from then on the engine does not know
of it. `Dies` is a process that ends for good, `Crash` the end of the panel: the
map and the run are gone, rows and units stay, and the boot runs a reconcile
before requests are served. The engine is what the supervisor sees of it; its own
hazards are in `TunnelEngine`. Left out: nodes that come and go, a crash that the
respawn mends, the destination of a rule.

### Forwarder

`listening` are the bound rules, `conn` the client half of TCP connections;
`flows`, `age`, `binding`, `open` are the UDP clients' flows and upstream
sockets, `collecting` the cleanup timer. `Listen` and `ListenFails` are
`startForwarders()` with its rollback, `FirstPacket`, `Bound` and `BindFails`
the bind of an upstream with its attempts (several binds of one client may
overlap), `Tick` time and the collector, `ReplyFails` the error of the listener,
`StopAll` what `stop()` does to every handle and `Stopped` its resolution.
`forwarder-runner.ts` carries a copy of this code. Left out: the bytes, the TCP
idle limit, the upstream half of a TCP connection.

### QueryCache

A value is the version of the database it was computed from. `comp` holds the
computations that run, each with the generation it captured and what it has
read; `inflight` is the one new callers join. Writers change rows in one step
and invalidate in a later one. `floor` and `blown` are history: the version a
key was last invalidated at, and whether everything was cleared during a
computation.

### Sessions

A pair of an access token and a refresh token is a number; `session` and
`revokedAge` are its row, `cached` the memo of `getSession()`, `jar` the cookies
of the browser. Requests carry the pair of the jar at the time they were sent,
and the jar takes what each response brings when it arrives. A request is let in
or refused within `MaxTime` ticks; its handler then takes as long as it likes,
and only when it ends do the new cookies travel (`Handling`).

| Action | Code |
|---|---|
| Send, Hit, Expired, Lookup, Looked | `getSession()`: memo, signature, the user read and memoised |
| Find, Owner, Revoke, Create | `refreshSession()`, one action per await |
| Login, Logout, Destroy, Receive | login and logout, the response |
| ChangePassword | all rows of the user are revoked, from this browser or another |
| Deactivate, Reactivate, Expire, Lose, Tick | administrator, clock, failures |

Left out: roles, CSRF, the 30 days of a refresh token, the memo's size.

### Users

A request reads its target (`FindTarget`), counts the super administrators if its
change removes one (`Count`) and writes (`Write`); other requests may come
between. Roles and permissions are those of the two routes.

### ReleaseCutover and ReleaseSwitch

`dir` are the release directories, `pointer`, `link` and `recorded` the three
files that `xt_activate_release()` replaces one after the other (`Point`,
`Link`, `Record`), `schema` the number of migrations applied, `serving` the
release the service was started from. `Update`, `Install`, `Rollback` and
`XtRollback` begin a script; they share the steps that follow: staging,
migrations one transaction at a time, activation, restart, probe, and the
restoration of the previous release, which is an activation with
`run.restoring`.

Each replacement may fail, and the code then does different things. A link that
cannot be replaced is ignored (`LinkFails`). A pointer or a record that cannot
makes the activation fail (`PointFails`, `RecordFails`), and `GivesUp` is what
its callers do: `update.sh` and `xt-rollback` end, the installer deletes the
candidate, which link and pointer may name by then, and a restore takes no notice
(`|| true`). A restart may fail (`RestartFails`), and `xt-rollback` ends before
its restart when no service runs (`NoUnit`). `Interrupt` ends a script between
any two steps, `Reboot` restarts the host at any time.

`ReleaseSwitch` is the abstract promise: a run puts a release on trial, and when
it ends that release or the one before is active; as a third outcome the release
on trial is dropped after it was made active, and perhaps none is.
`ReleaseCutover` implements it under the mapping in the module: while a script
runs, the active release is still the old one; when it has ended, it is what
`xt_current_release()` reads. Left out: download and verification, the backup,
the admin account, a migration that is applied but not reported.

## 3. Runs

| Run | Instance | Shows |
|---|---|---|
| `ChildProcess` | 3 callers, 2 process ids, delays 2 to 7, 4 attempts, reset after 8 | one process at most, no more retries than the policy says and each after a longer wait; stops return, crashes are answered |
| `TunnelEngine` | 2 overlapping requests, 2 roles, 2 deploys, both kinds of handle, one slow or lost command, one death | nothing is orphaned, missing or left behind |
| `StatusCache` | 2 calls, 2 processes, lives of 1 and 2 ticks, probes of 1 | an answer is recent, negative or positive, and of the time after the last operation |
| `TunnelApi` | 2 tunnels, 3 requests, 2 at a time, 1 panel restart, every failure | row and engine agree at rest, no process without a row, a stop stays a stop, one holder of a port |
| `ForwardSupervisor` | 2 rules, 2 ports, a remote node and the panel's host, 1 request at a time, 2 writes, 2 failures of any kind | statuses tell what is served, stale rules stop, of two rules on a port one is reported running |
| `Forwarder` | 2 UDP clients, 3 sockets, 1 connection, 2 attempts | sockets are owned, flows end, stop releases everything and resolves |
| `QueryCache` | 3 keys in 2 namespaces, 2 computations, room for 2 entries | readers see writes, one computation per key, bounded store |
| `Sessions` | 2 parallel requests, 3 pairs, memo of 2 ticks, grace of 3, 1 to be let in | parallel refreshes work, a deactivation bites, no live session is left behind |
| `Users` | 3 administrators, 2 requests | a super administrator remains |
| `ReleaseCutover` | 3 releases with 1, 2 and 2 migrations, the last one broken; 4 runs, 3 faults | success serves, failure is undone, the schema covers what runs, a rollback is possible; the refinement `SwitchIsAtomic` |
| `Supervisor_WritesApplied` | as above, 2 requests, no failures | violation: a write that lands during a run is not applied by it |
| `Release_PreviousIsWhatWasActive` | 3 good releases, 3 runs | violation: the record names the release before the previous one |

Each module of the code has a `TypeOK`; the runs of `ChildProcess`,
`TunnelEngine` and `QueryCache` check it. Deadlock is not checked where a
behaviour ends: in `TunnelApi` and `ReleaseCutover` when the bounded requests or
runs are used up, in `Users` when overlapping requests have left nobody who may
act.

Why the bounds are enough. Three callers of a handle are one in a start, one
that joins it and one that stops; the kernel may reuse an id, so two suffice for
an old and a new process, and the policy reaches its ceiling (2, 4, 7, 7). Two
requests, two roles and two deploys give the engine a deploy that fails half
way, a replacement and a teardown that outlives its request; one death, a
process that is down at any await of an operation and comes back at another. Two
calls of `status()` are one that computes and one that reads or writes the memo
in between, and ages are told apart up to the limits the properties name. Three
requests on two tunnels are a creation, an operation, and one more that overlaps
or follows either, with the panel dying between any two steps. Two rules on two
ports of a remote node and one of the panel's host, where the direction of a
rule may not fit, give a duplicate, a group of two, an edited port, a move and a
group that gets empty; two failures, a unit that is left behind and one more
failure while it is in the way; two writes, one before a run and one during it.
Three sockets are two binds of one client that overlap and a third for another
client. In the cache two namespaces, one of two keys, tell an invalidated key
from one that is not. Two parallel requests and three pairs are a login, a
rotation and a second one; with a grace of 3 ticks (30 seconds in `auth.ts:19`)
a request may be one tick old without having taken half of it, and two when it
has. Two administrators can race and a third remains. Three releases and four
runs give an update, its rollback and an update over a directory that was there
before; three faults an activation that fails half way, one more in the repair,
and an interruption or reboot.

`Sessions.cfg` gives TLC a `VIEW`: states that differ only in the ages and the
memo of pairs that are neither in the jar nor with a request, or in which of the
revoked pairs were `loose`, count as one. Such pairs never come back, no guard
and no property reads those parts of them, so every such state has the same
future.

### Conditions of the properties

Several properties leave out situations which the code does not handle. The
condition is a history variable, so that everything else is still checked, and
the situation is listed as a finding in `PROJECT.json` or a hazard.

| Property | Left out |
|---|---|
| `NoOrphan`, `RemoveForgets` | operations that overlap a deploy or a removal; lost commands; for `NoOrphan` a process whose respawn a disposal met in `mkdir` (`missed`) |
| `DeployedRuns` | overlapping operations; a teardown abandoned at its timeout, which later stops the unit a new deploy started; processes that ended for good since (`gone`) |
| `StopStops` | overlapping operations; lost commands, since a failed `is-active` reads as "not running"; processes that `stop()` met between a crash and the respawn (`missed`) |
| `StatusReflects`, `OnePerPort` | rows whose status could not be written (`unwritten`); for `StatusReflects` also rules whose direction does not fit their node |
| `NothingStaleServes` | units that a failed deploy or teardown or the end of the panel left behind (`stray`) |
| `FreshAfterOperation` | calls that were computing when an operation returned: they memoise what they found before it |
| `RunningIsTracked`, `StartingIsCreating`, `NoGhost`, `StopIsKept` | tunnels on which two requests overlapped (`mixed`); for the last two units that outlived the panel or a failed deploy and were not deployed again (`adrift`) and processes that a teardown did not reach (`missed`); for `NoGhost` a removal that failed (`unremoved`); for `StartingIsCreating` a panel that died |
| `PortHeldOnce`, `SuperAdminRemains` | requests that overlap between check and write (`raced`) |
| `UpstreamsOwned`, `StopReleases` | sockets whose bind overlapped another of the client, or a stop |
| `FlowsEnd` | after a reply that could not be sent, which ends the collector |
| `ParallelRefreshWorks` | a logout, a change of the password, a lost request, or one that took half of the grace, as a handler that awaits a deploy over SSH may (`upset`) |
| `SessionsHeld` | lost responses, and live cookies that another response replaced (`loose`) |
| `SuccessIsServing`, `FailureIsUndone` | a script whose last `systemctl restart` failed (`stuck`), or whose last activation left the link or the pointer behind without a word (`slipped`) |
| `RollbackPossible` | an installer that has removed a release after activating it (`dropped`) |

### Findings

Two findings have a run. The others are statements of a comment, a test or the
design that the code does not keep, met while modelling; `PROJECT.json` quotes
each. To see one, check the named property alone in the module's configuration
(under `INVARIANT` or, for a temporal one, `PROPERTY`), or drop the condition
named in the table above.

| Module | To check | What happens |
|---|---|---|
| `ChildProcess` | `StopHonoured` | a stop during a start that waits for `mkdir` sees no child; the start then spawns |
| `ChildProcess` | `StartHonoured` | a restart that joins a start leaves `manualStop` set; a start during a stop returns without starting |
| `ChildProcess` | `LongRunRestartsBackoff` | after hours up, `scheduleRetry()` resets the attempts, not the delay |
| `TunnelEngine` | `NoOrphan` for all overlaps | two deploys orphan the first one's processes |
| `TunnelEngine` | `UntrackedNotEnabled` | the unit whose start failed stays enabled |
| `TunnelEngine` | `StopStops` with lost commands | a stop of an unreachable node reports success |
| `TunnelEngine` | `StoppedStays` | a stop skips a process that crashed a moment ago; it comes back after the stop returned |
| `TunnelEngine` | `RemovedEnds` | a removal does not cancel a respawn that waits in `mkdir` |
| `ForwardSupervisor` | `RunningServed` | a rule whose direction does not fit its node is reported running and served nowhere; a unit that outlived the panel keeps its old command |
| `StatusCache` | `FreshAfterOperation` for calls that span the operation | the answer from before the operation is memoised after it |
| `TunnelApi` | `StopIsKept` without `adrift` | a stop of an untracked tunnel only writes the row |
| `TunnelApi` | `row[t].state` after `Write` of a batch | the batch writes the wish as the observation, without asking |
| `TunnelApi` | `Wanted` | rows in state degraded or unknown are not rehydrated |
| `QueryCache` | `StaleWriteBackKilled` | clearing everything makes a stale computation current again |
| `Sessions` | `DeactivationBites` with the limit `CacheTTL` | a lookup from before the deactivation is memoised after it |
| `Forwarder` | `IdleFlowsEnd` | one reply that cannot be sent ends the collector |
| `Users` | `NoLockout` | two demotions that overlap each count two |
| `ReleaseCutover` | `schema` after a failed update | "Data was not modified", but the migrations stay |
| `ReleaseCutover` | `FailureIsUndone` without `slipped` | the restore fails, and the script says that the previous release is active |
| `ReleaseCutover` | `SuccessIsServing` without `slipped` | the link cannot be replaced, and the update reports success while the old release serves |
| `ReleaseCutover` | `SwitchIsAtomic` with `ReleaseSwitch` without `Drop` | the installer removes the release that link and pointer name |
| `ReleaseCutover` | `NoUnit` | `xt-rollback` ends without its message when nothing runs |

### Fairness

`ChildProcess` assumes that a pending `mkdir` and spawn settle, that time passes
and due timers fire, and that a signalled process exits: `stop()` sends SIGKILL
after 8 seconds. `Forwarder` assumes that the event loop delivers the `close` of
a destroyed socket and of a server without connections. Neither assumes that
anybody calls anything. The other modules have no liveness property: what their
operations wait for is a remote node, or is bounded by a timeout that the
age-based safety properties already measure.

## 4. Proofs

Each `..._proofs` module defines an inductive invariant for its model (`IInv`;
`StatusIInv`, `QueryIInv`, `SessionsIInv`, `UsersIInv`), proves that it holds
initially and that every action preserves it, and draws the theorems from
it. They have the form `Spec => []P`, for every value of the constants that
satisfies the named assumptions (positive limits, distinct names, finite sets
where the code counts) - any number of requests, tunnels, rules, releases,
deploys, faults - and one is a refinement. TLC checked every one on the
instance of the run, or a smaller one, before it was proved.

| Module | Theorems | Properties |
|---|---|---|
| `ChildProcess_proofs` | TypeCorrect, NoDoubleSpawn, RetrySafe, AttemptsBounded, GiveUpFinal | `TypeOK`, `EveryProcessTracked`, `RetryOnlyWhenDown`, `CeilingHonoured`, `ExhaustedIsQuiet` |
| `TunnelEngine_proofs` | TypeCorrect, NoOrphans, DeployRuns, StopEnds, RemovalForgets | `TypeOK`, `NoOrphan`, `DeployedRuns`, `StopStops`, `RemoveForgets` |
| `TunnelApi_proofs` | TypeCorrect, RunningTracked, StartingCreates, GhostFree, StopKept, PortHeld | `TypeOK`, `RunningIsTracked`, `StartingIsCreating`, `NoGhost`, `StopIsKept`, `PortHeldOnce` |
| `ForwardSupervisor_proofs` | TypeCorrect, StatusesTrue, StaleRulesStop, PortsKeptApart | `TypeOK`, `StatusReflects`, `NothingStaleServes`, `OnePerPort` |
| `Caches_proofs` on `StatusCache` | StatusTypeCorrect, RunningRecent, NotRunningRecent, AnswersFresh | `StatusTypeOK`, `RunningIsRecent`, `NotRunningIsRecent`, `FreshAfterOperation` |
| `Caches_proofs` on `QueryCache` | QueryTypeCorrect, OneComputationCounts, InvalidationHonoured, StoreStaysBounded | `TypeOK`, `SingleFlight`, `ReadersSeeWrites`, `StoreBounded` |
| `Forwarder_proofs` | TypeCorrect, SocketsOwned, FlowsEndInTime, StopReleasesAll | `TypeOK`, `UpstreamsOwned`, `FlowsEnd`, `StopReleases` |
| `Accounts_proofs` on `Sessions` | SessionsTypeCorrect, RefreshesWork, DeactivationEnds, LiveSessionsHeld | `TypeOK`, `ParallelRefreshWorks`, `DeactivationBites`, `SessionsHeld` |
| `Accounts_proofs` on `Users` | UsersTypeCorrect, SomebodyAdministers | `UsersTypeOK`, `SuperAdminRemains` |
| `ReleaseCutover_proofs` | TypeCorrect, SuccessServes, FailureUndone, CanRollBack, SchemaCovers, ImplementsSwitch | `TypeOK`, `SuccessIsServing`, `FailureIsUndone`, `RollbackPossible`, `SchemaCoversActive`, `SwitchIsAtomic` |

The properties hold under the conditions of section 3, which their definitions
contain. The arguments:

`ChildProcess`: that every process is tracked needs that `startOnce()` is
suspended only for the actor `startInFlight` names and only while there is no
child (`StartsSerialized`), and that whoever waits for an exit waits for the
present child (`WaitersAwaitChild`). The ceiling needs a bound on the history
counter by the code's own, one tighter while a retry is pending
(`StreakCounted`). `ExhaustedIsQuiet` is proved and no run lists it.

`TunnelEngine`: the properties speak of a tunnel at rest, the invariant of
suspended operations. Every process that runs or will run again is tracked, was
started by a deploy at work, is being torn down, or was missed by a teardown
(`Accounted`); whoever replaces or removes a runtime awaits the end of all that
runs of it (`RuntimeEnds`), and a removal the disposal of every unit left
(`UnitsEnd`). The loops of deploy, start and stop have dealt with the roles they
passed (`LoopStarts`, `LoopFinds`), and the result stays (`RestDeployed`,
`RestStopped`, `RemovedStays`). They rest on who may overlap with whom
(`TakeTurns`), whose teardown a job is (`OwnersAwait`) and that a captured
runtime is still the runtime (`Tracking`). An abandoned teardown is why
`DeployedRuns` has the condition "no slow command" and `NoOrphan` has not. A
process whose respawn is under way is still `alive`, so what comes back never
escaped the account.

`TunnelApi`: a route that goes on after an await relies on what it read before.
The invariant says what that is at every stage: which requests get there
(`InTheirWay`), that nobody else works on the tunnel (`HandsApart`), what the
request knows of the engine (`KnowsTracked`), of the row (`KnowsRow`) and of the
process (`KnowsStopped`), and what a booting panel may still rely on
(`BootWanted`). Each property has a part of its own which names the exceptions
under way, such as a row that says running while its removal is between the
engine and the database (`RunningKnown`). The port check is sound for requests
in turn because whoever has passed it is the only one to hold the port
(`PortKnown`). That a process is up only if the engine tracks it, or it is
adrift or missed, is inductive because every failure path of the engine names
its exception (`UpKnown`). The proof found that the constant for "no row" had to
differ from all rows, which is now assumed.

`ForwardSupervisor`: a unit that is not a stray was started by a handle the
engine tracks, on a node the supervisor has in hand (`InHand`). What a run has
established at each of its awaits is `RunOnItsWay`: a node that is replaced or
has failed holds nothing but strays; a node that is up holds what its plan says,
and every planned name is held; while the run removes, what is left either serves
its plan or is marked stale. As long as no row was written since the rules were
read, plan and results are those of the rows (`PlanCurrent`), and what the run
leaves behind stays true until the next one reads (`Settled`). No part of this
depends on which deploys, removals or writes fail. That two rules on one port are
not both reported running needs that plans have no port twice (`PortsApart`) and
that the row of a rule is of one node and port only (`EnabledRows`).

`StatusCache`: a status is made of what a call, the memo of the dead and the
memo of the status have held in turn. The invariant bounds how long each finding
has been untrue by the age of whatever holds it now: a call that has found a
process up, by the time since that call began; the memo `running`, by its age
and one probe (`UpKnown`); a process in the memo of the dead, by the age of that
entry and one probe; a call that found it there, by the sum; and the memo of a
status that is not `running`, by the sum and its own age (`DownKnown`). A
computation reads the memo of the dead and does not write it back, so no sum
grows beyond `DownLimit`. The same parts say that a finding is of the time since
the memos were cleared, which is `FreshAfterOperation`. `Ages` says that an
entry past its life is none, and that a call asks after every process.

`QueryCache`: a dropped computation keeps its generation; that it is never
current again needs that no computation is of a generation to come
(`GenerationsGrow`), which is what a full clear breaks. `FloorReached` says
invalidations are of versions that exist. The store fits because an entry takes
a free place, its own, or that of the one evicted for it (`StoreFits`).

`Forwarder`: a socket that opens does not look at what happened since its bind
began. That it is owned unless two binds of the client overlapped needs that
whatever flow a binding client has came from such an overlap (`OverlapsKnown`)
and that no two clients share a socket (`FlowsApart`). After `stop()` only what
was binding remains (`Released`). The end of a flow bounds its silence and the
time to the next collection together (`SilenceBounded`).

`Sessions`: the refresh token a request carries may have been revoked before the
request was sent, by a rotation whose response the browser has not received.
While the browser has a revoked pair, a request that carries the pair and is no
younger than the revocation is on its way back (`JarRotates`). If no request has
taken half of the grace (`InTime`), what the browser sends was not revoked for
longer than that, and what a request carries for no longer than that and its own
age (`CarriedWorks`), which is less than the grace. That the rotation is found at
all needs what a request carries at each step (`Carrying`), that rows are
created in order (`InOrder`), and that a pair on its way to the browser is live
and nobody else's (`BroughtIsNew`): it is what the browser has next. Only a
logout and a change of the password revoke a row otherwise, which is `upset`.
`SessionsHeld` is inductive
once what a rotation or a logout replaces is known to be revoked
(`ReplacedIsRevoked`). `DeactivationBites` rests on `KnownActive`: a request that
has found the user active found that since it was sent, and an entry of the memo
comes from such a request, so the time since the deactivation is bounded by the
age of the one, or by the age of the other and `MaxTime`. The steps are first
rewritten as what they do to each field and row (`Moved`, `StepMoves`), with one
case for the six steps that write nothing but the memo (`Walks`).

`Users`: a request that has counted two super administrators still knows, when
it writes, its target's role (`RoleKnown`) and that another one is there
(`AnotherSuper`), as long as requests take turns (`OneAtATime`).

`ReleaseCutover`: the three files disagree while a script runs, and for ever
after an interruption or a failed replacement. While a candidate is prepared or
activated, what is current without it is the release that was active before
(`Beneath`, `OldBeneath`), so that is what comes back when the candidate is
removed. As long as the installer has removed no activated release, the link
never names a missing directory, the pointer does not while there is no link
(`CurrentResolves`), and until the link moves the old release is the active one
(`OldIsCurrent`). Each file has come as far as the step says (`Progress`);
everything a later step may activate has its migrations (`SchemaCoversAll`); the
release to be recorded is another one and is there (`PreviousUsable`).
`ImplementsSwitch` maps every step: the beginning of a run puts its target on
trial; the end of one, also by a failure, an interruption or a reboot, accepts,
rejects or drops it, because what is current then is the target or the release
before (`OnTrial`), and what is left without the target is that release or none;
all other steps stutter.

Proving has changed two models. In `TunnelEngine` two guards of the `CASE` that
records an overlap of operations could hold at once, which leaves its value open
although TLC takes the first; it is now a sequence of conditions. In `TunnelApi`
the assumption above was added.

Only model-checked: liveness (`StopReturns`, `CrashAnswered`, `StopResolves`),
which is out of the prover's reach, and `BackoffGrows`, which is about powers of
two. Every invariant that a run checks is proved.

## 5. Plan

Done: all modules above, and the proofs of section 4.

Next: a module for the backup scripts: create, verify and restore over
interruptions. `restore` moves the old database away and the new one in; between
the two moves the destination does not exist, which `lib/backup-lib.sh` says
in its comment.

## 6. Not modelled

- Rate limiter: a fixed window counter per key, synchronous; no interleaving
  reaches it and unit tests cover its boundary.
- Traffic sampler, connection pool, maintenance: periodic jobs with a guard
  against running twice, whose results nothing else decides on.
- 3x-ui synchronisation: its state is that of a remote panel outside the
  repository.
- Runners: command execution. `TunnelEngine` assumes that `run()` resolves
  within its timeout, with a non-zero exit code when the node fails.
- Plans, config builders, preflight, reachability, diagnostics: functions from a
  configuration to commands, files and messages, and single remote probes. They
  are most of `engine.ts` and of the core package by lines and have no state.
- Pages, types, translations, schema: no state the server relies on. The
  database is taken to apply one row write at a time.
- Backup and restore: planned. `install.sh`: the developer's installation.
- Tests, benchmarks, audits: read for what they promise.

These parts, the pages above all, are most of the repository by lines, so the
models stand for a small share of its lines and for most of its shared state.
