------------------------------ MODULE TunnelApi ------------------------------
(***************************************************************************)
(* The tunnel routes of the panel (apps/web/app/api/tunnels) and the       *)
(* rehydration at boot (apps/web/instrumentation.ts): the database row of  *)
(* a tunnel against the engine's record of it and its processes, over      *)
(* requests that interleave at their awaits, operations that fail, and     *)
(* restarts of the panel.                                                  *)
(*                                                                         *)
(* The engine is abstract here - an operation takes effect in one step or  *)
(* fails; TunnelEngine models what is inside.  A process that crashed and  *)
(* that its handle or systemd will start again counts as up: a probe may   *)
(* find it stopped, and a teardown may pass it over.  All tunnels want the *)
(* same port.  A status probe tells the truth of its moment, a worse       *)
(* answer, or fails.  Left out: sessions, ownership, quota and rate        *)
(* limits, audit log, failing database writes.                             *)
(***************************************************************************)
EXTENDS Integers, FiniteSets

CONSTANTS
    Tunnels,        \* tunnel ids
    Requests,       \* concurrent requests
    NoTunnel,
    NoRow,
    MaxRequests,    \* bound: requests in a behaviour
    MaxCrashes      \* bound: panel restarts

Actions == {"start", "stop", "restart"}
Statuses == {"starting", "running", "stopped"}
States == Statuses \cup {"degraded", "unknown"}
Rows == [status : Statuses, state : States, autostart : BOOLEAN]

ASSUME ApiAssumption ==
    /\ NoTunnel \notin Tunnels /\ NoRow \notin Rows
    /\ MaxRequests \in Nat /\ MaxCrashes \in Nat

VARIABLES
    row,        \* prisma.tunnel: status (desired), state (actual), autostart
    tracked,    \* tunnels engine.has()
    up,         \* tunnels with a process that runs, or that a respawn will start again
    req,        \* what each request is doing
    boot,       \* tunnels the booting panel has still to rehydrate
    issued,     \* ids given to a tunnel
    survives,   \* processes are systemd units, which outlive the panel
    mixed,      \* history: tunnels that two requests worked on at the same time
    adrift,     \* history: tunnels with units that outlived the panel or a deploy that
                \* failed, not deployed since
    missed,     \* history: tunnels with a process that a teardown did not reach
    unremoved,  \* history: tunnels whose removal from the engine failed
    stopped,    \* history: tunnels whose last request was a stop that returned ok
    raced,      \* history: two requests were in flight at the same time
    requests, crashes   \* counters of the bounds

engine == <<tracked, up>>
history == <<mixed, adrift, missed, unremoved, stopped, raced>>
bounds == <<issued, survives, requests, crashes>>
vars == <<row, engine, req, boot, history, bounds>>

Idle == [stage |-> "idle", kind |-> "action", action |-> "stop", t |-> NoTunnel,
         has |-> FALSE, todo |-> {}, fetched |-> {}, answer |-> "stopped"]

TypeOK ==
    /\ row \in [Tunnels -> Rows \cup {NoRow}]
    /\ tracked \in SUBSET Tunnels /\ up \in SUBSET Tunnels
    /\ req \in [Requests ->
         [stage : {"idle", "finding", "checking", "inserting", "loading", "deploying", "acting",
                   "asking", "writing", "failing", "removing", "dropping", "listing", "next"},
          kind : {"create", "delete", "action", "batch"}, action : Actions,
          t : Tunnels \cup {NoTunnel}, has : BOOLEAN,
          todo : SUBSET Tunnels, fetched : SUBSET Tunnels, answer : States]]
    /\ boot \in SUBSET Tunnels /\ issued \in SUBSET Tunnels /\ survives \in BOOLEAN
    /\ \A h \in {mixed, adrift, missed, unremoved, stopped} : h \in SUBSET Tunnels
    /\ raced \in BOOLEAN
    /\ requests \in 0..MaxRequests /\ crashes \in 0..MaxCrashes

Init ==
    /\ row = [t \in Tunnels |-> NoRow]
    /\ tracked = {} /\ up = {} /\ boot = {} /\ issued = {}
    /\ req = [r \in Requests |-> Idle]
    /\ survives \in BOOLEAN
    /\ mixed = {} /\ adrift = {} /\ missed = {} /\ unremoved = {} /\ stopped = {} /\ raced = FALSE
    /\ requests = 0 /\ crashes = 0

-----------------------------------------------------------------------------
(* Requests *)

Scope(r) == IF req[r].stage = "idle" THEN {} ELSE {req[r].t} \cup req[r].todo
Quiet(t) == boot = {} /\ \A r \in Requests : t \notin Scope(r)

At(r, stage) == req[r].stage = stage
Goto(r, stage) == req' = [req EXCEPT ![r].stage = stage]

\* A request ends; in a batch the loop goes on with the next tunnel.
Finish(r) ==
    req' = [req EXCEPT ![r] = IF @.kind = "batch"
                              THEN [@ EXCEPT !.stage = "next", !.t = NoTunnel] ELSE Idle]

Begin(r, new, ts) ==
    /\ At(r, "idle") /\ boot = {} /\ requests < MaxRequests
    /\ requests' = requests + 1
    /\ req' = [req EXCEPT ![r] = new]
    /\ mixed' = mixed \cup {t \in ts : ~Quiet(t)}
    /\ raced' = (raced \/ \E other \in Requests : ~At(other, "idle"))
    /\ UNCHANGED <<row, engine, boot, adrift, missed, unremoved, survives, crashes>>

Create(r, t) ==
    /\ t \notin issued /\ issued' = issued \cup {t}
    /\ Begin(r, [Idle EXCEPT !.stage = "checking", !.kind = "create", !.action = "start", !.t = t], {t})
    /\ stopped' = stopped \ {t}

Delete(r, t) ==
    /\ Begin(r, [Idle EXCEPT !.stage = "finding", !.kind = "delete", !.t = t], {t})
    /\ UNCHANGED <<issued, stopped>>

\* actions/route.ts asks engine.has() before its first await.
Action(r, t, action) ==
    /\ Begin(r, [Idle EXCEPT !.stage = "finding", !.action = action, !.t = t,
                             !.has = t \in tracked], {t})
    /\ stopped' = stopped \ {t}
    /\ UNCHANGED issued

Batch(r, ts, action) ==
    /\ Begin(r, [Idle EXCEPT !.stage = "listing", !.kind = "batch", !.action = action, !.todo = ts], ts)
    /\ stopped' = stopped \ ts
    /\ UNCHANGED issued

\* The row is read; without one the answer is 404.
Find(r) ==
    /\ At(r, "finding")
    /\ LET q == req[r] IN
        CASE row[q.t] = NoRow -> Finish(r)
          [] row[q.t] # NoRow /\ q.kind = "delete" ->
                Goto(r, IF q.t \in tracked THEN "removing" ELSE "dropping")
          [] row[q.t] # NoRow /\ q.kind = "action" /\ q.action # "stop" -> Goto(r, "checking")
          [] row[q.t] # NoRow /\ q.kind = "action" /\ q.action = "stop" ->
                Goto(r, IF q.has THEN "acting" ELSE "writing")
    /\ UNCHANGED <<row, engine, boot, history, bounds>>

-----------------------------------------------------------------------------
(* batch/route.ts *)

\* The rows found, and the configurations of those the engine does not have.
List(r) ==
    /\ At(r, "listing")
    /\ LET found == {t \in req[r].todo : row[t] # NoRow} IN
        req' = [req EXCEPT ![r].stage = "next", ![r].todo = found,
                           ![r].fetched = IF req[r].action = "stop" THEN {} ELSE found \ tracked]
    /\ UNCHANGED <<row, engine, boot, history, bounds>>

\* The next tunnel of the loop, in the order the query returned.
Turn(r) ==
    /\ At(r, "next") /\ req[r].todo # {}
    /\ \E t \in req[r].todo :
        LET has == t \in tracked IN
        req' = [req EXCEPT ![r].t = t, ![r].todo = @ \ {t}, ![r].has = has,
                           ![r].stage = IF req[r].action # "stop" THEN "checking"
                                        ELSE IF has THEN "acting" ELSE "writing"]
    /\ UNCHANGED <<row, engine, boot, history, bounds>>

BatchEnds(r) ==
    /\ At(r, "next") /\ req[r].todo = {}
    /\ req' = [req EXCEPT ![r] = Idle]
    /\ UNCHANGED <<row, engine, boot, history, bounds>>

-----------------------------------------------------------------------------
(* Creating, starting, stopping and restarting *)

Holds(t) == row[t] # NoRow /\ row[t].status \in {"running", "starting"}

\* A check that goes by how a tunnel is and not by what is wanted of it.
MutCheckPort(r) ==
    /\ At(r, "checking")
    /\ LET q == req[r] IN
        IF \E t \in Tunnels \ {q.t} : Holds(t) /\ row[t].state = "running" THEN Finish(r)
        ELSE Goto(r, IF q.kind = "create" THEN "inserting" ELSE IF q.has THEN "acting" ELSE "loading")
    /\ UNCHANGED <<row, engine, boot, history, bounds>>

\* Port check: another tunnel that is running or starting holds the port.
CheckPort(r) ==
    /\ At(r, "checking")
    /\ LET q == req[r] IN
        IF \E t \in Tunnels \ {q.t} : Holds(t) THEN Finish(r)
        ELSE Goto(r, IF q.kind = "create" THEN "inserting" ELSE IF q.has THEN "acting" ELSE "loading")
    /\ UNCHANGED <<row, engine, boot, history, bounds>>

\* A creation that deploys first and writes the row last.
MutInsert(r) ==
    /\ At(r, "inserting")
    /\ Goto(r, "loading")
    /\ UNCHANGED <<row, engine, boot, history, bounds>>

\* The row comes before the deploy.
Insert(r) ==
    /\ At(r, "inserting")
    /\ \E auto \in BOOLEAN :
        row' = [row EXCEPT ![req[r].t] = [status |-> "starting", state |-> "starting", autostart |-> auto]]
    /\ Goto(r, "loading")
    /\ UNCHANGED <<engine, boot, history, bounds>>

\* Configuration, nodes and their secrets.
Load(r) ==
    /\ At(r, "loading")
    /\ LET q == req[r] IN
        CASE q.kind = "create" -> Goto(r, "deploying") \/ Goto(r, "failing")
          [] q.kind = "action" -> (row[q.t] # NoRow /\ Goto(r, "deploying")) \/ Finish(r)
          [] q.kind = "batch"  -> (q.t \in q.fetched /\ Goto(r, "deploying")) \/ Finish(r)
    /\ UNCHANGED <<row, engine, boot, history, bounds>>

Track(t) ==
    /\ tracked' = tracked \cup {t} /\ up' = up \cup {t} /\ adrift' = adrift \ {t}
    /\ UNCHANGED missed

\* A failed deploy has disposed its predecessor and those of its processes that
\* started.  The unit that failed, or one a panel before left, may run on; so
\* may a child that the disposal met in the middle of a respawn.
RollBack(t) ==
    /\ tracked' = tracked \ {t}
    /\ \/ up' = up \ {t} /\ adrift' = adrift \ {t} /\ UNCHANGED missed
       \/ up' = up \cup {t} /\ IF survives
                              THEN adrift' = adrift \cup {t} /\ UNCHANGED missed
                              ELSE missed' = missed \cup {t} /\ UNCHANGED adrift

Deploy(r) ==
    /\ At(r, "deploying")
    /\ Track(req[r].t)
    /\ Goto(r, IF req[r].kind = "create" THEN "asking" ELSE "acting")
    /\ UNCHANGED <<row, boot, mixed, unremoved, stopped, raced, bounds>>

\* A deploy that fails during creation and returns its error alone.
MutDeployFails(r) ==
    /\ At(r, "deploying")
    /\ RollBack(req[r].t)
    /\ Finish(r)
    /\ UNCHANGED <<row, boot, mixed, unremoved, stopped, raced, bounds>>

DeployFails(r) ==
    /\ At(r, "deploying")
    /\ RollBack(req[r].t)
    /\ IF req[r].kind = "create" THEN Goto(r, "failing") ELSE Finish(r)
    /\ UNCHANGED <<row, boot, mixed, unremoved, stopped, raced, bounds>>

\* failCreate()
FailCreate(r) ==
    /\ At(r, "failing")
    /\ LET t == req[r].t IN
        row' = [row EXCEPT ![t] = IF @ = NoRow THEN NoRow
                                  ELSE [@ EXCEPT !.status = "stopped", !.state = "stopped"]]
    /\ Finish(r)
    /\ UNCHANGED <<engine, boot, history, bounds>>

\* stop() and remove() pass over a process that has crashed and is about to be
\* started again, and ignore the exit codes of a unit's commands.
TearDown(t) ==
    \/ up' = up \ {t} /\ UNCHANGED missed
    \/ t \in up /\ up' = up /\ missed' = missed \cup {t}

\* engine.start(), stop() or restart(): nothing for a tunnel it does not track.
Act(r) ==
    /\ At(r, "acting")
    /\ LET q == req[r] IN
        /\ CASE q.t \notin tracked -> UNCHANGED <<up, missed>>
             [] q.t \in tracked /\ q.action = "stop" -> TearDown(q.t)
             [] q.t \in tracked /\ q.action # "stop" -> up' = up \cup {q.t} /\ UNCHANGED missed
        /\ Goto(r, IF q.kind = "batch" THEN "writing" ELSE "asking")
    /\ UNCHANGED <<row, tracked, boot, mixed, adrift, unremoved, stopped, raced, bounds>>

\* The operation throws, at any point of what it does.
ActFails(r) ==
    /\ At(r, "acting") /\ req[r].t \in tracked
    /\ up' \in {up, up \ {req[r].t}} \cup
               (IF req[r].action = "stop" THEN {} ELSE {up \cup {req[r].t}})
    /\ Finish(r)
    /\ UNCHANGED <<row, tracked, boot, history, bounds>>

\* A process between a crash and its respawn is found stopped.
Truth(t) == IF t \in tracked \cap up THEN "running" ELSE "stopped"

Ask(r) ==
    /\ At(r, "asking")
    /\ \E answer \in {Truth(req[r].t), "stopped", "unknown"} \cup
                     (IF req[r].t \in tracked \cap up THEN {"degraded"} ELSE {}) :
        req' = [req EXCEPT ![r].stage = "writing", ![r].answer = answer]
    /\ UNCHANGED <<row, engine, boot, history, bounds>>

Desired(action) == IF action = "stop" THEN "stopped" ELSE "running"

\* What a request writes that records the wish and not the outcome.
MutOutcome(q) == [status |-> Desired(q.action), state |-> row[q.t].state]

\* What a request writes: a batch, and a stop of an untracked tunnel, do not ask.
Outcome(q) ==
    CASE q.kind = "create" ->
            [status |-> IF q.answer = "unknown" THEN "stopped" ELSE "running", state |-> q.answer]
      [] q.kind = "action" /\ (q.has \/ q.action # "stop") ->
            [status |-> Desired(q.action), state |-> q.answer]
      [] OTHER -> [status |-> Desired(q.action), state |-> Desired(q.action)]

\* The row is updated; without one prisma throws and the request fails.
Write(r) ==
    /\ At(r, "writing")
    /\ LET q == req[r]
           found == row[q.t] # NoRow
       IN
        /\ row' = IF found THEN [row EXCEPT ![q.t].status = Outcome(q).status,
                                            ![q.t].state = Outcome(q).state] ELSE row
        /\ stopped' = IF found /\ q.action = "stop" THEN stopped \cup {q.t} ELSE stopped
    /\ Finish(r)
    /\ UNCHANGED <<engine, boot, mixed, adrift, missed, unremoved, raced, bounds>>

-----------------------------------------------------------------------------
(* Deleting *)

Remove(r) ==
    /\ At(r, "removing")
    /\ tracked' = tracked \ {req[r].t}
    /\ TearDown(req[r].t)
    /\ Goto(r, "dropping")
    /\ UNCHANGED <<row, boot, mixed, adrift, unremoved, stopped, raced, bounds>>

\* The failure is logged and the row is deleted all the same.
RemoveFails(r) ==
    /\ At(r, "removing")
    /\ unremoved' = unremoved \cup {req[r].t}
    /\ Goto(r, "dropping")
    /\ UNCHANGED <<row, engine, boot, mixed, adrift, missed, stopped, raced, bounds>>

Drop(r) ==
    /\ At(r, "dropping")
    /\ row' = [row EXCEPT ![req[r].t] = NoRow]
    /\ Finish(r)
    /\ UNCHANGED <<engine, boot, history, bounds>>

-----------------------------------------------------------------------------
(* Processes and the panel *)

\* A process ends and nothing starts it again: it exited cleanly, or its
\* attempts are used up.
Die(t) ==
    /\ t \in up /\ up' = up \ {t}
    /\ UNCHANGED <<row, tracked, req, boot, history, bounds>>

\* The rows a booting panel rehydrates.
Wanted(t) ==
    row[t] # NoRow /\ (row[t].state = "running" \/ (row[t].state = "starting" /\ row[t].autostart))

\* The panel dies and boots: its children die with it, units do not.
Crash ==
    /\ crashes < MaxCrashes /\ crashes' = crashes + 1
    /\ req' = [r \in Requests |-> Idle]
    /\ tracked' = {}
    /\ up' = IF survives THEN up ELSE {}
    /\ adrift' = adrift \cup up'
    /\ boot' = {t \in Tunnels : Wanted(t)}
    /\ UNCHANGED <<row, mixed, missed, unremoved, stopped, raced, issued, survives, requests>>

Rehydrate(t) ==
    /\ t \in boot /\ boot' = boot \ {t}
    /\ Track(t)
    /\ UNCHANGED <<row, req, mixed, unremoved, stopped, raced, bounds>>

\* A boot that only logs the failure.
MutRehydrateFails(t) ==
    /\ t \in boot /\ boot' = boot \ {t}
    /\ RollBack(t)
    /\ UNCHANGED <<row, req, mixed, unremoved, stopped, raced, bounds>>

RehydrateFails(t) ==
    /\ t \in boot /\ boot' = boot \ {t}
    /\ RollBack(t)
    /\ row' = [row EXCEPT ![t].state = "stopped"]
    /\ UNCHANGED <<req, mixed, unremoved, stopped, raced, bounds>>

Step(r) ==
    \/ Find(r) \/ List(r) \/ Turn(r) \/ BatchEnds(r)
    \/ CheckPort(r) \/ Insert(r) \/ Load(r) \/ Deploy(r) \/ DeployFails(r) \/ FailCreate(r)
    \/ Act(r) \/ ActFails(r) \/ Ask(r) \/ Write(r)
    \/ Remove(r) \/ RemoveFails(r) \/ Drop(r)

Next ==
    \/ \E r \in Requests, t \in Tunnels :
        Create(r, t) \/ Delete(r, t) \/ \E action \in Actions : Action(r, t, action)
    \/ \E r \in Requests, ts \in SUBSET Tunnels, action \in Actions : ts # {} /\ Batch(r, ts, action)
    \/ \E r \in Requests : Step(r)
    \/ \E t \in Tunnels : Die(t) \/ Rehydrate(t) \/ RehydrateFails(t)
    \/ Crash

Spec == Init /\ [][Next]_vars

-----------------------------------------------------------------------------
(* Correctness *)

\* A row that says running belongs to a tunnel the engine tracks, so that a
\* stop or a delete reaches its processes: over failed deploys, failed starts,
\* batches, restarts of the panel and failed rehydrations
\* (instrumentation.ts:30-43).  Requests on one tunnel that overlapped void it.
RunningIsTracked ==
    \A t \in Tunnels \ mixed :
        Quiet(t) /\ row[t] # NoRow /\ row[t].state = "running" => t \in tracked

\* A row says starting only while the request that creates it is in flight, or
\* after the panel died in it (tunnels/route.ts:112-114, 131-144).
StartingIsCreating ==
    crashes = 0 => \A t \in Tunnels \ mixed :
        Quiet(t) /\ row[t] # NoRow => row[t].state # "starting" /\ row[t].status # "starting"

\* No process runs without a row: the row is inserted before the deploy and
\* deleted after the removal.  Left are a removal that failed or did not reach
\* a process, a unit that outlived its panel or a failed deploy, and a delete
\* that overlapped another request (tunnels/route.ts:112-114,
\* tunnels/[id]/route.ts:76-85).
NoGhost ==
    \A t \in up \ (mixed \cup unremoved \cup adrift \cup missed) : Quiet(t) => row[t] # NoRow

\* A stop that returned ok stays a stop: nothing runs until somebody starts the
\* tunnel, and a panel that boots does not start it either, over failed starts
\* and deploys before it.  Left are units that outlived the panel or a failed
\* deploy and that no deploy has taken over, and processes that a stop passed
\* over because they had crashed and were about to be started again
\* (engine.ts:517-534, instrumentation.ts:15-20).
StopIsKept ==
    \A t \in stopped \ (mixed \cup adrift \cup missed) : Quiet(t) => t \notin up

\* When requests take turns, no two rows hold one port, over failures and
\* restarts (tunnels/route.ts:101-110, actions/route.ts:55-67).
PortHeldOnce ==
    ~raced => Cardinality({t \in Tunnels : Holds(t)}) <= 1
=============================================================================
