-------------------------- MODULE ForwardSupervisor --------------------------
(***************************************************************************)
(* The port-forward supervisor (apps/web/src/lib/forward-supervisor.ts,    *)
(* forward-supervisor-logic.ts), the coalescer it runs under               *)
(* (packages/tunnel-core/src/bounded.ts) and the API routes that write     *)
(* rules and ask for a reconcile (apps/web/app/api/port-forwards).         *)
(*                                                                         *)
(* All rules of a node form one group, which the engine runs as one tunnel *)
(* on that node.  A run reads the rules, deploys the groups in parallel,   *)
(* removes the groups that have no rules left and writes the statuses.     *)
(* The routes do not run it themselves: they join the run in flight.       *)
(*                                                                         *)
(* The engine plans only the rules whose direction fits the node's type:   *)
(* on a remote node one unit for each protocol and port, on the panel's    *)
(* own host one process for all.  A unit is known by its name, so one that *)
(* outlived the panel or a failed teardown is met again by the next deploy *)
(* of that name, and starting what runs already changes nothing.           *)
(*                                                                         *)
(* Left out: nodes that come and go, a crash that the respawn mends, where *)
(* a rule forwards to; rows are written one at a time.                     *)
(***************************************************************************)
EXTENDS FiniteSets, Naturals

CONSTANTS
    Rules, Nodes, Requests,
    Panel,          \* the nodes that are the panel's own host
    Ports,          \* protocols and source ports a rule may have
    Places,         \* bound: the nodes and ports a rule is put on, and whether its
                    \* direction then fits the type of the node
    Disabled, Absent,
    MaxWrites,      \* bound: writes of rules in a behaviour
    MaxFaults       \* bound: failures, deaths and panel restarts in a behaviour

Placed == [node : Nodes, port : Ports, fits : BOOLEAN]

ASSUME SupervisorAssumption ==
    /\ Panel \subseteq Nodes /\ Places \subseteq Placed
    /\ MaxWrites \in Nat /\ MaxFaults \in Nat
    /\ Disabled # Absent /\ {Disabled, Absent} \cap Placed = {}

VARIABLES
    db,         \* each rule's row: the node and port it is enabled on and whether
                \* its direction fits the node's type, or that it is not there
    status,     \* each row's status column
    units,      \* what is installed on a node: which rule a unit was started for,
                \* on which port, whether it is up; stray (history) if the engine
                \* failed to replace or remove it, or the panel ended
    tracked,    \* the listeners whose handles the engine tracks for the node's tunnel
    active,     \* activeGroups
    run,        \* the run in flight: booting is the one of register()
    stage,      \* where the run is with each node
    group,      \* what the run deploys on each node
    result,     \* the statuses the run will write
    pc,         \* where each request is suspended
    unseen,     \* history: a row was written that no run has read
    unwritten,  \* history: the rows whose status the last run failed to write
    writes, faults

data == <<db, status, unseen, unwritten, writes>>
engine == <<units, tracked>>
vars == <<db, status, units, tracked, active, run, stage, group, result, pc, unseen, unwritten,
          writes, faults>>

Rows == Places \cup {Disabled, Absent}
Listeners == [rule : Rules, port : Ports, fits : BOOLEAN]
Units == [rule : Rules, port : Ports, up : BOOLEAN, stray : BOOLEAN]
Statuses == {"pending", "running", "stopped", "error"}
NoRun == [boot |-> FALSE, at |-> "none"]
Booting == [boot |-> TRUE, at |-> "loading"]

TypeOK ==
    /\ db \in [Rules -> Rows]
    /\ status \in [Rules -> Statuses]
    /\ units \in [Nodes -> SUBSET Units]
    /\ tracked \in [Nodes -> SUBSET Listeners] /\ active \in SUBSET Nodes
    /\ run \in [boot : BOOLEAN, at : {"none", "loading", "deploying", "removing"}]
    /\ stage \in [Nodes -> {"none", "todo", "replacing", "up", "failed", "stale"}]
    /\ group \in [Nodes -> SUBSET Listeners]
    /\ result \in [Rules -> Statuses \cup {"absent"}]
    /\ pc \in [Requests -> {"idle", "written", "waiting"}]
    /\ unseen \in BOOLEAN /\ unwritten \in SUBSET Rules
    /\ writes \in 0..MaxWrites /\ faults \in 0..MaxFaults

\* The panel starts, on the rows its last life left behind.
Init ==
    /\ db \in [Rules -> Rows]
    /\ status = [r \in Rules |-> "pending"]
    /\ units = [n \in Nodes |-> {}]
    /\ tracked = [n \in Nodes |-> {}] /\ active = {}
    /\ run = Booting
    /\ stage = [n \in Nodes |-> "none"]
    /\ group = [n \in Nodes |-> {}]
    /\ result = [r \in Rules |-> "absent"]
    /\ pc = [q \in Requests |-> "idle"]
    /\ unseen = TRUE /\ unwritten = {} /\ writes = 0 /\ faults = 0

-----------------------------------------------------------------------------
(* Requests *)

Booted == ~run.boot

\* POST, PUT or DELETE of a rule, up to the reconcile.  The port collision
\* check before it is left out: two requests may both pass it.
Write(q, r) ==
    /\ pc[q] = "idle" /\ Booted
    /\ writes < MaxWrites /\ writes' = writes + 1
    /\ \E to \in Rows :
        /\ db[r] # Absent \/ to # Absent
        /\ db' = [db EXCEPT ![r] = to]
    /\ status' = [status EXCEPT ![r] = "pending"]
    /\ unseen' = TRUE
    /\ pc' = [pc EXCEPT ![q] = "written"]
    /\ UNCHANGED <<engine, active, run, stage, group, result, unwritten, faults>>

\* reconcilePortForwardsSoon(): starts a run, or joins the one in flight.
ReconcileSoon(q) ==
    /\ pc[q] = "written"
    /\ pc' = [pc EXCEPT ![q] = "waiting"]
    /\ run' = IF run.at = "none" THEN [boot |-> FALSE, at |-> "loading"] ELSE run
    /\ UNCHANGED <<data, engine, active, stage, group, result, faults>>

\* The grace period passes: the request returns, the run goes on.
GraceExpires(q) ==
    /\ pc[q] = "waiting"
    /\ pc' = [pc EXCEPT ![q] = "idle"]
    /\ UNCHANGED <<data, engine, active, run, stage, group, result, faults>>

-----------------------------------------------------------------------------
(* The run *)

\* The run settles: it and everyone who joined it return.
RunEnds ==
    /\ run' = NoRun
    /\ pc' = [q \in Requests |-> IF pc[q] = "waiting" THEN "idle" ELSE pc[q]]
    /\ stage' = [n \in Nodes |-> "none"]
    /\ group' = [n \in Nodes |-> {}]
    /\ result' = [r \in Rules |-> "absent"]

\* Something fails, or ends by itself.
Fault == faults < MaxFaults /\ faults' = faults + 1

Enabled(n) == {l \in Listeners : db[l.rule] = [node |-> n, port |-> l.port, fits |-> l.fits]}

\* A plan that keeps the duplicates.
MutGroups(n) == {Enabled(n)}

\* planGroups(): one rule per port, whichever the query returned first.
Groups(n) ==
    {g \in SUBSET Enabled(n) :
        /\ \A l, k \in g : l.port = k.port => l = k
        /\ \A l \in Enabled(n) : \E k \in g : l.port = k.port}

\* The rules are read: disabled ones are stopped, duplicates are in error.
Load ==
    /\ run.at = "loading"
    /\ run' = [run EXCEPT !.at = "deploying"]
    /\ group' \in {g \in [Nodes -> UNION {Groups(n) : n \in Nodes}] : \A n \in Nodes : g[n] \in Groups(n)}
    /\ result' = [r \in Rules |-> CASE db[r] = Absent -> "absent"
                                    [] db[r] = Disabled -> "stopped"
                                    [] OTHER -> "error"]
    /\ stage' = [n \in Nodes |-> IF Enabled(n) # {} THEN "todo" ELSE "none"]
    /\ unseen' = FALSE
    /\ UNCHANGED <<db, status, unwritten, writes, engine, active, pc, faults>>

\* The query fails: the run rejects, which its callers only log.
LoadFails ==
    /\ run.at = "loading" /\ Fault
    /\ RunEnds
    /\ UNCHANGED <<data, engine, active>>

-----------------------------------------------------------------------------
(* The engine on one node *)

\* planPortForward(): the rules of the group that run on this type of node.
Planned(n) == {l \in group[n] : l.fits}

\* One unit serves both, or is named alike.
SameUnit(n, u, v) == n \in Panel \/ u.port = v.port

\* Some of these units: each with all that it serves.
Some(n, us) == {s \in SUBSET us : \A u \in s, v \in us : SameUnit(n, u, v) => v \in s}

Strays(us) == {[u EXCEPT !.stray = TRUE] : u \in us}

\* The units that the tracked handles name.
Handled(n) == {u \in units[n] : \E l \in tracked[n] : SameUnit(n, u, l)}

\* The tracked handles are disposed, without a look at whether the commands failed.
Dispose(n) ==
    /\ tracked' = [tracked EXCEPT ![n] = {}]
    /\ \/ units' = [units EXCEPT ![n] = @ \ Handled(n)] /\ UNCHANGED faults
       \/ /\ Fault
          /\ \E lost \in Some(n, Handled(n)) :
                units' = [units EXCEPT ![n] = (@ \ Handled(n)) \cup Strays(lost)]

\* What the start of the planned units leaves alone: other units, and those of
\* the same name that are up.
Kept(n) == {u \in units[n] : u.up \/ \A l \in Planned(n) : ~SameUnit(n, u, l)}

Started(n) ==
    Kept(n) \cup {[rule |-> l.rule, port |-> l.port, up |-> TRUE, stray |-> FALSE] :
                    l \in {k \in Planned(n) : \A u \in Kept(n) : ~SameUnit(n, u, k)}}

-----------------------------------------------------------------------------
(* The run, continued *)

\* engine.deploy() disposes the predecessor it tracks ...
Replace(n) ==
    /\ run.at = "deploying" /\ stage[n] = "todo"
    /\ stage' = [stage EXCEPT ![n] = "replacing"]
    /\ Dispose(n)
    /\ UNCHANGED <<data, active, run, group, result, pc>>

\* ... and starts the units of its plan ...
Deployed(n) ==
    /\ run.at = "deploying" /\ stage[n] = "replacing" /\ Planned(n) # {}
    /\ stage' = [stage EXCEPT ![n] = "up"]
    /\ units' = [units EXCEPT ![n] = Started(n)]
    /\ tracked' = [tracked EXCEPT ![n] = Planned(n)]
    /\ UNCHANGED <<data, active, run, group, result, pc, faults>>

\* ... or throws: the plan is empty, or a file or a start failed.  The units
\* started before are disposed; the one that failed may run all the same.
DeployFails(n) ==
    /\ run.at = "deploying" /\ stage[n] = "replacing"
    /\ stage' = [stage EXCEPT ![n] = "failed"]
    /\ \/ Planned(n) = {} /\ UNCHANGED <<units, faults>>
       \/ /\ Planned(n) # {} /\ Fault
          /\ \E s \in Some(n, Started(n)) :
                /\ \A u \in units[n] \ s : \E l \in Planned(n) : SameUnit(n, u, l)
                /\ units' = [units EXCEPT ![n] = Strays(s)]
    /\ UNCHANGED <<data, tracked, active, run, group, result, pc>>

\* buildSpec() throws, on the node's credentials: the predecessor stays.
BuildFails(n) ==
    /\ run.at = "deploying" /\ stage[n] = "todo" /\ Fault
    /\ stage' = [stage EXCEPT ![n] = "failed"]
    /\ units' = [units EXCEPT ![n] = Strays(@)]
    /\ UNCHANGED <<data, tracked, active, run, group, result, pc>>

AtStage(s) == {n \in Nodes : stage[n] = s}
Has(n) == tracked[n] # {}

\* A run that reports what it tried and not what is up.
MutConfirmed == {l.rule : l \in UNION {group[n] : n \in AtStage("up") \cup AtStage("failed")}}

\* Rules whose deploy resolved and whose tunnel the engine tracks.
Confirmed == {l.rule : l \in UNION {group[n] : n \in {m \in AtStage("up") : Has(m)}}}

\* A teardown that looks only at the groups of this run.
MutStale == {}

\* Active groups whose node has no enabled rule left.
Stale == {n \in active \cup AtStage("up") : group[n] = {}}

\* Every deploy has settled: statuses are decided, stale groups are found.
Settle ==
    /\ run.at = "deploying" /\ AtStage("todo") \cup AtStage("replacing") = {}
    /\ run' = [run EXCEPT !.at = "removing"]
    /\ result' = [r \in Rules |-> IF r \in Confirmed THEN "running" ELSE result[r]]
    /\ active' = active \cup AtStage("up")
    /\ stage' = [n \in Nodes |-> IF n \in Stale THEN "stale" ELSE "none"]
    /\ UNCHANGED <<data, engine, group, pc, faults>>

\* A stale group is removed, and forgotten even when its removal failed, which
\* engine.remove() reports only if it takes too long.
Remove(n) ==
    /\ run.at = "removing" /\ stage[n] = "stale"
    /\ stage' = [stage EXCEPT ![n] = "none"]
    /\ \/ Dispose(n)
       \/ /\ Has(n) /\ Fault /\ UNCHANGED tracked
          /\ \E late \in Some(n, Handled(n)) :
                units' = [units EXCEPT ![n] = (@ \ Handled(n)) \cup Strays(late)]
    /\ active' = active \ {n}
    /\ UNCHANGED <<data, run, group, result, pc>>

\* The statuses are written, over whatever the rows say by now; a row that is
\* gone is skipped, and a write that fails does not stop the others.
Persist ==
    /\ run.at = "removing" /\ AtStage("stale") = {}
    /\ \E failed \in SUBSET {r \in Rules : result[r] # "absent" /\ db[r] # Absent} :
        /\ IF failed = {} THEN UNCHANGED faults ELSE Fault
        /\ status' = [r \in Rules |-> IF result[r] # "absent" /\ db[r] # Absent /\ r \notin failed
                                      THEN result[r] ELSE status[r]]
        /\ unwritten' = failed
    /\ RunEnds
    /\ UNCHANGED <<db, unseen, writes, engine, active>>

-----------------------------------------------------------------------------

\* A process ends by itself for good, or a teardown that its caller gave up on
\* reaches it late.
Dies(n) ==
    /\ Fault
    /\ \E u \in units[n] :
        /\ u.up
        /\ units' = [units EXCEPT ![n] = {IF SameUnit(n, u, v) THEN [v EXCEPT !.up = FALSE] ELSE v : v \in @}]
    /\ UNCHANGED <<data, tracked, active, run, stage, group, result, pc>>

\* The panel stops and starts again: the units on the nodes stay.
Crash ==
    /\ Fault
    /\ units' = [n \in Nodes |-> Strays(units[n])]
    /\ tracked' = [n \in Nodes |-> {}] /\ active' = {}
    /\ run' = Booting
    /\ stage' = [n \in Nodes |-> "none"]
    /\ group' = [n \in Nodes |-> {}]
    /\ result' = [r \in Rules |-> "absent"]
    /\ pc' = [q \in Requests |-> "idle"]
    /\ unseen' = TRUE
    /\ UNCHANGED <<db, status, unwritten, writes>>

\* No run: the panel waits for requests.
Idle == run.at = "none" /\ UNCHANGED vars

Next ==
    \/ \E q \in Requests :
        \/ \E r \in Rules : Write(q, r)
        \/ ReconcileSoon(q) \/ GraceExpires(q)
    \/ Load \/ LoadFails \/ Settle \/ Persist \/ Crash \/ Idle
    \/ \E n \in Nodes :
        Replace(n) \/ Deployed(n) \/ DeployFails(n) \/ BuildFails(n) \/ Remove(n) \/ Dies(n)

Spec == Init /\ [][Next]_vars

-----------------------------------------------------------------------------
(* Properties *)

\* Nothing under way: no request and no run.
Quiet == run.at = "none" /\ \A q \in Requests : pc[q] = "idle"

\* The rows whose status is that of a run which had read every write.
Reported(r) == Quiet /\ ~unseen /\ db[r] # Absent /\ r \notin unwritten

\* A unit was started for a listener, or holds its name as a stray.
Of(u, l) == u.rule = l.rule /\ u.port = l.port
Holds(n, u, l) == SameUnit(n, u, l) /\ (u.stray \/ u.rule = l.rule)

\* "State reflects reality" (forward-supervisor-logic.ts 16-18): at rest no rule is
\* still pending, exactly the disabled rules are reported stopped, and a rule
\* reported running has its unit on its node: started for it, since then perhaps
\* dead, or a stray one that held the name.  It needs a direction that fits the node.
StatusReflects ==
    \A r \in Rules : Reported(r) =>
        /\ status[r] # "pending"
        /\ status[r] = "stopped" <=> db[r] = Disabled
        /\ status[r] = "running" => \E n \in Nodes : \E l \in Enabled(n) :
            l.rule = r /\ (l.fits => \E u \in units[n] : Holds(n, u, l))

\* At rest no unit serves a rule that was deleted, disabled or moved away
\* (planGroupsAndApply, 182-197), but one that a failed deploy or teardown or the
\* end of the panel left behind.
NothingStaleServes ==
    Quiet /\ ~unseen => \A n \in Nodes : \A u \in units[n] :
        u.stray \/ \E l \in Enabled(n) : Of(u, l)

\* Of two rules stored on one port of a node, since both requests had passed the
\* routes' check for a free port, at most one is reported running (planGroups,
\* 78-83, 117-121): which one, the order of the rows decides at every run.
OnePerPort ==
    \A n \in Nodes : \A l, k \in Enabled(n) :
        /\ l # k /\ l.port = k.port
        /\ Reported(l.rule) /\ Reported(k.rule)
        => ~(status[l.rule] = "running" /\ status[k.rule] = "running")

\* What is reported running is served, whatever the direction and whatever was on the
\* node.  Does not hold: a rule whose direction does not fit is not planned, and a
\* unit that outlived the panel keeps its old command.
RunningServed ==
    \A r \in Rules : Reported(r) /\ status[r] = "running" =>
        \E n \in Nodes : \E l \in Enabled(n), u \in units[n] : l.rule = r /\ Of(u, l)

\* "a change that lands mid-run schedules exactly one follow-up so the last
\* write still gets applied" (forward-supervisor.ts 123-124).  Does not hold:
\* the routes join the run in flight, which may have read the rows already.
WritesApplied == Quiet => ~unseen
=============================================================================
