----------------------- MODULE ForwardSupervisor_proofs -----------------------
(***************************************************************************)
(* Proofs about ForwardSupervisor, for any number of rules, ports, nodes   *)
(* and requests, for remote nodes and the panel's own, and for every set   *)
(* of failures, deaths and restarts.                                       *)
(*                                                                         *)
(* The properties speak of the panel at rest.  The invariant says what a   *)
(* run in flight has established by each of its awaits, and what it leaves *)
(* behind when it settles; the history variable `unseen` separates what    *)
(* depends on the rows from what does not.                                 *)
(***************************************************************************)
EXTENDS ForwardSupervisor, TLAPS

-----------------------------------------------------------------------------
(* The inductive invariant *)

\* A plan has no port twice.
OncePerPort(listeners) == \A l, k \in listeners : l.port = k.port => l = k
PortsApart == \A n \in Nodes : OncePerPort(group[n])

AllStray(n) == \A u \in units[n] : u.stray
AllOf(n, ls) == \A u \in units[n] : u.stray \/ \E l \in ls : Of(u, l)
AllHeld(n, ls) == \A l \in ls : \E u \in units[n] : Holds(n, u, l)

\* A unit that is not a stray is one that a tracked handle started, on a node whose
\* group the supervisor has in hand or is about to.
InHand ==
    \A n \in Nodes :
        /\ AllOf(n, tracked[n])
        /\ AllStray(n) \/ n \in active \/ (run.at = "deploying" /\ stage[n] = "up")

\* How far the run has come with each node.
Deploying(n) ==
    /\ stage[n] \in {"none", "todo", "replacing", "up", "failed"}
    /\ stage[n] = "none" <=> group[n] = {}
    /\ stage[n] \in {"replacing", "failed"} => AllStray(n)
    /\ stage[n] = "up" => AllOf(n, group[n]) /\ AllHeld(n, Planned(n))

Removing(n) ==
    /\ stage[n] \in {"none", "stale"}
    /\ stage[n] = "stale" => group[n] = {}
    /\ stage[n] # "stale" => AllOf(n, group[n])

RunOnItsWay ==
    /\ run.at \in {"none", "loading"} => \A n \in Nodes : stage[n] = "none"
    /\ run.at = "deploying" => \A n \in Nodes : Deploying(n)
    /\ run.at = "removing" => \A n \in Nodes : Removing(n)

\* A rule of the plan that a unit was started for, or a stray holds its name.
Served(r) ==
    \E n \in Nodes : \E l \in group[n] :
        l.rule = r /\ (l.fits => \E u \in units[n] : Holds(n, u, l))

\* The plan and the statuses to write are those of the rows as they still are.
PlanCurrent ==
    ~unseen /\ run.at \in {"deploying", "removing"} =>
        /\ \A n \in Nodes : group[n] \subseteq Enabled(n)
        /\ \A r \in Rules :
            /\ result[r] # "pending"
            /\ result[r] = "absent" <=> db[r] = Absent
            /\ result[r] = "stopped" <=> db[r] = Disabled
            /\ result[r] = "running" => run.at = "removing" /\ Served(r)

\* What a run has left behind, until another reads the rows.
StatusTrue(r) ==
    /\ status[r] # "pending"
    /\ status[r] = "stopped" <=> db[r] = Disabled
    /\ status[r] = "running" => \E n \in Nodes : \E l \in Enabled(n) :
        l.rule = r /\ (l.fits => \E u \in units[n] : Holds(n, u, l))

\* The row is there, and the run could write its status.
Written(r) == db[r] # Absent /\ r \notin unwritten

\* Of two rules on one port at most one is reported running.
RunApart ==
    \A n \in Nodes : \A l, k \in Enabled(n) :
        /\ l # k /\ l.port = k.port
        /\ Written(l.rule) /\ Written(k.rule)
        => ~(status[l.rule] = "running" /\ status[k.rule] = "running")

Settled ==
    ~unseen /\ run.at \in {"none", "loading"} =>
        /\ \A r \in Rules : Written(r) => StatusTrue(r)
        /\ \A n \in Nodes : AllOf(n, Enabled(n))
        /\ RunApart

IInv == TypeOK /\ PortsApart /\ InHand /\ RunOnItsWay /\ PlanCurrent /\ Settled

-----------------------------------------------------------------------------
(* Facts about plans *)

\* A rule enabled somewhere is neither disabled nor gone, and nowhere else.
LEMMA EnabledRows ==
  ASSUME TypeOK, NEW n \in Nodes, NEW l \in Enabled(n)
  PROVE  /\ l \in Listeners /\ l.rule \in Rules /\ db[l.rule] \notin {Disabled, Absent}
         /\ \A m \in Nodes : \A k \in Enabled(m) : k.rule = l.rule => m = n /\ k = l
<1>1. l \in Listeners /\ db[l.rule] = [node |-> n, port |-> l.port, fits |-> l.fits]
  BY DEF Enabled
<1>2. l.rule \in Rules /\ db[l.rule] \in Rows
  BY <1>1 DEF Listeners, TypeOK
<1>3. db[l.rule] \notin {Disabled, Absent}
  <2>1. [node |-> n, port |-> l.port, fits |-> l.fits] \in Placed
    BY <1>1 DEF Listeners, Placed
  <2>2. QED BY <1>1, <2>1, SupervisorAssumption
<1>4. ASSUME NEW m \in Nodes, NEW k \in Enabled(m), k.rule = l.rule
      PROVE  m = n /\ k = l
  <2>1. k \in Listeners /\ db[l.rule] = [node |-> m, port |-> k.port, fits |-> k.fits]
    BY <1>4 DEF Enabled
  <2>2. [node |-> m, port |-> k.port, fits |-> k.fits] = [node |-> n, port |-> l.port, fits |-> l.fits]
    BY <1>1, <2>1
  <2>3. m = n /\ k.port = l.port /\ k.fits = l.fits
    BY <2>2
  <2>4. QED BY <1>1, <1>4, <2>1, <2>3 DEF Listeners
<1>5. QED BY <1>1, <1>2, <1>3, <1>4

\* A plan is of enabled rules, one for each port, and of some if there are any.
LEMMA GroupsPlan ==
  ASSUME NEW n \in Nodes, NEW g \in Groups(n)
  PROVE  g \subseteq Enabled(n) /\ OncePerPort(g) /\ (g = {} <=> Enabled(n) = {})
  BY DEF Groups, OncePerPort

\* What Load leaves: a plan for each node.
LEMMA LoadPlans ==
  ASSUME Load
  PROVE  /\ group' \in [Nodes -> SUBSET Listeners]
         /\ \A n \in Nodes : group'[n] \in Groups(n)
<1>1. \A n \in Nodes : group'[n] \in Groups(n)
  BY DEF Load
<1>2. group' \in [Nodes -> UNION {Groups(n) : n \in Nodes}]
  BY DEF Load
<1>3. \A n \in Nodes : group'[n] \in SUBSET Listeners
  BY <1>1, GroupsPlan DEF Enabled
<1>4. QED BY <1>1, <1>2, <1>3

-----------------------------------------------------------------------------
(* What the actions do to the units *)

\* Fault only counts.
LEMMA FaultCounts ==
  ASSUME faults \in 0..MaxFaults, Fault
  PROVE  faults' \in 0..MaxFaults
  BY SupervisorAssumption DEF Fault

\* Units made strays are units, and strays.
LEMMA StraysStray ==
  ASSUME NEW us \in SUBSET Units
  PROVE  Strays(us) \in SUBSET Units /\ \A u \in Strays(us) : u.stray = TRUE
<1>1. ASSUME NEW u \in us
      PROVE  [u EXCEPT !.stray = TRUE] \in Units /\ [u EXCEPT !.stray = TRUE].stray = TRUE
  BY DEF Units
<1>2. QED BY <1>1 DEF Strays

\* What happens on one node leaves the others alone, and the node with strays.
OnlyStraysLeft(n) ==
    /\ units' \in [Nodes -> SUBSET Units]
    /\ \A m \in Nodes \ {n} : units'[m] = units[m]
    /\ \A u \in units'[n] : u.stray

\* A unit that no tracked handle names is a stray.
LEMMA UnhandledStray ==
  ASSUME TypeOK, InHand, NEW n \in Nodes, NEW u \in units[n] \ Handled(n)
  PROVE  u.stray
<1>1. ASSUME NEW l \in tracked[n], Of(u, l) PROVE FALSE
  <2>1. SameUnit(n, u, l)
    BY <1>1 DEF Of, SameUnit
  <2>2. QED BY <1>1, <2>1 DEF Handled
<1>2. QED BY <1>1 DEF InHand, AllOf

\* So the units that a teardown of the tracked handles leaves are strays.
LEMMA TeardownLeaves ==
  ASSUME TypeOK, InHand, NEW n \in Nodes, NEW lost \in SUBSET Handled(n),
         units' = [units EXCEPT ![n] = (@ \ Handled(n)) \cup Strays(lost)]
  PROVE  OnlyStraysLeft(n)
<1>1. units[n] \in SUBSET Units /\ lost \in SUBSET Units
  BY DEF TypeOK, Handled
<1>2. Strays(lost) \in SUBSET Units /\ \A u \in Strays(lost) : u.stray
  BY <1>1, StraysStray
<1>3. units'[n] = (units[n] \ Handled(n)) \cup Strays(lost)
  BY DEF TypeOK
<1>4. QED BY <1>1, <1>2, <1>3, UnhandledStray DEF OnlyStraysLeft, TypeOK

\* A disposal of the tracked handles.
LEMMA Disposed ==
  ASSUME TypeOK, InHand, NEW n \in Nodes, Dispose(n)
  PROVE  /\ OnlyStraysLeft(n) /\ tracked' = [tracked EXCEPT ![n] = {}]
         /\ faults' \in 0..MaxFaults
<1>1. CASE units' = [units EXCEPT ![n] = @ \ Handled(n)] /\ UNCHANGED faults
  <2>1. units' = [units EXCEPT ![n] = (@ \ Handled(n)) \cup Strays({})]
    BY <1>1 DEF Strays
  <2>2. {} \in SUBSET Handled(n)
    OBVIOUS
  <2>3. OnlyStraysLeft(n)
    BY <2>1, <2>2, TeardownLeaves
  <2>4. QED BY <1>1, <2>3 DEF Dispose, TypeOK
<1>2. CASE /\ Fault
           /\ \E lost \in Some(n, Handled(n)) :
                units' = [units EXCEPT ![n] = (@ \ Handled(n)) \cup Strays(lost)]
  <2>1. PICK lost \in Some(n, Handled(n)) :
                units' = [units EXCEPT ![n] = (@ \ Handled(n)) \cup Strays(lost)]
    BY <1>2
  <2>2. lost \in SUBSET Handled(n)
    BY DEF Some
  <2>3. QED BY <1>2, <2>1, <2>2, TeardownLeaves, FaultCounts DEF Dispose, TypeOK
<1>3. QED BY <1>1, <1>2 DEF Dispose

\* A removal, in time or late.
LEMMA RemoveLeaves ==
  ASSUME TypeOK, InHand, NEW n \in Nodes, Remove(n)
  PROVE  /\ OnlyStraysLeft(n) /\ faults' \in 0..MaxFaults
         /\ tracked' \in {tracked, [tracked EXCEPT ![n] = {}]}
<1>1. CASE Dispose(n)
  BY <1>1, Disposed
<1>2. CASE /\ Has(n) /\ Fault /\ UNCHANGED tracked
           /\ \E late \in Some(n, Handled(n)) :
                units' = [units EXCEPT ![n] = (@ \ Handled(n)) \cup Strays(late)]
  <2>1. PICK late \in Some(n, Handled(n)) :
                units' = [units EXCEPT ![n] = (@ \ Handled(n)) \cup Strays(late)]
    BY <1>2
  <2>2. late \in SUBSET Handled(n)
    BY DEF Some
  <2>3. QED BY <1>2, <2>1, <2>2, TeardownLeaves, FaultCounts DEF TypeOK
<1>3. QED BY <1>1, <1>2 DEF Remove

\* The start of a plan gives units.
LEMMA StartedUnits ==
  ASSUME TypeOK, NEW n \in Nodes
  PROVE  Started(n) \in SUBSET Units
<1>1. Kept(n) \in SUBSET Units
  BY DEF Kept, TypeOK
<1>2. ASSUME NEW l \in Planned(n)
      PROVE  [rule |-> l.rule, port |-> l.port, up |-> TRUE, stray |-> FALSE] \in Units
  BY DEF Planned, Units, Listeners, TypeOK
<1>3. QED BY <1>1, <1>2 DEF Started

\* A deploy that resolves: every listener of the plan has a unit, or a stray holds
\* its name; and no other unit but strays is left.
LEMMA DeployedServes ==
  ASSUME TypeOK, NEW n \in Nodes, Deployed(n), AllStray(n)
  PROVE  /\ units' \in [Nodes -> SUBSET Units]
         /\ \A m \in Nodes \ {n} : units'[m] = units[m]
         /\ tracked' = [tracked EXCEPT ![n] = Planned(n)]
         /\ AllOf(n, Planned(n))' /\ AllHeld(n, Planned(n))'
<1>0. group' = group /\ Planned(n)' = Planned(n)
  BY DEF Deployed, Planned
<1>1. units' = [units EXCEPT ![n] = Started(n)] /\ tracked' = [tracked EXCEPT ![n] = Planned(n)]
  BY DEF Deployed
<1>2. units'[n] = Started(n) /\ \A m \in Nodes \ {n} : units'[m] = units[m]
  BY <1>1 DEF TypeOK
<1>3. units' \in [Nodes -> SUBSET Units]
  BY <1>1, StartedUnits DEF TypeOK
<1>4. ASSUME NEW u \in Started(n) PROVE u.stray \/ \E l \in Planned(n) : Of(u, l)
  <2>1. CASE u \in Kept(n)
    BY <2>1 DEF Kept, AllStray
  <2>2. CASE u \notin Kept(n)
    <3>1. PICK l \in Planned(n) : u = [rule |-> l.rule, port |-> l.port, up |-> TRUE, stray |-> FALSE]
      BY <2>2 DEF Started
    <3>2. QED BY <3>1 DEF Of
  <2>3. QED BY <2>1, <2>2
<1>5. ASSUME NEW l \in Planned(n) PROVE \E u \in Started(n) : Holds(n, u, l)
  <2>1. CASE \E u \in Kept(n) : SameUnit(n, u, l)
    <3>1. PICK u \in Kept(n) : SameUnit(n, u, l)
      BY <2>1
    <3>2. u \in Started(n) /\ u.stray
      BY DEF Started, Kept, AllStray
    <3>3. QED BY <3>1, <3>2 DEF Holds
  <2>2. CASE \A u \in Kept(n) : ~SameUnit(n, u, l)
    <3> DEFINE v == [rule |-> l.rule, port |-> l.port, up |-> TRUE, stray |-> FALSE]
    <3>1. v \in Started(n)
      BY <2>2 DEF Started
    <3>2. Holds(n, v, l)
      BY DEF Holds, SameUnit
    <3>3. QED BY <3>1, <3>2
  <2>3. QED BY <2>1, <2>2
<1>6. AllOf(n, Planned(n))'
  BY <1>0, <1>2, <1>4 DEF AllOf
<1>7. AllHeld(n, Planned(n))'
  BY <1>0, <1>2, <1>5 DEF AllHeld
<1>8. QED BY <1>1, <1>2, <1>3, <1>6, <1>7

\* A deploy that fails leaves strays.
LEMMA FailedLeaves ==
  ASSUME TypeOK, NEW n \in Nodes, DeployFails(n), AllStray(n)
  PROVE  OnlyStraysLeft(n) /\ faults' \in 0..MaxFaults
<1>1. CASE UNCHANGED <<units, faults>>
  BY <1>1 DEF OnlyStraysLeft, AllStray, TypeOK
<1>2. CASE /\ Planned(n) # {} /\ Fault
           /\ \E s \in Some(n, Started(n)) :
                /\ \A u \in units[n] \ s : \E l \in Planned(n) : SameUnit(n, u, l)
                /\ units' = [units EXCEPT ![n] = Strays(s)]
  <2>1. PICK s \in Some(n, Started(n)) : units' = [units EXCEPT ![n] = Strays(s)]
    BY <1>2
  <2>2. s \in SUBSET Units
    BY StartedUnits DEF Some
  <2>3. Strays(s) \in SUBSET Units /\ \A u \in Strays(s) : u.stray
    BY <2>2, StraysStray
  <2>4. QED BY <1>2, <2>1, <2>3, FaultCounts DEF OnlyStraysLeft, TypeOK
<1>3. QED BY <1>1, <1>2 DEF DeployFails

\* So does one that fails before the engine is asked.
LEMMA BuildFailedLeaves ==
  ASSUME TypeOK, NEW n \in Nodes, BuildFails(n)
  PROVE  OnlyStraysLeft(n) /\ faults' \in 0..MaxFaults
<1>1. units' = [units EXCEPT ![n] = Strays(units[n])] /\ Fault
  BY DEF BuildFails
<1>2. Strays(units[n]) \in SUBSET Units /\ \A u \in Strays(units[n]) : u.stray
  BY StraysStray DEF TypeOK
<1>3. QED BY <1>1, <1>2, FaultCounts DEF OnlyStraysLeft, TypeOK

\* A death changes nothing but what is up.
Alike(us, vs) ==
    /\ \A u \in us : \E v \in vs : v.rule = u.rule /\ v.port = u.port /\ v.stray = u.stray
    /\ \A v \in vs : \E u \in us : v.rule = u.rule /\ v.port = u.port /\ v.stray = u.stray

LEMMA DeathsAlike ==
  ASSUME TypeOK, NEW n \in Nodes, Dies(n)
  PROVE  /\ units' \in [Nodes -> SUBSET Units] /\ faults' \in 0..MaxFaults
         /\ \A m \in Nodes : Alike(units[m], units'[m])
<1>1. PICK u \in units[n] :
        units' = [units EXCEPT ![n] = {IF SameUnit(n, u, v) THEN [v EXCEPT !.up = FALSE] ELSE v : v \in @}]
  BY DEF Dies
<1> DEFINE Down(v) == IF SameUnit(n, u, v) THEN [v EXCEPT !.up = FALSE] ELSE v
<1>2. units'[n] = {Down(v) : v \in units[n]} /\ \A m \in Nodes \ {n} : units'[m] = units[m]
  BY <1>1 DEF TypeOK
<1>3. ASSUME NEW v \in units[n]
      PROVE  /\ Down(v) \in Units
             /\ Down(v).rule = v.rule /\ Down(v).port = v.port /\ Down(v).stray = v.stray
  <2>1. v \in Units
    BY DEF TypeOK
  <2>2. QED BY <2>1 DEF Units
<1> HIDE DEF Down
<1>4. units' \in [Nodes -> SUBSET Units]
  <2>1. units'[n] \in SUBSET Units
    BY <1>2, <1>3
  <2>2. QED BY <1>1, <1>2, <2>1 DEF TypeOK
<1>5. Alike(units[n], units'[n])
  BY <1>2, <1>3 DEF Alike
<1>6. \A m \in Nodes \ {n} : Alike(units[m], units'[m])
  BY <1>2 DEF Alike
<1>7. faults' \in 0..MaxFaults
  BY FaultCounts DEF Dies, TypeOK
<1>8. QED BY <1>4, <1>5, <1>6, <1>7

\* What a death keeps.
LEMMA AlikeKeeps ==
  ASSUME NEW n \in Nodes, NEW ls, Alike(units[n], units'[n])
  PROVE  /\ AllStray(n) => \A u \in units'[n] : u.stray
         /\ AllOf(n, ls) => \A u \in units'[n] : u.stray \/ \E l \in ls : Of(u, l)
         /\ \A l : (\E u \in units[n] : Holds(n, u, l)) => \E u \in units'[n] : Holds(n, u, l)
  BY DEF Alike, AllStray, AllOf, Of, Holds, SameUnit

\* The panel's end makes strays of all.
LEMMA CrashLeaves ==
  ASSUME TypeOK, Crash
  PROVE  /\ units' \in [Nodes -> SUBSET Units] /\ faults' \in 0..MaxFaults
         /\ \A n \in Nodes : AllStray(n)'
<1>1. units' = [n \in Nodes |-> Strays(units[n])] /\ Fault
  BY DEF Crash
<1>2. \A n \in Nodes : Strays(units[n]) \in SUBSET Units /\ \A u \in Strays(units[n]) : u.stray
  BY StraysStray DEF TypeOK
<1>3. \A n \in Nodes : units'[n] = Strays(units[n])
  BY <1>1
<1>4. units' \in [Nodes -> SUBSET Units]
  BY <1>1, <1>2
<1>5. \A n \in Nodes : AllStray(n)'
  BY <1>2, <1>3 DEF AllStray
<1>6. QED BY <1>1, <1>4, <1>5, FaultCounts DEF TypeOK

-----------------------------------------------------------------------------
(* The invariant holds *)

\* It holds of the panel as it starts.
LEMMA InitInvariant == Init => IInv
<1> SUFFICES ASSUME Init PROVE IInv
  OBVIOUS
<1>1. TypeOK
  BY SupervisorAssumption DEF Init, TypeOK, Booting, Statuses
<1>2. PortsApart
  BY DEF Init, PortsApart, OncePerPort
<1>3. RunOnItsWay /\ InHand
  BY DEF Init, RunOnItsWay, Booting, InHand, AllOf, AllStray
<1>4. PlanCurrent /\ Settled
  BY DEF Init, PlanCurrent, Settled
<1>5. QED BY <1>1, <1>2, <1>3, <1>4 DEF IInv

\* What each step does to the units of a node: nothing, a death, strays only, or
\* what a deploy that resolved has started.
LEMMA UnitsStep ==
  ASSUME TypeOK, InHand, RunOnItsWay, [Next]_vars, NEW n \in Nodes
  PROVE  \/ units'[n] = units[n]
         \/ (Alike(units[n], units'[n]) /\ UNCHANGED <<tracked, active, run, stage, group, unseen>>)
         \/ AllStray(n)'
         \/ (Deployed(n) /\ AllStray(n))
<1> USE DEF data, engine
<1>1. ASSUME NEW m \in Nodes, OnlyStraysLeft(m) PROVE units'[n] = units[n] \/ AllStray(n)'
  BY <1>1 DEF OnlyStraysLeft, AllStray
<1>2. ASSUME NEW m \in Nodes, stage[m] = "replacing", run.at = "deploying" PROVE AllStray(m)
  BY <1>2 DEF RunOnItsWay, Deploying
<1>3. ASSUME NEW m \in Nodes, Deployed(m)
      PROVE  units'[n] = units[n] \/ (Deployed(n) /\ AllStray(n))
  <2>1. AllStray(m)
    BY <1>2, <1>3 DEF Deployed
  <2>2. m # n => units'[n] = units[n]
    BY <1>3, <2>1, DeployedServes
  <2>3. m = n => Deployed(n) /\ AllStray(n)
    BY <1>3, <2>1
  <2>4. QED BY <2>2, <2>3
<1>4. ASSUME NEW m \in Nodes, DeployFails(m) PROVE OnlyStraysLeft(m)
  BY <1>2, <1>4, FailedLeaves DEF DeployFails
<1>5. ASSUME NEW m \in Nodes, Dies(m)
      PROVE  /\ Alike(units[n], units'[n]) /\ UNCHANGED <<tracked, active, run, stage, group, unseen>>
  BY <1>5, DeathsAlike DEF Dies
<1>6. ASSUME NEW m \in Nodes, Replace(m) PROVE OnlyStraysLeft(m)
  BY <1>6, Disposed DEF Replace
<1>7. QED
  BY <1>1, <1>3, <1>4, <1>5, <1>6, RemoveLeaves, BuildFailedLeaves, CrashLeaves
  DEF Next, Write, ReconcileSoon, GraceExpires, Load, LoadFails, Settle, Persist, Idle, vars

\* Every step keeps the types.
LEMMA TypeStep ==
  ASSUME TypeOK, InHand, RunOnItsWay, [Next]_vars
  PROVE  TypeOK'
<1> USE SupervisorAssumption DEF data, engine
<1>1. ASSUME NEW q \in Requests, NEW r \in Rules, Write(q, r) PROVE TypeOK'
  BY <1>1 DEF Write, TypeOK, Statuses
<1>2. ASSUME NEW q \in Requests, ReconcileSoon(q) PROVE TypeOK'
  BY <1>2 DEF ReconcileSoon, TypeOK, Statuses
<1>3. ASSUME NEW q \in Requests, GraceExpires(q) PROVE TypeOK'
  BY <1>3 DEF GraceExpires, TypeOK, Statuses
<1>4. ASSUME Load PROVE TypeOK'
  <2>1. group' \in [Nodes -> SUBSET Listeners]
    BY <1>4, LoadPlans
  <2>2. result' \in [Rules -> Statuses \cup {"absent"}]
    BY <1>4 DEF Load, TypeOK, Statuses
  <2>3. stage' \in [Nodes -> {"none", "todo", "replacing", "up", "failed", "stale"}]
    BY <1>4 DEF Load
  <2>4. run' \in [boot : BOOLEAN, at : {"none", "loading", "deploying", "removing"}]
    BY <1>4 DEF Load, TypeOK
  <2>5. QED BY <1>4, <2>1, <2>2, <2>3, <2>4 DEF Load, TypeOK
<1>5. ASSUME LoadFails PROVE TypeOK'
  BY <1>5, FaultCounts DEF LoadFails, RunEnds, NoRun, TypeOK, Statuses
<1>6. ASSUME Settle PROVE TypeOK'
  <2>1. result' \in [Rules -> Statuses \cup {"absent"}]
    <3>1. result' = [r \in Rules |-> IF r \in Confirmed THEN "running" ELSE result[r]]
      BY <1>6 DEF Settle
    <3>2. QED BY <3>1 DEF TypeOK, Statuses
  <2>2. active' \in SUBSET Nodes
    BY <1>6 DEF Settle, AtStage, TypeOK
  <2>3. stage' \in [Nodes -> {"none", "todo", "replacing", "up", "failed", "stale"}]
    BY <1>6 DEF Settle
  <2>4. run' \in [boot : BOOLEAN, at : {"none", "loading", "deploying", "removing"}]
    BY <1>6 DEF Settle, TypeOK
  <2>5. QED BY <1>6, <2>1, <2>2, <2>3, <2>4 DEF Settle, TypeOK
<1>7. ASSUME Persist PROVE TypeOK'
  <2>1. PICK failed \in SUBSET Rules :
          /\ IF failed = {} THEN UNCHANGED faults ELSE Fault
          /\ status' = [r \in Rules |-> IF result[r] # "absent" /\ db[r] # Absent /\ r \notin failed
                                        THEN result[r] ELSE status[r]]
          /\ unwritten' = failed
    BY <1>7 DEF Persist
  <2>2. status' \in [Rules -> Statuses]
    BY <2>1 DEF TypeOK, Statuses
  <2>3. faults' \in 0..MaxFaults
    BY <2>1, FaultCounts DEF TypeOK
  <2>4. QED BY <1>7, <2>1, <2>2, <2>3 DEF Persist, RunEnds, NoRun, TypeOK
<1>8. ASSUME Crash PROVE TypeOK'
  BY <1>8, CrashLeaves DEF Crash, Booting, TypeOK, Statuses
<1>9. ASSUME NEW n \in Nodes, Replace(n) PROVE TypeOK'
  BY <1>9, Disposed DEF Replace, OnlyStraysLeft, TypeOK
<1>10. ASSUME NEW n \in Nodes, Deployed(n) PROVE TypeOK'
  <2>1. AllStray(n)
    BY <1>10 DEF Deployed, RunOnItsWay, Deploying
  <2>2. Planned(n) \in SUBSET Listeners
    BY DEF Planned, TypeOK
  <2>3. QED BY <1>10, <2>1, <2>2, DeployedServes DEF Deployed, TypeOK
<1>11. ASSUME NEW n \in Nodes, DeployFails(n) PROVE TypeOK'
  <2>1. AllStray(n)
    BY <1>11 DEF DeployFails, RunOnItsWay, Deploying
  <2>2. QED BY <1>11, <2>1, FailedLeaves DEF DeployFails, OnlyStraysLeft, TypeOK
<1>12. ASSUME NEW n \in Nodes, BuildFails(n) PROVE TypeOK'
  BY <1>12, BuildFailedLeaves DEF BuildFails, OnlyStraysLeft, TypeOK
<1>13. ASSUME NEW n \in Nodes, Remove(n) PROVE TypeOK'
  BY <1>13, RemoveLeaves DEF Remove, OnlyStraysLeft, TypeOK
<1>14. ASSUME NEW n \in Nodes, Dies(n) PROVE TypeOK'
  BY <1>14, DeathsAlike DEF Dies, TypeOK
<1>15. CASE UNCHANGED vars
  BY <1>15 DEF vars, TypeOK
<1>16. QED
  BY <1>1, <1>2, <1>3, <1>4, <1>5, <1>6, <1>7, <1>8, <1>9, <1>10, <1>11, <1>12, <1>13, <1>14, <1>15
  DEF Next, Idle

\* Every step keeps the ports of a plan apart.
LEMMA PortsStep ==
  ASSUME PortsApart, [Next]_vars
  PROVE  PortsApart'
<1>1. CASE Load
  BY <1>1, LoadPlans, GroupsPlan DEF PortsApart
<1>2. CASE group' = [n \in Nodes |-> {}]
  BY <1>2 DEF PortsApart, OncePerPort
<1>3. CASE group' = group
  BY <1>3 DEF PortsApart
<1>4. QED
  BY <1>1, <1>2, <1>3 DEF Next, vars, Write, ReconcileSoon, GraceExpires, LoadFails, Settle,
     Persist, Crash, Idle, Replace, Deployed, DeployFails, BuildFails, Remove, Dies, RunEnds

\* Every step keeps the units in hand, or strays.
LEMMA HandStep ==
  ASSUME TypeOK, InHand, RunOnItsWay, [Next]_vars
  PROVE  InHand'
<1> USE DEF data, engine
<1> SUFFICES ASSUME NEW n \in Nodes
             PROVE  /\ AllOf(n, tracked[n])'
                    /\ AllStray(n)' \/ n \in active' \/ (run'.at = "deploying" /\ stage'[n] = "up")
  BY DEF InHand
<1>1. CASE AllStray(n)'
  BY <1>1 DEF AllStray, AllOf
<1>2. CASE Alike(units[n], units'[n]) /\ UNCHANGED <<tracked, active, run, stage, group, unseen>>
  BY <1>2, AlikeKeeps DEF InHand, AllOf, AllStray
<1>3. CASE Deployed(n) /\ AllStray(n)
  <2>1. tracked'[n] = Planned(n) /\ Planned(n)' = Planned(n) /\ AllOf(n, Planned(n))'
    BY <1>3, DeployedServes DEF TypeOK, Deployed, Planned
  <2>2. run'.at = "deploying" /\ stage'[n] = "up"
    BY <1>3 DEF Deployed, TypeOK
  <2>3. QED BY <2>1, <2>2 DEF AllOf
<1>4. CASE units'[n] = units[n] /\ ~AllStray(n)'
  <2>1. ~AllStray(n)
    BY <1>4 DEF AllStray
  <2>2. tracked'[n] = tracked[n]
    <3>1. ASSUME NEW m \in Nodes, Replace(m) PROVE tracked'[n] = tracked[n]
      BY <1>4, <3>1, Disposed DEF Replace, OnlyStraysLeft, TypeOK, AllStray
    <3>2. ASSUME NEW m \in Nodes, Deployed(m) PROVE tracked'[n] = tracked[n]
      <4>1. m # n
        BY <2>1, <3>2 DEF Deployed, RunOnItsWay, Deploying
      <4>2. QED BY <3>2, <4>1 DEF Deployed, TypeOK
    <3>3. ASSUME NEW m \in Nodes, Remove(m) PROVE tracked'[n] = tracked[n]
      BY <1>4, <3>3, RemoveLeaves DEF OnlyStraysLeft, TypeOK, AllStray
    <3>4. ~Crash
      BY <1>4, CrashLeaves
    <3>5. QED
      BY <3>1, <3>2, <3>3, <3>4 DEF Next, vars, Write, ReconcileSoon, GraceExpires, Load, LoadFails,
         Settle, Persist, Idle, DeployFails, BuildFails, Dies
  <2>3. AllOf(n, tracked[n])'
    BY <1>4, <2>2 DEF InHand, AllOf
  <2>4. CASE n \in active
    <3>1. ASSUME NEW m \in Nodes, Remove(m) PROVE n \in active'
      <4>1. m # n
        BY <1>4, <3>1, RemoveLeaves DEF OnlyStraysLeft, AllStray
      <4>2. QED BY <2>4, <3>1, <4>1 DEF Remove
    <3>2. ~Crash
      BY <1>4, CrashLeaves
    <3>3. n \in active'
      BY <2>4, <3>1, <3>2 DEF Next, vars, Write, ReconcileSoon, GraceExpires, Load, LoadFails,
         Settle, Persist, Idle, DeployFails, BuildFails, Dies, Replace, Deployed
    <3>4. QED BY <2>3, <3>3
  <2>5. CASE run.at = "deploying" /\ stage[n] = "up"
    <3>1. CASE Settle
      BY <2>3, <2>5, <3>1 DEF Settle, AtStage
    <3>2. ~Crash
      BY <1>4, CrashLeaves
    <3>3. CASE ~Settle
      <4>1. run' = run
        BY <2>5, <3>2, <3>3 DEF Next, vars, Write, ReconcileSoon, GraceExpires, Load, LoadFails,
           Persist, Idle, DeployFails, BuildFails, Dies, Replace, Deployed, Remove
      <4>2. stage'[n] = "up"
        BY <2>5, <3>2, <3>3 DEF Next, vars, Write, ReconcileSoon, GraceExpires, Load, LoadFails,
           Persist, Idle, DeployFails, BuildFails, Dies, Replace, Deployed, Remove, TypeOK
      <4>3. QED BY <2>3, <2>5, <4>1, <4>2
    <3>4. QED BY <3>1, <3>3
  <2>6. QED BY <2>1, <2>4, <2>5 DEF InHand
<1>5. QED BY <1>1, <1>2, <1>3, <1>4, UnitsStep

\* Every step keeps the run on its way.
LEMMA WayStep ==
  ASSUME TypeOK, InHand, RunOnItsWay, [Next]_vars
  PROVE  RunOnItsWay'
<1> USE DEF data, engine
\* What concerns one node is kept when nothing of it changes but what is up.
<1>0. ASSUME UNCHANGED <<run, stage, group>>, NEW n \in Nodes,
             units'[n] = units[n] \/ Alike(units[n], units'[n])
      PROVE  (Deploying(n) => Deploying(n)') /\ (Removing(n) => Removing(n)')
  <2>1. Planned(n)' = Planned(n)
    BY <1>0 DEF Planned
  <2>2. (AllStray(n) => AllStray(n)') /\ (AllOf(n, group[n]) => AllOf(n, group[n])')
    BY <1>0, AlikeKeeps DEF AllStray, AllOf
  <2>3. AllHeld(n, Planned(n)) => AllHeld(n, Planned(n))'
    BY <1>0, <2>1, AlikeKeeps DEF AllHeld
  <2>4. QED BY <1>0, <2>1, <2>2, <2>3 DEF Deploying, Removing
<1>1. CASE UNCHANGED <<run, stage, group, units>>
  BY <1>0, <1>1 DEF RunOnItsWay
<1>2. ASSUME NEW q \in Requests, ReconcileSoon(q) PROVE RunOnItsWay'
  <2>1. CASE run.at = "none"
    BY <1>2, <2>1 DEF ReconcileSoon, RunOnItsWay
  <2>2. CASE run.at # "none"
    BY <1>1, <1>2, <2>2 DEF ReconcileSoon
  <2>3. QED BY <2>1, <2>2
<1>3. ASSUME Load PROVE RunOnItsWay'
  <2>1. run'.at = "deploying"
    BY <1>3 DEF Load, TypeOK
  <2>2. ASSUME NEW n \in Nodes PROVE Deploying(n)'
    <3>1. group'[n] = {} <=> Enabled(n) = {}
      BY <1>3, LoadPlans, GroupsPlan
    <3>2. stage'[n] = IF Enabled(n) # {} THEN "todo" ELSE "none"
      BY <1>3 DEF Load
    <3>3. QED BY <3>1, <3>2 DEF Deploying
  <2>3. QED BY <2>1, <2>2 DEF RunOnItsWay
<1>4. CASE RunEnds
  BY <1>4 DEF RunEnds, NoRun, RunOnItsWay
<1>5. ASSUME Settle PROVE RunOnItsWay'
  <2>1. run.at = "deploying" /\ run'.at = "removing" /\ UNCHANGED <<group, units, tracked>>
    BY <1>5 DEF Settle, TypeOK
  <2>2. ASSUME NEW n \in Nodes PROVE Removing(n)'
    <3>1. Deploying(n) /\ stage[n] \notin {"todo", "replacing"}
      BY <1>5, <2>1 DEF Settle, AtStage, RunOnItsWay
    <3>2. n \in active' <=> n \in active \/ stage[n] = "up"
      BY <1>5 DEF Settle, AtStage
    <3>3. stage'[n] = IF n \in active' /\ group[n] = {} THEN "stale" ELSE "none"
      BY <1>5, <3>2 DEF Settle, Stale, AtStage
    <3>4. ASSUME stage'[n] # "stale" PROVE AllOf(n, group[n])
      <4>1. CASE group[n] = {}
        <5>1. AllStray(n)
          BY <2>1, <3>2, <3>3, <3>4, <4>1 DEF InHand
        <5>2. QED BY <5>1 DEF AllStray, AllOf
      <4>2. CASE group[n] # {}
        BY <3>1, <4>2 DEF Deploying, AllStray, AllOf
      <4>3. QED BY <4>1, <4>2
    <3>5. AllOf(n, group[n]) => AllOf(n, group[n])'
      BY <2>1 DEF AllOf
    <3>6. QED BY <2>1, <3>3, <3>4, <3>5 DEF Removing
  <2>3. QED BY <2>1, <2>2 DEF RunOnItsWay
<1>6. ASSUME Crash PROVE RunOnItsWay'
  BY <1>6 DEF Crash, Booting, RunOnItsWay
\* A step of the run with one node.
<1>7. ASSUME NEW n \in Nodes, UNCHANGED <<run, group>>, run.at = "deploying",
             \A m \in Nodes \ {n} : stage'[m] = stage[m] /\ units'[m] = units[m], Deploying(n)'
      PROVE  RunOnItsWay'
  <2>1. ASSUME NEW m \in Nodes \ {n} PROVE Deploying(m)'
    <3>1. Deploying(m) /\ Planned(m)' = Planned(m)
      BY <1>7 DEF RunOnItsWay, Planned
    <3>2. QED BY <1>7, <3>1 DEF Deploying, AllStray, AllOf, AllHeld
  <2>2. QED BY <1>7, <2>1 DEF RunOnItsWay
<1>8. ASSUME NEW n \in Nodes, Replace(n) PROVE RunOnItsWay'
  <2>1. OnlyStraysLeft(n)
    BY <1>8, Disposed DEF Replace
  <2>2. stage'[n] = "replacing" /\ \A m \in Nodes \ {n} : stage'[m] = stage[m]
    BY <1>8 DEF Replace, TypeOK
  <2>3. Deploying(n)'
    BY <1>8, <2>1, <2>2 DEF Replace, RunOnItsWay, Deploying, OnlyStraysLeft, AllStray
  <2>4. QED BY <1>7, <1>8, <2>1, <2>2, <2>3 DEF Replace, OnlyStraysLeft
<1>9. ASSUME NEW n \in Nodes, Deployed(n) PROVE RunOnItsWay'
  <2>1. AllStray(n) /\ group[n] # {}
    BY <1>9 DEF Deployed, RunOnItsWay, Deploying
  <2>2. stage'[n] = "up" /\ \A m \in Nodes \ {n} : stage'[m] = stage[m]
    BY <1>9 DEF Deployed, TypeOK
  <2>3. /\ \A m \in Nodes \ {n} : units'[m] = units[m]
        /\ AllOf(n, Planned(n))' /\ AllHeld(n, Planned(n))'
    BY <1>9, <2>1, DeployedServes
  <2>4. AllOf(n, group[n])'
    BY <2>3 DEF AllOf, Planned
  <2>5. Deploying(n)'
    BY <1>9, <2>1, <2>2, <2>3, <2>4 DEF Deployed, Deploying
  <2>6. QED BY <1>7, <1>9, <2>2, <2>3, <2>5 DEF Deployed
<1>10. ASSUME NEW n \in Nodes, DeployFails(n) PROVE RunOnItsWay'
  <2>1. AllStray(n) /\ group[n] # {}
    BY <1>10 DEF DeployFails, RunOnItsWay, Deploying
  <2>2. stage'[n] = "failed" /\ \A m \in Nodes \ {n} : stage'[m] = stage[m]
    BY <1>10 DEF DeployFails, TypeOK
  <2>3. OnlyStraysLeft(n)
    BY <1>10, <2>1, FailedLeaves
  <2>4. Deploying(n)'
    BY <1>10, <2>1, <2>2, <2>3 DEF DeployFails, Deploying, OnlyStraysLeft, AllStray
  <2>5. QED BY <1>7, <1>10, <2>2, <2>3, <2>4 DEF DeployFails, OnlyStraysLeft
<1>11. ASSUME NEW n \in Nodes, BuildFails(n) PROVE RunOnItsWay'
  <2>1. group[n] # {}
    BY <1>11 DEF BuildFails, RunOnItsWay, Deploying
  <2>2. stage'[n] = "failed" /\ \A m \in Nodes \ {n} : stage'[m] = stage[m]
    BY <1>11 DEF BuildFails, TypeOK
  <2>3. OnlyStraysLeft(n)
    BY <1>11, BuildFailedLeaves
  <2>4. Deploying(n)'
    BY <1>11, <2>1, <2>2, <2>3 DEF BuildFails, Deploying, OnlyStraysLeft, AllStray
  <2>5. QED BY <1>7, <1>11, <2>2, <2>3, <2>4 DEF BuildFails, OnlyStraysLeft
<1>12. ASSUME NEW n \in Nodes, Remove(n) PROVE RunOnItsWay'
  <2>1. OnlyStraysLeft(n)
    BY <1>12, RemoveLeaves
  <2>2. stage'[n] = "none" /\ \A m \in Nodes \ {n} : stage'[m] = stage[m] /\ units'[m] = units[m]
    BY <1>12, <2>1 DEF Remove, TypeOK, OnlyStraysLeft
  <2>3. run' = run /\ group' = group /\ run.at = "removing"
    BY <1>12 DEF Remove
  <2>4. Removing(n)'
    BY <2>1, <2>2 DEF Removing, OnlyStraysLeft, AllOf
  <2>5. \A m \in Nodes \ {n} : Removing(m)'
    BY <2>2, <2>3 DEF RunOnItsWay, Removing, AllOf
  <2>6. QED BY <2>3, <2>4, <2>5 DEF RunOnItsWay
<1>13. ASSUME NEW n \in Nodes, Dies(n) PROVE RunOnItsWay'
  <2>1. UNCHANGED <<run, stage, group>> /\ \A m \in Nodes : Alike(units[m], units'[m])
    BY <1>13, DeathsAlike DEF Dies
  <2>2. QED BY <1>0, <2>1 DEF RunOnItsWay
<1>14. QED
  BY <1>1, <1>2, <1>3, <1>4, <1>5, <1>6, <1>8, <1>9, <1>10, <1>11, <1>12, <1>13
  DEF Next, vars, Write, GraceExpires, LoadFails, Persist, Idle

\* What is served stays so in every step of a run past its load, and in a death.
LEMMA ServedStays ==
  ASSUME TypeOK, InHand, RunOnItsWay, PlanCurrent, [Next]_vars, ~unseen,
         run.at = "removing", run'.at = "removing", group' = group,
         NEW r \in Rules, Served(r)
  PROVE  Served(r)'
<1>1. PICK n \in Nodes : \E l \in group[n] :
        l.rule = r /\ (l.fits => \E u \in units[n] : Holds(n, u, l))
  BY DEF Served
<1>2. PICK l \in group[n] : l.rule = r /\ (l.fits => \E u \in units[n] : Holds(n, u, l))
  BY <1>1
<1>3. ASSUME NEW u \in units[n], Holds(n, u, l) PROVE \E v \in units'[n] : Holds(n, v, l)
  <2>1. CASE units'[n] = units[n]
    BY <1>3, <2>1
  <2>2. ASSUME NEW m \in Nodes, Dies(m) PROVE \E v \in units'[n] : Holds(n, v, l)
    BY <1>3, <2>2, DeathsAlike, AlikeKeeps
  <2>3. ASSUME NEW m \in Nodes, Remove(m) PROVE units'[n] = units[n]
    <3>1. m # n
      BY <1>2, <2>3 DEF Remove, RunOnItsWay, Removing
    <3>2. QED BY <2>3, <3>1, RemoveLeaves DEF OnlyStraysLeft
  <2>4. QED
    BY <2>1, <2>2, <2>3 DEF Next, vars, data, engine, Write, ReconcileSoon, GraceExpires, Load, LoadFails,
       Settle, Persist, Crash, Booting, Idle, Replace, Deployed, DeployFails, BuildFails
<1>4. QED BY <1>2, <1>3 DEF Served

\* Every step keeps the plan that of the rows, or unseen.
LEMMA PlanStep ==
  ASSUME TypeOK, InHand, RunOnItsWay, PlanCurrent, [Next]_vars
  PROVE  PlanCurrent'
<1> USE DEF data, engine
<1> SUFFICES ASSUME ~unseen', run'.at \in {"deploying", "removing"} PROVE PlanCurrent'
  BY DEF PlanCurrent
<1>1. CASE Load
  <2>1. db' = db /\ run'.at = "deploying"
    BY <1>1 DEF Load, TypeOK
  <2>2. \A n \in Nodes : group'[n] \subseteq Enabled(n)'
    BY <1>1, <2>1, LoadPlans, GroupsPlan DEF Enabled
  <2>3. \A r \in Rules : result'[r] = CASE db[r] = Absent -> "absent"
                                        [] db[r] = Disabled -> "stopped"
                                        [] OTHER -> "error"
    BY <1>1 DEF Load
  <2>4. \A r \in Rules : /\ result'[r] \notin {"pending", "running"}
                         /\ result'[r] = "absent" <=> db[r] = Absent
                         /\ result'[r] = "stopped" <=> db[r] = Disabled
    BY <2>3, SupervisorAssumption
  <2>5. QED BY <2>1, <2>2, <2>4 DEF PlanCurrent
<1>2. CASE Settle
  <2>1. /\ run.at = "deploying" /\ run'.at = "removing" /\ ~unseen
        /\ UNCHANGED <<group, units, tracked, db>>
    BY <1>2 DEF Settle, TypeOK
  <2>2. \A n \in Nodes : group[n] \subseteq Enabled(n) /\ Enabled(n)' = Enabled(n)
    BY <2>1 DEF PlanCurrent, Enabled
  <2>3. ASSUME NEW r \in Confirmed
        PROVE  Served(r)' /\ (r \in Rules => db[r] \notin {Absent, Disabled})
    <3>0. PICK n \in Nodes : stage[n] = "up" /\ \E l \in group[n] : l.rule = r
      BY DEF Confirmed, AtStage
    <3>1. PICK l \in group[n] : l.rule = r
      BY <3>0
    <3>2. l.fits => \E u \in units[n] : Holds(n, u, l)
      BY <2>1, <3>0 DEF RunOnItsWay, Deploying, AllHeld, Planned
    <3>3. db[l.rule] \notin {Disabled, Absent}
      BY <2>2, EnabledRows
    <3>4. QED BY <2>1, <3>1, <3>2, <3>3 DEF Served
  <2>4. \A r \in Rules : result'[r] = IF r \in Confirmed THEN "running" ELSE result[r]
    BY <1>2 DEF Settle
  <2>5. \A r \in Rules : /\ result[r] \notin {"pending", "running"}
                         /\ result[r] = "absent" <=> db[r] = Absent
                         /\ result[r] = "stopped" <=> db[r] = Disabled
    BY <2>1 DEF PlanCurrent
  <2>6. QED BY <2>1, <2>2, <2>3, <2>4, <2>5 DEF PlanCurrent
<1>3. CASE UNCHANGED <<run, group, db, unseen, result>>
  <2>1. ASSUME NEW r \in Rules, result[r] = "running" PROVE run.at = "removing" /\ Served(r)'
    <3>1. run.at = "removing" /\ Served(r)
      BY <1>3, <2>1 DEF PlanCurrent
    <3>2. QED BY <1>3, <3>1, ServedStays
  <2>2. QED BY <1>3, <2>1 DEF PlanCurrent, Enabled
<1>4. ASSUME NEW q \in Requests, ReconcileSoon(q) PROVE PlanCurrent'
  BY <1>3, <1>4 DEF ReconcileSoon
<1>5. QED
  BY <1>1, <1>2, <1>3, <1>4
  DEF Next, vars, Write, GraceExpires, LoadFails, Persist, Crash, Booting, RunEnds, NoRun, Idle,
      Replace, Deployed, DeployFails, BuildFails, Remove, Dies

\* What a run has left behind stays true while no run is past reading the rows,
\* whatever dies.
LEMMA SettledStays ==
  ASSUME Settled, UNCHANGED <<db, status, unseen, unwritten>>,
         \A n \in Nodes : Alike(units[n], units'[n]),
         run.at \in {"none", "loading"}
  PROVE  Settled'
<1> SUFFICES ASSUME ~unseen' PROVE Settled'
  BY DEF Settled
<1>1. \A n \in Nodes : Enabled(n)' = Enabled(n)
  BY DEF Enabled
<1>2. \A r \in Rules : Written(r)' <=> Written(r)
  BY DEF Written
<1>3. ASSUME NEW r \in Rules, Written(r)
      PROVE  StatusTrue(r)'
  <2>1. StatusTrue(r)
    BY <1>3 DEF Settled
  <2>2. ASSUME NEW n \in Nodes, NEW l \in Enabled(n), l.rule = r,
               l.fits => \E u \in units[n] : Holds(n, u, l)
        PROVE  l \in Enabled(n)' /\ (l.fits => \E u \in units'[n] : Holds(n, u, l))
    BY <1>1, <2>2, AlikeKeeps
  <2>3. QED BY <2>1, <2>2 DEF StatusTrue
<1>4. ASSUME NEW n \in Nodes PROVE AllOf(n, Enabled(n))'
  <2>1. AllOf(n, Enabled(n))
    BY DEF Settled
  <2>2. QED BY <1>1, <2>1, AlikeKeeps DEF AllOf
<1>5. RunApart'
  <2>1. RunApart
    BY DEF Settled
  <2>2. ASSUME NEW n \in Nodes, NEW l \in Enabled(n), NEW k \in Enabled(n),
               l # k /\ l.port = k.port, Written(l.rule)' /\ Written(k.rule)'
        PROVE  ~(status'[l.rule] = "running" /\ status'[k.rule] = "running")
    BY <2>1, <2>2 DEF RunApart, Written
  <2>3. QED BY <1>1, <2>2 DEF RunApart
<1>6. QED BY <1>2, <1>3, <1>4, <1>5 DEF Settled

\* Nothing happens to the units: that is alike.
LEMMA SameAlike ==
  ASSUME units' = units
  PROVE  \A n \in Nodes : Alike(units[n], units'[n])
  BY DEF Alike

\* Every step keeps what a run has left behind true.
LEMMA SettledStep ==
  ASSUME TypeOK, PortsApart, InHand, RunOnItsWay, PlanCurrent, Settled, [Next]_vars
  PROVE  Settled'
<1> USE DEF data, engine
<1> SUFFICES ASSUME ~unseen', run'.at \in {"none", "loading"} PROVE Settled'
  BY DEF Settled
<1>1. CASE UNCHANGED <<db, status, unseen, unwritten, units>> /\ run.at \in {"none", "loading"}
  BY <1>1, SettledStays, SameAlike
<1>2. ASSUME NEW n \in Nodes, Dies(n) PROVE Settled'
  BY <1>2, SettledStays, DeathsAlike DEF Dies
<1>3. CASE Persist
  <2>1. /\ run.at = "removing" /\ ~unseen /\ UNCHANGED <<db, units, tracked, active>>
        /\ \A n \in Nodes : stage[n] # "stale"
    BY <1>3 DEF Persist, AtStage
  <2>2. \A n \in Nodes : Removing(n) /\ group[n] \subseteq Enabled(n) /\ Enabled(n)' = Enabled(n)
    BY <2>1 DEF RunOnItsWay, PlanCurrent, Enabled
  <2>3. ASSUME NEW r \in Rules, Written(r)'
        PROVE  /\ status'[r] = result[r] /\ result[r] # "pending"
               /\ result[r] = "stopped" <=> db[r] = Disabled
               /\ result[r] = "running" => Served(r)
    <3>1. /\ result[r] \notin {"pending", "absent"}
          /\ result[r] = "stopped" <=> db[r] = Disabled
          /\ result[r] = "running" => Served(r)
      BY <2>1, <2>3 DEF PlanCurrent, Written
    <3>2. PICK failed \in SUBSET {q \in Rules : result[q] # "absent" /\ db[q] # Absent} :
            /\ status' = [q \in Rules |-> IF result[q] # "absent" /\ db[q] # Absent /\ q \notin failed
                                          THEN result[q] ELSE status[q]]
            /\ unwritten' = failed
      BY <1>3 DEF Persist
    <3>3. status'[r] = result[r]
      BY <2>1, <2>3, <3>1, <3>2 DEF Written
    <3>4. QED BY <3>1, <3>3
  <2>4. ASSUME NEW r \in Rules, Written(r)' PROVE StatusTrue(r)'
    <3>1. Served(r) => \E n \in Nodes : \E l \in Enabled(n) :
                          l.rule = r /\ (l.fits => \E u \in units[n] : Holds(n, u, l))
      BY <2>2 DEF Served
    <3>2. QED BY <2>1, <2>2, <2>3, <2>4, <3>1 DEF StatusTrue
  <2>5. ASSUME NEW n \in Nodes PROVE AllOf(n, Enabled(n))'
    <3>1. AllOf(n, group[n])
      BY <2>1, <2>2 DEF Removing
    <3>2. QED BY <2>1, <2>2, <3>1 DEF AllOf
  <2>6. ASSUME NEW n \in Nodes, NEW l \in Enabled(n), NEW k \in Enabled(n), l.port = k.port,
               Served(l.rule), Served(k.rule)
        PROVE  l = k
    <3>1. ASSUME NEW j \in Enabled(n), Served(j.rule) PROVE j \in group[n]
      <4>1. PICK m \in Nodes : \E i \in group[m] : i.rule = j.rule
        BY <3>1 DEF Served
      <4>2. PICK i \in group[m] : i.rule = j.rule
        BY <4>1
      <4>3. i \in Enabled(m)
        BY <2>2
      <4>4. m = n /\ i = j
        BY <4>2, <4>3, EnabledRows
      <4>5. QED BY <4>4
    <3>2. l \in group[n] /\ k \in group[n]
      BY <2>6, <3>1
    <3>3. QED BY <2>6, <3>2 DEF PortsApart, OncePerPort
  <2>7. RunApart'
    <3>1. ASSUME NEW n \in Nodes, NEW l \in Enabled(n), NEW k \in Enabled(n),
                 l # k /\ l.port = k.port, Written(l.rule)' /\ Written(k.rule)'
          PROVE  ~(status'[l.rule] = "running" /\ status'[k.rule] = "running")
      <4>1. l.rule \in Rules /\ k.rule \in Rules
        BY EnabledRows
      <4>2. QED BY <2>3, <2>6, <3>1, <4>1
    <3>2. QED BY <2>2, <3>1 DEF RunApart
  <2>8. QED BY <2>4, <2>5, <2>7 DEF Settled
<1>4. ASSUME NEW q \in Requests, ReconcileSoon(q) PROVE Settled'
  BY <1>1, <1>4 DEF ReconcileSoon
<1>5. QED
  BY <1>1, <1>2, <1>3, <1>4
  DEF Next, vars, Write, GraceExpires, Load, LoadFails, Settle, Crash, Idle, TypeOK,
      Replace, Deployed, DeployFails, BuildFails, Remove

\* Every step keeps the invariant.
LEMMA StepInvariant == IInv /\ [Next]_vars => IInv'
  BY TypeStep, PortsStep, HandStep, WayStep, PlanStep, SettledStep DEF IInv

-----------------------------------------------------------------------------
(* The theorems *)

\* The inductive invariant holds in every reachable state, whatever deploys and
\* removals fail, whatever dies and whenever the panel is restarted
\* (planGroupsAndApply, forward-supervisor-logic.ts:84-201).
THEOREM Invariance == Spec => []IInv
BY InitInvariant, StepInvariant, PTL DEF Spec

\* Every reachable state of the supervisor, the rows and the units is of its
\* type.
THEOREM TypeCorrect == Spec => []TypeOK
BY Invariance, PTL DEF IInv

\* At rest a rule reported running has its unit on its node, or a stray holds
\* the name, and exactly the disabled rules are reported stopped, for the rows a
\* run has read and written (forward-supervisor-logic.ts:16-18).
THEOREM StatusesTrue == Spec => []StatusReflects
<1>1. IInv => StatusReflects
  BY DEF IInv, Settled, StatusTrue, Written, Reported, StatusReflects, Quiet
<1>2. QED BY Invariance, <1>1, PTL

\* At rest no unit but strays serves a rule that was deleted, disabled or moved
\* away (forward-supervisor-logic.ts:182-197).
THEOREM StaleRulesStop == Spec => []NothingStaleServes
<1>1. IInv => NothingStaleServes
  BY DEF IInv, Settled, AllOf, NothingStaleServes, Quiet
<1>2. QED BY Invariance, <1>1, PTL

\* At rest at most one of two rules on one port is reported running, whatever rows
\* the routes let through (planGroups, forward-supervisor-logic.ts:78-121).
THEOREM PortsKeptApart == Spec => []OnePerPort
<1>1. IInv => OnePerPort
  BY DEF IInv, Settled, RunApart, Written, Reported, OnePerPort, Quiet
<1>2. QED BY Invariance, <1>1, PTL
=============================================================================
