------------------------- MODULE TunnelEngine_proofs -------------------------
(***************************************************************************)
(* Proofs about TunnelEngine, for any number of requests, roles, deploys   *)
(* and faults.                                                             *)
(*                                                                         *)
(* The properties speak of a tunnel at rest; the invariant says what holds *)
(* while operations are suspended: who may be in progress together, whose  *)
(* teardowns are under way, and which running process is accounted for.    *)
(***************************************************************************)
EXTENDS TunnelEngine, TLAPS

-----------------------------------------------------------------------------
(* The inductive invariant *)

Loops == {"deploying", "rollback", "starting", "probing", "restarting"}
Captured == {"starting", "probing", "stopping", "restarting", "removing"}
Awaiting == {"replacing", "rollback", "stopping", "removing"}

Resting == \A r \in Requests : pc[r] = "idle"
Kept == overlapped # "replaced"
Alone == overlapped = "never"

\* A teardown of p that r waits for.
Awaited(r, p) == \E j \in jobs : j.owner = r /\ j.proc = p
Disposing(r, p) == \E j \in jobs : j.owner = r /\ j.proc = p /\ j.op = "dispose"
Started(r, p) == pc[r] = "deploying" /\ \E i \in 1..done[r] : p = Proc(mine[r], i)

\* A request at work knows its deploy, and its loop has a role left.
LocalsFit ==
    \A r \in Requests :
        /\ pc[r] # "idle" => mine[r] \in Deploys
        /\ pc[r] \in {"idle", "replacing", "planning", "removing"} => done[r] = 0
        /\ pc[r] \in Loops => done[r] < NRoles

\* A teardown belongs to a request that awaits it, or outlived a timeout.
OwnersAwait ==
    \A j \in jobs :
        /\ j.owner # Detached => pc[j.owner] \in Awaiting
        /\ j.owner = Detached => faults["slow"] > 0

\* What the history of overlaps says of the requests at work.
TakeTurns ==
    /\ Alone => \A q, r \in Requests : pc[q] # "idle" /\ pc[r] # "idle" => q = r
    /\ Kept => \A q, r \in Requests : q # r /\ pc[r] \in Replacing => pc[q] = "idle"

\* While deploys and removals take turns, a captured runtime stays the runtime.
Tracking ==
    Kept => \A r \in Requests :
        /\ pc[r] \in Captured => mine[r] = runtime
        /\ pc[r] \in {"planning", "deploying", "rollback"} => runtime = Untracked

\* Children leave no unit file, and every deploy of a tunnel shares its units.
UnitsShared == \A p \in Procs : unitFile[p] # "absent" => ~childMode /\ p[1] = 0

\* What runs or will run is tracked, was started by a deploy at work, is being torn
\* down, or was missed by a teardown.
Accounted ==
    Kept /\ Never("lost") => \A p \in alive :
        p \in ProcsOf(runtime) \/ p \in missed \/ Doomed(p) \/ \E r \in Requests : Started(r, p)

\* Who replaces or removes the runtime awaits the end of all that runs of it.
RuntimeEnds ==
    Kept /\ Never("lost") => \A r \in Requests : pc[r] \in {"replacing", "removing"} =>
        \A i \in Roles : Proc(runtime, i) \in alive =>
            Proc(runtime, i) \in missed \/ Awaited(r, Proc(runtime, i))

\* remove() awaits the disposal of every unit left; a removed tunnel has none
\* until the next deploy starts its processes.
UnitsEnd ==
    Kept /\ Never("lost") => \A r \in Requests : pc[r] = "removing" =>
        \A p \in Procs : unitFile[p] # "absent" => Disposing(r, p)

RemovedStays ==
    Kept /\ Never("lost") /\ last = "remove" =>
        /\ runtime = Untracked
        /\ (\A p \in Procs : unitFile[p] = "absent")
           \/ \E r \in Requests : pc[r] \in {"deploying", "rollback"}

\* The loop of a deploy or start has left every role it passed running.
LoopStarts ==
    Alone /\ Never("slow") => \A r \in Requests : pc[r] \in {"deploying", "starting"} =>
        \A i \in 1..done[r] : Proc(mine[r], i) \in alive \cup gone

RestDeployed ==
    Alone /\ Never("slow") /\ Resting /\ last \in {"deploy", "start"} =>
        ProcsOf(runtime) \subseteq alive \cup gone

\* stop() has found every role it passed that runs, then awaits their end.
LoopFinds ==
    Alone /\ Never("lost") => \A r \in Requests :
        /\ pc[r] = "probing" =>
            \A i \in 1..done[r] : Proc(mine[r], i) \in alive =>
                i \in still[r] \/ Proc(mine[r], i) \in missed
        /\ pc[r] = "stopping" =>
            \A i \in Roles : Proc(mine[r], i) \in alive =>
                Proc(mine[r], i) \in missed \/ Awaited(r, Proc(mine[r], i))

RestStopped ==
    Alone /\ Never("lost") /\ Resting /\ last = "stop" =>
        \A p \in alive : p \in missed \/ Doomed(p)

Control == TypeOK /\ LocalsFit /\ OwnersAwait /\ TakeTurns /\ Tracking

IInv ==
    /\ Control /\ UnitsShared
    /\ Accounted /\ RuntimeEnds
    /\ UnitsEnd /\ RemovedStays
    /\ LoopStarts /\ RestDeployed
    /\ LoopFinds /\ RestStopped
-----------------------------------------------------------------------------
(* Type correctness and control *)

\* The unit or child of a role is a process.
LEMMA ProcTyped ==
  ASSUME NEW d \in {Untracked} \cup Deploys, NEW i \in Roles
  PROVE  Proc(d, i) \in Procs
  BY EngineAssumption DEF Untracked, Deploys, Roles, Procs, Proc

\* So are those a deploy has.
LEMMA ProcsTyped ==
  ASSUME NEW d \in {Untracked} \cup Deploys
  PROVE  /\ ProcsOf(d) \subseteq Procs
         /\ \A roles \in SUBSET Roles : {Proc(d, i) : i \in roles} \subseteq Procs
  BY ProcTyped DEF ProcsOf

\* The parts of the type invariant: what requests know, and what nodes hold.
PcTyped ==
    pc \in [Requests -> {"idle", "replacing", "planning", "deploying", "rollback",
                         "starting", "probing", "stopping", "restarting", "removing"}]
RequestsTyped ==
    /\ PcTyped
    /\ mine \in [Requests -> {Untracked} \cup Deploys]
    /\ done \in [Requests -> 0..NRoles]
    /\ still \in [Requests -> SUBSET Roles]
    /\ last \in Ops /\ overlapped \in {"never", "kept", "replaced"}
NodesTyped ==
    /\ alive \in SUBSET Procs /\ waiting \in SUBSET Procs /\ spawning \in SUBSET Procs
    /\ gone \in SUBSET Procs /\ missed \in SUBSET Procs
    /\ unitFile \in [Procs -> {"absent", "disabled", "enabled"}]
FaultsTyped == faults \in [Kinds -> 0..MaxFaults]

OthersTyped ==
    /\ childMode \in Modes /\ runtime \in {Untracked} \cup Deploys
    /\ deploys \in 0..MaxDeploys /\ jobs \in SUBSET Jobs

\* The type invariant, as its four parts, before a step and after it.
LEMMA TypeParts ==
  /\ TypeOK <=> OthersTyped /\ RequestsTyped /\ NodesTyped /\ FaultsTyped
  /\ TypeOK' <=> OthersTyped' /\ RequestsTyped' /\ NodesTyped' /\ FaultsTyped'
  BY DEF TypeOK, OthersTyped, RequestsTyped, PcTyped, NodesTyped, FaultsTyped

\* What a call of teardowns does: each process that may still run has its job, or
\* was passed over, or escaped in mkdir.
LEMMA Called ==
  ASSUME NEW r, NEW op, NEW procs, NEW passed, CallTeardown(r, op, procs, passed)
  PROVE  /\ alive' \subseteq alive /\ gone' = gone /\ jobs \subseteq jobs'
         /\ missed \subseteq missed' /\ passed \subseteq missed'
         /\ \A p \in procs : p \in alive' =>
                p \in missed' \/ \E j \in jobs' : j.owner = r /\ j.op = op /\ j.proc = p
         /\ ~childMode => \A p \in procs :
                \E j \in jobs' : j.owner = r /\ j.op = op /\ j.proc = p
         /\ \A j \in jobs' : j \in jobs \/ (j.owner = r /\ j.op = op /\ j.proc \in procs)
<1> DEFINE torn == IF childMode THEN {p \in procs : Runs(p)} ELSE procs
<1>1. jobs' = jobs \cup Teardown(r, op, torn)
  BY DEF CallTeardown
<1>2. \A p \in torn : [owner |-> r, op |-> op, proc |-> p] \in jobs'
  BY <1>1 DEF Teardown
<1>3. \A p \in torn : \E j \in jobs' : j.owner = r /\ j.op = op /\ j.proc = p
  <2> TAKE p \in torn
  <2> DEFINE job == [owner |-> r, op |-> op, proc |-> p]
  <2>1. job \in jobs' /\ job.owner = r /\ job.op = op /\ job.proc = p
    BY <1>2
  <2>2. QED BY <2>1
<1>4. \A j \in jobs' : j \in jobs \/ (j.owner = r /\ j.op = op /\ j.proc \in procs)
  BY <1>1 DEF Teardown
<1>5. \A p \in procs : p \in alive' /\ p \notin missed' => p \in torn
  BY DEF CallTeardown, Runs
<1>6. alive' \subseteq alive /\ gone' = gone /\ missed \subseteq missed' /\ passed \subseteq missed'
  BY DEF CallTeardown
<1>7. QED BY <1>1, <1>3, <1>4, <1>5, <1>6

\* A call of teardowns keeps the node and the jobs typed.
LEMMA CalledTyped ==
  ASSUME NodesTyped, jobs \in SUBSET Jobs, unitFile' = unitFile,
         NEW r \in Requests, NEW op \in {"stop", "dispose"}, NEW procs \in SUBSET Procs,
         NEW passed \in SUBSET Procs, CallTeardown(r, op, procs, passed)
  PROVE  NodesTyped' /\ jobs' \in SUBSET Jobs
<1>1. jobs' \in SUBSET Jobs
  <2>1. Teardown(r, op, procs) \subseteq Jobs /\ Teardown(r, op, {p \in procs : Runs(p)}) \subseteq Jobs
    BY DEF Teardown, Jobs
  <2>2. QED BY <2>1 DEF CallTeardown
<1>2. NodesTyped'
  BY DEF CallTeardown, NodesTyped
<1>3. QED BY <1>1, <1>2

\* What becomes of a process by itself: it may end for good, and no more of it runs.
ByItself(p) == Dies(p) \/ TimerFires(p) \/ Respawns(p) \/ RespawnFails(p)

\* It leaves alone what the operations keep.
LEMMA ByItselfKeeps ==
  ASSUME TypeOK, NEW p \in Procs, ByItself(p)
  PROVE  /\ UNCHANGED <<childMode, runtime, deploys, unitFile, jobs, pc, locals, history>>
         /\ alive' \subseteq alive /\ alive \subseteq alive' \cup gone' /\ gone \subseteq gone'
         /\ \A q \in alive' : q \in missed => q \in missed'
         /\ faults'["slow"] = faults["slow"] /\ faults'["lost"] = faults["lost"]
         /\ NodesTyped' /\ FaultsTyped'
<1> USE DEF TypeOK, NodesTyped, FaultsTyped, Kinds
<1>1. CASE Dies(p)
  <2>1. /\ faults["death"] \in 0..MaxFaults /\ faults["death"] < MaxFaults
        /\ faults' = [faults EXCEPT !["death"] = @ + 1]
    BY <1>1 DEF Dies
  <2>2. FaultsTyped' /\ faults'["slow"] = faults["slow"] /\ faults'["lost"] = faults["lost"]
    BY <2>1, EngineAssumption
  <2>3. QED BY <1>1, <2>2 DEF Dies
<1>2. CASE TimerFires(p)
  BY <1>2 DEF TimerFires
<1>3. CASE Respawns(p)
  BY <1>3 DEF Respawns
<1>4. CASE RespawnFails(p)
  BY <1>4 DEF RespawnFails
<1>5. QED BY <1>1, <1>2, <1>3, <1>4 DEF ByItself

\* A request that returns keeps the locals typed.
LEMMA ReturnTyped ==
  ASSUME RequestsTyped, NEW r \in Requests, NEW op \in Ops, Return(r, op)
  PROVE  RequestsTyped'
  BY EngineAssumption DEF RequestsTyped, PcTyped, Return, Goto

\* So does one that goes on to the next process.
LEMMA PassTyped ==
  ASSUME RequestsTyped, NEW r \in Requests, NEW op \in Ops, done[r] < NRoles, Pass(r, op)
  PROVE  RequestsTyped'
<1>1. CASE done[r] + 1 = NRoles
  BY <1>1, ReturnTyped DEF Pass
<1>2. CASE done[r] + 1 # NRoles
  BY <1>2, EngineAssumption DEF Pass, RequestsTyped, PcTyped, history
<1>3. QED BY <1>1, <1>2

\* So does one that enters the engine.
LEMMA EnterTyped ==
  ASSUME RequestsTyped, NEW r \in Requests, Enter(r, "replacing") \/ Enter(r, "planning")
           \/ Enter(r, "starting") \/ Enter(r, "probing") \/ Enter(r, "restarting")
           \/ Enter(r, "removing")
  PROVE  PcTyped' /\ last' \in Ops /\ overlapped' \in {"never", "kept", "replaced"}
<1>1. PcTyped' /\ last' \in Ops
  BY DEF Enter, Goto, RequestsTyped, PcTyped
<1>2. overlapped' \in {"never", "kept", "replaced"}
  BY DEF Enter, RequestsTyped
<1>3. QED BY <1>1, <1>2

\* A start on a node keeps the nodes typed.
LEMMA NodeTyped ==
  ASSUME NodesTyped, NEW p \in Procs, StartProc(p)
  PROVE  NodesTyped'
  BY DEF NodesTyped, StartProc, Begins

\* A fault keeps the counts of faults typed.
LEMMA FaultTyped ==
  ASSUME FaultsTyped, NEW kind \in {"slow", "lost"}, Fault(kind)
  PROVE  FaultsTyped'
<1>1. /\ faults["slow"] \in 0..MaxFaults /\ faults["lost"] \in 0..MaxFaults
      /\ faults["slow"] + faults["lost"] < MaxFaults /\ faults' = [faults EXCEPT ![kind] = @ + 1]
  BY DEF FaultsTyped, Fault, Kinds
<1>2. faults[kind] + 1 \in 0..MaxFaults
  BY <1>1, EngineAssumption
<1>3. QED BY <1>1, <1>2 DEF FaultsTyped

\* A start that fails keeps the nodes and the faults typed.
LEMMA StartFailsTyped ==
  ASSUME NodesTyped, FaultsTyped, NEW p \in Procs, StartProcFails(p)
  PROVE  NodesTyped' /\ FaultsTyped'
<1>1. CASE Fault("lost") /\ Begins(p) /\ unitFile' = [unitFile EXCEPT ![p] = "enabled"]
  BY <1>1, FaultTyped DEF NodesTyped, Begins, Kinds
<1>2. CASE UNCHANGED faults
  BY <1>2 DEF NodesTyped, FaultsTyped, StartProcFails, Begins, Ends, lives
<1>3. QED BY <1>1, <1>2 DEF StartProcFails

\* Every step preserves the type invariant.
LEMMA TypeStep ==
  ASSUME TypeOK, LocalsFit, [Next]_vars
  PROVE  TypeOK'
<1> USE EngineAssumption, TypeParts DEF LocalsFit, OthersTyped, locals, lives, history
<1>0. \A r \in Requests : done[r] < NRoles => done[r] + 1 \in Roles
  BY DEF RequestsTyped, Roles
<1>1. ASSUME NEW r \in Requests, Deploy(r) PROVE TypeOK'
  <2>1. deploys + 1 \in Deploys
    BY <1>1 DEF Deploy, Deploys
  <2>2. CallTeardown(r, "dispose", ProcsOf(runtime), {}) /\ unitFile' = unitFile
    BY <1>1 DEF Deploy
  <2>3. NodesTyped' /\ jobs' \in SUBSET Jobs
    BY <2>2, CalledTyped, ProcsTyped
  <2>4. RequestsTyped'
    BY <1>1, <2>1, EnterTyped DEF Deploy, RequestsTyped
  <2>5. QED BY <1>1, <2>1, <2>3, <2>4 DEF Deploy, Deploys, FaultsTyped
<1>2. ASSUME NEW r \in Requests, Start(r) PROVE TypeOK'
  BY <1>2, EnterTyped
  DEF Start, Begin, RequestsTyped, NodesTyped, FaultsTyped
<1>3. ASSUME NEW r \in Requests, Stop(r) PROVE TypeOK'
  BY <1>3, EnterTyped
  DEF Stop, Begin, RequestsTyped, NodesTyped, FaultsTyped
<1>4. ASSUME NEW r \in Requests, Restart(r) PROVE TypeOK'
  BY <1>4, EnterTyped
  DEF Restart, Begin, RequestsTyped, NodesTyped, FaultsTyped
<1>5. ASSUME NEW r \in Requests, Remove(r) PROVE TypeOK'
  <2>1. CallTeardown(r, "dispose", ProcsOf(runtime), {}) /\ unitFile' = unitFile
    BY <1>5 DEF Remove, Begin
  <2>2. NodesTyped' /\ jobs' \in SUBSET Jobs
    BY <2>1, CalledTyped, ProcsTyped
  <2>3. QED BY <1>5, <2>2, EnterTyped DEF Remove, Begin, RequestsTyped, FaultsTyped
<1>6. ASSUME NEW r \in Requests, Replaced(r) PROVE TypeOK'
  BY <1>6 DEF Replaced, Goto, RequestsTyped, PcTyped, NodesTyped, FaultsTyped
<1>7. ASSUME NEW r \in Requests, Planned(r) PROVE TypeOK'
  BY <1>7 DEF Planned, Goto, RequestsTyped, PcTyped, NodesTyped, FaultsTyped
<1>8. ASSUME NEW r \in Requests, PlanFails(r) PROVE TypeOK'
  BY <1>8, ReturnTyped DEF PlanFails, Ops, NodesTyped, FaultsTyped
<1>9. ASSUME NEW r \in Requests, DeployStarts(r) PROVE TypeOK'
  <2>1. mine[r] \in {Untracked} \cup Deploys /\ done[r] < NRoles /\ done[r] + 1 \in Roles
    BY <1>9, <1>0 DEF DeployStarts, RequestsTyped, Loops
  <2>2. Proc(mine[r], done[r] + 1) \in Procs
    BY <2>1, ProcTyped
  <2>3. RequestsTyped' /\ NodesTyped'
    BY <1>9, <2>1, <2>2, PassTyped, NodeTyped DEF DeployStarts, Ops
  <2>4. QED BY <1>9, <2>1, <2>3 DEF DeployStarts, Recorded, FaultsTyped
<1>10. ASSUME NEW r \in Requests, DeployStartFails(r) PROVE TypeOK'
  <2>1. mine[r] \in {Untracked} \cup Deploys /\ done[r] < NRoles /\ done[r] + 1 \in Roles
    BY <1>10, <1>0 DEF DeployStartFails, RequestsTyped, Loops
  <2>2. Proc(mine[r], done[r] + 1) \in Procs
    BY <2>1, ProcTyped
  <2>3. 1..done[r] \in SUBSET Roles
    BY <2>1 DEF Roles, RequestsTyped
  <2>4. Rollback(r) \in SUBSET Procs
    BY <2>1, <2>3, ProcsTyped DEF Rollback
  <2>5. NodesTyped' /\ FaultsTyped' /\ jobs' \in SUBSET Jobs
    <3>1. CASE childMode
      BY <1>10, <2>4, <3>1, CalledTyped DEF DeployStartFails, FaultsTyped
    <3>2. CASE ~childMode
      <4>1. NodesTyped' /\ FaultsTyped'
        BY <1>10, <2>2, <3>2, StartFailsTyped DEF DeployStartFails
      <4>2. Teardown(r, "dispose", Rollback(r)) \subseteq Jobs
        BY <2>4 DEF Teardown, Jobs
      <4>3. QED BY <1>10, <3>2, <4>1, <4>2 DEF DeployStartFails
    <3>3. QED BY <3>1, <3>2
  <2>6. RequestsTyped'
    BY <1>10 DEF DeployStartFails, Goto, RequestsTyped, PcTyped
  <2>7. QED BY <1>10, <2>5, <2>6 DEF DeployStartFails
<1>11. ASSUME NEW r \in Requests, RolledBack(r) PROVE TypeOK'
  BY <1>11, ReturnTyped DEF RolledBack, Ops, NodesTyped, FaultsTyped
<1>12. ASSUME NEW r \in Requests, StartStarts(r) PROVE TypeOK'
  <2>1. mine[r] \in {Untracked} \cup Deploys /\ done[r] < NRoles /\ done[r] + 1 \in Roles
    BY <1>12, <1>0 DEF StartStarts, RequestsTyped, Loops
  <2>2. Proc(mine[r], done[r] + 1) \in Procs
    BY <2>1, ProcTyped
  <2>3. RequestsTyped' /\ NodesTyped'
    BY <1>12, <2>1, <2>2, PassTyped, NodeTyped DEF StartStarts, Ops
  <2>4. QED BY <1>12, <2>1, <2>3 DEF StartStarts, FaultsTyped
<1>13. ASSUME NEW r \in Requests, StartFails(r) PROVE TypeOK'
  <2>1. mine[r] \in {Untracked} \cup Deploys /\ done[r] < NRoles /\ done[r] + 1 \in Roles
    BY <1>13, <1>0 DEF StartFails, RequestsTyped, Loops
  <2>2. Proc(mine[r], done[r] + 1) \in Procs
    BY <2>1, ProcTyped
  <2>3. QED BY <1>13, <2>2, StartFailsTyped, ReturnTyped DEF StartFails, Ops
<1>14. ASSUME NEW r \in Requests, RestartRestarts(r) PROVE TypeOK'
  <2>1. mine[r] \in {Untracked} \cup Deploys /\ done[r] < NRoles /\ done[r] + 1 \in Roles
    BY <1>14, <1>0 DEF RestartRestarts, RequestsTyped, Loops
  <2>2. Proc(mine[r], done[r] + 1) \in Procs
    BY <2>1, ProcTyped
  <2>3. RequestsTyped'
    BY <1>14, <2>1, PassTyped DEF RestartRestarts, Ops
  <2>4. NodesTyped' /\ FaultsTyped'
    BY <1>14, <2>2, FaultTyped DEF RestartRestarts, RestartProc, Begins, NodesTyped, FaultsTyped, Kinds
  <2>5. QED BY <1>14, <2>3, <2>4 DEF RestartRestarts
<1>15. ASSUME NEW r \in Requests, RestartThrows(r) PROVE TypeOK'
  BY <1>15, ReturnTyped DEF RestartThrows, Ends, Ops, NodesTyped, FaultsTyped
<1>16. ASSUME NEW r \in Requests, RestartNoUnit(r) PROVE TypeOK'
  <2>1. mine[r] \in {Untracked} \cup Deploys /\ done[r] < NRoles /\ done[r] + 1 \in Roles
    BY <1>16, <1>0 DEF RestartNoUnit, RequestsTyped, Loops
  <2>2. Proc(mine[r], done[r] + 1) \in Procs
    BY <2>1, ProcTyped
  <2>3. QED BY <1>16, <2>1, PassTyped DEF RestartNoUnit, Ops, NodesTyped, FaultsTyped
<1>17. ASSUME NEW r \in Requests, Probe(r) PROVE TypeOK'
  <2>1. mine[r] \in {Untracked} \cup Deploys /\ done[r] < NRoles /\ done[r] + 1 \in Roles
    BY <1>17, <1>0 DEF Probe, RequestsTyped, Loops
  <2>2. PICK running \in BOOLEAN :
          LET found == still[r] \cup (IF running THEN {done[r] + 1} ELSE {})
              passed == (IF running THEN {} ELSE {Proc(mine[r], done[r] + 1)}) \cap (waiting \cup spawning) IN
          /\ Probed(Proc(mine[r], done[r] + 1), running)
          /\ still' = [still EXCEPT ![r] = found]
          /\ IF done[r] + 1 = NRoles
             THEN /\ Goto(r, "stopping")
                  /\ CallTeardown(r, "stop", {Proc(mine[r], i) : i \in found}, passed)
             ELSE missed' = missed \cup passed /\ UNCHANGED <<pc, jobs, alive, waiting, spawning, gone>>
    BY <1>17 DEF Probe
  <2> DEFINE found == still[r] \cup (IF running THEN {done[r] + 1} ELSE {})
             passed == (IF running THEN {} ELSE {Proc(mine[r], done[r] + 1)}) \cap (waiting \cup spawning)
  <2>3. found \in SUBSET Roles
    BY <2>1 DEF RequestsTyped
  <2>4. RequestsTyped'
    BY <1>17, <2>1, <2>2, <2>3 DEF Probe, Goto, RequestsTyped, PcTyped
  <2>5. {Proc(mine[r], i) : i \in found} \in SUBSET Procs /\ passed \in SUBSET Procs
    BY <2>1, <2>3, ProcsTyped DEF NodesTyped
  <2>6. unitFile' = unitFile
    BY <1>17 DEF Probe
  <2>7. NodesTyped' /\ jobs' \in SUBSET Jobs
    <3> HIDE DEF found
    <3>1. CASE done[r] + 1 = NRoles
      BY <2>2, <2>5, <2>6, <3>1, CalledTyped DEF found
    <3>2. CASE done[r] + 1 # NRoles
      BY <2>2, <2>5, <2>6, <3>2 DEF NodesTyped
    <3>3. QED BY <3>1, <3>2
  <2>8. FaultsTyped'
    BY <2>2, FaultTyped DEF Probed, Kinds, FaultsTyped
  <2>9. QED BY <1>17, <2>4, <2>7, <2>8 DEF Probe
<1>18. ASSUME NEW r \in Requests, Stopped(r) PROVE TypeOK'
  BY <1>18, ReturnTyped DEF Stopped, Ops, NodesTyped, FaultsTyped
<1>19. ASSUME NEW r \in Requests, Removed(r) PROVE TypeOK'
  BY <1>19, ReturnTyped DEF Removed, Ops, NodesTyped, FaultsTyped
<1>20. ASSUME NEW r \in Requests, TeardownTimesOut(r) PROVE TypeOK'
  <2>1. RequestsTyped' /\ FaultsTyped'
    BY <1>20, ReturnTyped, FaultTyped DEF TeardownTimesOut, Ops, Kinds
  <2>2. jobs' \in SUBSET Jobs
    BY <1>20 DEF TeardownTimesOut, JobsOf, Jobs
  <2>3. QED BY <1>20, <2>1, <2>2 DEF TeardownTimesOut, NodesTyped
<1>21. ASSUME NEW j \in jobs, TeardownDone(j) PROVE TypeOK'
  BY <1>21, FaultTyped DEF TeardownDone, Ends, Answered, RequestsTyped, PcTyped, NodesTyped, FaultsTyped, Kinds
<1>22. ASSUME NEW j \in jobs, TeardownLost(j) PROVE TypeOK'
  BY <1>22, FaultTyped DEF TeardownLost, RequestsTyped, PcTyped, NodesTyped, FaultsTyped, Kinds
<1>23. ASSUME NEW p \in Procs, ByItself(p) PROVE TypeOK'
  BY <1>23, ByItselfKeeps DEF RequestsTyped, PcTyped
<1>24. CASE UNCHANGED vars
  BY <1>24 DEF vars, RequestsTyped, PcTyped, NodesTyped, FaultsTyped
<1>25. QED BY <1>1, <1>2, <1>3, <1>4, <1>5, <1>6, <1>7, <1>8, <1>9, <1>10, <1>11, <1>12, <1>13, <1>14, <1>15, <1>16, <1>17, <1>18, <1>19, <1>20, <1>21, <1>22, <1>23, <1>24 DEF Next, Advance, Ignored, ByItself

\* Whatever a step tears down, no more runs for it and no teardown is forgotten.
CallKeeps(r, label) ==
    /\ alive' \subseteq alive /\ gone \subseteq gone' /\ missed \subseteq missed' /\ jobs \subseteq jobs'
    /\ \A j \in jobs' : j \in jobs \/ (j.owner = r /\ pc'[r] = label)

\* So it is for a redeploy,
LEMMA DeployCalls ==
  ASSUME TypeOK, NEW r \in Requests, Deploy(r)
  PROVE  CallKeeps(r, "replacing")
<1>1. CASE runtime = Untracked
  <2>1. CallTeardown(r, "dispose", {}, {})
    BY <1>1 DEF Deploy, ProcsOf
  <2>2. QED BY <2>1, Called DEF CallKeeps
<1>2. CASE runtime # Untracked
  <2>1. CallTeardown(r, "dispose", ProcsOf(runtime), {}) /\ pc'[r] = "replacing"
    BY <1>2 DEF Deploy, Enter, Goto, TypeOK
  <2>2. QED BY <2>1, Called DEF CallKeeps
<1>3. QED BY <1>1, <1>2

\* for a removal,
LEMMA RemoveCalls ==
  ASSUME TypeOK, NEW r \in Requests, Remove(r)
  PROVE  CallKeeps(r, "removing")
<1>1. CallTeardown(r, "dispose", ProcsOf(runtime), {}) /\ pc'[r] = "removing"
  BY DEF Remove, Begin, Enter, Goto, TypeOK
<1>2. QED BY <1>1, Called DEF CallKeeps

\* and for a stop.
LEMMA ProbeCalls ==
  ASSUME TypeOK, NEW r \in Requests, Probe(r)
  PROVE  CallKeeps(r, "stopping")
<1>1. PICK running \in BOOLEAN :
          LET found == still[r] \cup (IF running THEN {done[r] + 1} ELSE {})
              passed == (IF running THEN {} ELSE {Proc(mine[r], done[r] + 1)}) \cap (waiting \cup spawning) IN
          /\ Probed(Proc(mine[r], done[r] + 1), running)
          /\ still' = [still EXCEPT ![r] = found]
          /\ IF done[r] + 1 = NRoles
             THEN /\ Goto(r, "stopping")
                  /\ CallTeardown(r, "stop", {Proc(mine[r], i) : i \in found}, passed)
             ELSE missed' = missed \cup passed /\ UNCHANGED <<pc, jobs, alive, waiting, spawning, gone>>
  BY DEF Probe
<1>2. CASE done[r] + 1 = NRoles
  BY <1>1, <1>2, Called DEF CallKeeps, Goto, TypeOK
<1>3. CASE done[r] + 1 # NRoles
  BY <1>1, <1>3 DEF CallKeeps
<1>4. QED BY <1>2, <1>3

\* Every step keeps the locals of the requests in order.
LEMMA LocalsStep ==
  ASSUME TypeOK, LocalsFit, [Next]_vars
  PROVE  LocalsFit'
<1> USE EngineAssumption DEF LocalsFit, Loops, TypeOK, Untracked, Deploys, Roles, history, locals, lives
<1>1. ASSUME NEW r \in Requests, Deploy(r) PROVE LocalsFit'
  BY <1>1, Called DEF Deploy, Enter, Goto, Teardown
<1>2. ASSUME NEW r \in Requests, Start(r) PROVE LocalsFit'
  BY <1>2 DEF Start, Begin, Enter, Goto
<1>3. ASSUME NEW r \in Requests, Stop(r) PROVE LocalsFit'
  BY <1>3 DEF Stop, Begin, Enter, Goto
<1>4. ASSUME NEW r \in Requests, Restart(r) PROVE LocalsFit'
  BY <1>4 DEF Restart, Begin, Enter, Goto
<1>5. ASSUME NEW r \in Requests, Remove(r) PROVE LocalsFit'
  BY <1>5, Called DEF Remove, Begin, Enter, Goto
<1>6. ASSUME NEW r \in Requests, Replaced(r) PROVE LocalsFit'
  BY <1>6 DEF Replaced, Goto, JobsOf
<1>7. ASSUME NEW r \in Requests, Planned(r) PROVE LocalsFit'
  BY <1>7 DEF Planned, Goto
<1>8. ASSUME NEW r \in Requests, PlanFails(r) PROVE LocalsFit'
  BY <1>8 DEF PlanFails, Return, Goto
<1>9. ASSUME NEW r \in Requests, DeployStarts(r) PROVE LocalsFit'
  BY <1>9 DEF DeployStarts, StartProc, Begins, Recorded, Pass, Return, Goto
<1>10. ASSUME NEW r \in Requests, DeployStartFails(r) PROVE LocalsFit'
  BY <1>10 DEF DeployStartFails, StartProcFails, Begins, Ends, Fault, Goto
<1>11. ASSUME NEW r \in Requests, RolledBack(r) PROVE LocalsFit'
  BY <1>11 DEF RolledBack, Return, Goto, JobsOf
<1>12. ASSUME NEW r \in Requests, StartStarts(r) PROVE LocalsFit'
  BY <1>12 DEF StartStarts, StartProc, Begins, Pass, Return, Goto
<1>13. ASSUME NEW r \in Requests, StartFails(r) PROVE LocalsFit'
  BY <1>13 DEF StartFails, StartProcFails, Begins, Ends, Fault, Return, Goto
<1>14. ASSUME NEW r \in Requests, RestartRestarts(r) PROVE LocalsFit'
  BY <1>14 DEF RestartRestarts, RestartProc, Begins, Fault, Pass, Return, Goto
<1>15. ASSUME NEW r \in Requests, RestartThrows(r) PROVE LocalsFit'
  BY <1>15 DEF RestartThrows, Ends, Return, Goto
<1>16. ASSUME NEW r \in Requests, RestartNoUnit(r) PROVE LocalsFit'
  BY <1>16 DEF RestartNoUnit, Pass, Return, Goto
<1>17. ASSUME NEW r \in Requests, Probe(r) PROVE LocalsFit'
  BY <1>17 DEF Probe, Probed, Fault, Goto
<1>18. ASSUME NEW r \in Requests, Stopped(r) PROVE LocalsFit'
  BY <1>18 DEF Stopped, Return, Goto, JobsOf
<1>19. ASSUME NEW r \in Requests, Removed(r) PROVE LocalsFit'
  BY <1>19 DEF Removed, Return, Goto, JobsOf
<1>20. ASSUME NEW r \in Requests, TeardownTimesOut(r) PROVE LocalsFit'
  BY <1>20 DEF TeardownTimesOut, Fault, JobsOf, Return, Goto
<1>21. ASSUME NEW j \in jobs, TeardownDone(j) PROVE LocalsFit'
  BY <1>21 DEF TeardownDone, Ends, Answered
<1>22. ASSUME NEW j \in jobs, TeardownLost(j) PROVE LocalsFit'
  BY <1>22 DEF TeardownLost, Fault
<1>23. ASSUME NEW p \in Procs, ByItself(p) PROVE LocalsFit'
  BY <1>23, ByItselfKeeps
<1>24. CASE UNCHANGED vars
  BY <1>24 DEF vars, locals, lives, history
<1>25. QED BY <1>1, <1>2, <1>3, <1>4, <1>5, <1>6, <1>7, <1>8, <1>9, <1>10, <1>11, <1>12, <1>13, <1>14, <1>15, <1>16, <1>17, <1>18, <1>19, <1>20, <1>21, <1>22, <1>23, <1>24 DEF Next, Advance, Ignored, ByItself

\* Every step keeps the teardowns with requests that await them.
LEMMA OwnersStep ==
  ASSUME TypeOK, LocalsFit, OwnersAwait, [Next]_vars
  PROVE  OwnersAwait'
<1> USE EngineAssumption DEF OwnersAwait, Awaiting, Loops, Jobs, Kinds, TypeOK, Untracked, Deploys, Roles, history, locals, lives
<1>1. ASSUME NEW r \in Requests, Deploy(r) PROVE OwnersAwait'
  <2>1. CallKeeps(r, "replacing") /\ faults' = faults /\ pc[r] = "idle"
    BY <1>1, DeployCalls DEF Deploy
  <2>2. \A q \in Requests \ {r} : pc'[q] = pc[q]
    BY <1>1 DEF Deploy, Enter, Goto
  <2>3. \A j \in jobs : j.owner # r
    BY <2>1
  <2>4. QED BY <2>1, <2>2, <2>3 DEF CallKeeps
<1>2. ASSUME NEW r \in Requests, Start(r) PROVE OwnersAwait'
  BY <1>2 DEF Start, Begin, Enter, Goto
<1>3. ASSUME NEW r \in Requests, Stop(r) PROVE OwnersAwait'
  BY <1>3 DEF Stop, Begin, Enter, Goto
<1>4. ASSUME NEW r \in Requests, Restart(r) PROVE OwnersAwait'
  BY <1>4 DEF Restart, Begin, Enter, Goto
<1>5. ASSUME NEW r \in Requests, Remove(r) PROVE OwnersAwait'
  BY <1>5, Called DEF Remove, Begin, Enter, Goto
<1>6. ASSUME NEW r \in Requests, Replaced(r) PROVE OwnersAwait'
  BY <1>6 DEF Replaced, Goto, JobsOf
<1>7. ASSUME NEW r \in Requests, Planned(r) PROVE OwnersAwait'
  BY <1>7 DEF Planned, Goto
<1>8. ASSUME NEW r \in Requests, PlanFails(r) PROVE OwnersAwait'
  BY <1>8 DEF PlanFails, Return, Goto
<1>9. ASSUME NEW r \in Requests, DeployStarts(r) PROVE OwnersAwait'
  BY <1>9 DEF DeployStarts, StartProc, Begins, Recorded, Pass, Return, Goto
<1>10. ASSUME NEW r \in Requests, DeployStartFails(r) PROVE OwnersAwait'
  <2>1. \A j \in jobs' : j \in jobs \/ j.owner = r
    <3>1. CASE childMode
      BY <1>10, <3>1, Called DEF DeployStartFails
    <3>2. CASE ~childMode
      BY <1>10, <3>2 DEF DeployStartFails, Teardown
    <3>3. QED BY <3>1, <3>2
  <2>2. pc' = [pc EXCEPT ![r] = "rollback"]
    BY <1>10 DEF DeployStartFails, Goto
  <2>3. faults["slow"] > 0 => faults'["slow"] > 0
    <3>1. faults["slow"] \in Nat /\ (UNCHANGED faults \/ Fault("lost"))
      BY <1>10 DEF DeployStartFails, StartProcFails
    <3>2. QED BY <3>1 DEF Fault
  <2>4. QED BY <2>1, <2>2, <2>3
<1>11. ASSUME NEW r \in Requests, RolledBack(r) PROVE OwnersAwait'
  BY <1>11 DEF RolledBack, Return, Goto, JobsOf
<1>12. ASSUME NEW r \in Requests, StartStarts(r) PROVE OwnersAwait'
  BY <1>12 DEF StartStarts, StartProc, Begins, Pass, Return, Goto
<1>13. ASSUME NEW r \in Requests, StartFails(r) PROVE OwnersAwait'
  BY <1>13 DEF StartFails, StartProcFails, Begins, Ends, Fault, Return, Goto
<1>14. ASSUME NEW r \in Requests, RestartRestarts(r) PROVE OwnersAwait'
  BY <1>14 DEF RestartRestarts, RestartProc, Begins, Fault, Pass, Return, Goto
<1>15. ASSUME NEW r \in Requests, RestartThrows(r) PROVE OwnersAwait'
  BY <1>15 DEF RestartThrows, Ends, Return, Goto
<1>16. ASSUME NEW r \in Requests, RestartNoUnit(r) PROVE OwnersAwait'
  BY <1>16 DEF RestartNoUnit, Pass, Return, Goto
<1>17. ASSUME NEW r \in Requests, Probe(r) PROVE OwnersAwait'
  <2>1. \A q \in Requests \ {r} : pc'[q] = pc[q]
    BY <1>17 DEF Probe, Goto
  <2>2. pc'[r] = "probing" \/ pc'[r] = "stopping"
    BY <1>17 DEF Probe, Goto
  <2>3. faults["slow"] > 0 => faults'["slow"] > 0
    BY <1>17 DEF Probe, Probed, Fault
  <2>4. \A j \in jobs : j.owner # r
    BY <1>17 DEF Probe
  <2>5. QED BY <1>17, <2>1, <2>2, <2>3, <2>4, ProbeCalls DEF CallKeeps
<1>18. ASSUME NEW r \in Requests, Stopped(r) PROVE OwnersAwait'
  BY <1>18 DEF Stopped, Return, Goto, JobsOf
<1>19. ASSUME NEW r \in Requests, Removed(r) PROVE OwnersAwait'
  BY <1>19 DEF Removed, Return, Goto, JobsOf
<1>20. ASSUME NEW r \in Requests, TeardownTimesOut(r) PROVE OwnersAwait'
  BY <1>20 DEF TeardownTimesOut, Fault, JobsOf, Return, Goto
<1>21. ASSUME NEW j \in jobs, TeardownDone(j) PROVE OwnersAwait'
  BY <1>21 DEF TeardownDone, Ends, Answered
<1>22. ASSUME NEW j \in jobs, TeardownLost(j) PROVE OwnersAwait'
  BY <1>22 DEF TeardownLost, Fault
<1>23. ASSUME NEW p \in Procs, ByItself(p) PROVE OwnersAwait'
  BY <1>23, ByItselfKeeps
<1>24. CASE UNCHANGED vars
  BY <1>24 DEF vars, locals, lives, history
<1>25. QED BY <1>1, <1>2, <1>3, <1>4, <1>5, <1>6, <1>7, <1>8, <1>9, <1>10, <1>11, <1>12, <1>13, <1>14, <1>15, <1>16, <1>17, <1>18, <1>19, <1>20, <1>21, <1>22, <1>23, <1>24 DEF Next, Advance, Ignored, ByItself

\* What the history records when an operation begins beside others.
LEMMA EnterRecords ==
  ASSUME TypeOK, NEW r \in Requests, NEW label, Enter(r, label)
  PROVE  /\ Alone' => Alone /\ \A q \in Requests \ {r} : pc[q] = "idle"
         /\ Kept' => Kept /\ \A q \in Requests \ {r} :
                pc[q] # "idle" => pc[q] \notin Replacing /\ label \notin Replacing
<1> DEFINE others == {pc[q] : q \in Requests \ {r}} \ {"idle"}
<1>1. ASSUME NEW q \in Requests \ {r}, pc[q] # "idle" PROVE pc[q] \in others
  BY <1>1
<1>2. /\ others = {} => overlapped' = overlapped
      /\ others # {} => overlapped' # "never" /\ (overlapped = "replaced" => overlapped' = "replaced")
      /\ others # {} /\ (label \in Replacing \/ others \cap Replacing # {}) => overlapped' = "replaced"
  BY DEF Enter
<1> HIDE DEF others
<1>3. QED BY <1>1, <1>2 DEF Alone, Kept

\* Every step keeps the record of overlapping operations true.
LEMMA TurnsStep ==
  ASSUME TypeOK, LocalsFit, TakeTurns, [Next]_vars
  PROVE  TakeTurns'
<1> USE EngineAssumption DEF TakeTurns, Alone, Kept, Replacing, Loops, TypeOK, Untracked, Deploys, Roles, history, locals, lives
<1>1. ASSUME NEW r \in Requests, Deploy(r) PROVE TakeTurns'
  <2>1. /\ Alone' => Alone /\ \A q \in Requests \ {r} : pc[q] = "idle"
        /\ Kept' => Kept /\ \A q \in Requests \ {r} : pc[q] = "idle"
    BY <1>1, EnterRecords DEF Deploy
  <2>2. \A q \in Requests \ {r} : pc'[q] = pc[q]
    BY <1>1 DEF Deploy, Enter, Goto
  <2>3. QED BY <2>1, <2>2
<1>2. ASSUME NEW r \in Requests, Start(r) PROVE TakeTurns'
  <2>1. /\ Alone' => Alone /\ \A q \in Requests \ {r} : pc[q] = "idle"
        /\ Kept' => Kept /\ \A q \in Requests \ {r} : pc[q] \notin Replacing
    BY <1>2, EnterRecords DEF Start, Begin
  <2>2. \A q \in Requests \ {r} : pc'[q] = pc[q]
    BY <1>2 DEF Start, Begin, Enter, Goto
  <2>3. pc'[r] \notin Replacing
    BY <1>2 DEF Start, Begin, Enter, Goto
  <2>4. QED BY <2>1, <2>2, <2>3
<1>3. ASSUME NEW r \in Requests, Stop(r) PROVE TakeTurns'
  <2>1. /\ Alone' => Alone /\ \A q \in Requests \ {r} : pc[q] = "idle"
        /\ Kept' => Kept /\ \A q \in Requests \ {r} : pc[q] \notin Replacing
    BY <1>3, EnterRecords DEF Stop, Begin
  <2>2. \A q \in Requests \ {r} : pc'[q] = pc[q]
    BY <1>3 DEF Stop, Begin, Enter, Goto
  <2>3. pc'[r] \notin Replacing
    BY <1>3 DEF Stop, Begin, Enter, Goto
  <2>4. QED BY <2>1, <2>2, <2>3
<1>4. ASSUME NEW r \in Requests, Restart(r) PROVE TakeTurns'
  <2>1. /\ Alone' => Alone /\ \A q \in Requests \ {r} : pc[q] = "idle"
        /\ Kept' => Kept /\ \A q \in Requests \ {r} : pc[q] \notin Replacing
    BY <1>4, EnterRecords DEF Restart, Begin
  <2>2. \A q \in Requests \ {r} : pc'[q] = pc[q]
    BY <1>4 DEF Restart, Begin, Enter, Goto
  <2>3. pc'[r] \notin Replacing
    BY <1>4 DEF Restart, Begin, Enter, Goto
  <2>4. QED BY <2>1, <2>2, <2>3
<1>5. ASSUME NEW r \in Requests, Remove(r) PROVE TakeTurns'
  <2>1. /\ Alone' => Alone /\ \A q \in Requests \ {r} : pc[q] = "idle"
        /\ Kept' => Kept /\ \A q \in Requests \ {r} : pc[q] = "idle"
    BY <1>5, EnterRecords DEF Remove, Begin
  <2>2. \A q \in Requests \ {r} : pc'[q] = pc[q]
    BY <1>5 DEF Remove, Begin, Enter, Goto
  <2>3. QED BY <2>1, <2>2
<1>6. ASSUME NEW r \in Requests, Replaced(r) PROVE TakeTurns'
  BY <1>6 DEF Replaced, Goto, JobsOf
<1>7. ASSUME NEW r \in Requests, Planned(r) PROVE TakeTurns'
  BY <1>7 DEF Planned, Goto
<1>8. ASSUME NEW r \in Requests, PlanFails(r) PROVE TakeTurns'
  BY <1>8 DEF PlanFails, Return, Goto
<1>9. ASSUME NEW r \in Requests, DeployStarts(r) PROVE TakeTurns'
  BY <1>9 DEF DeployStarts, StartProc, Begins, Recorded, Pass, Return, Goto
<1>10. ASSUME NEW r \in Requests, DeployStartFails(r) PROVE TakeTurns'
  BY <1>10 DEF DeployStartFails, StartProcFails, Begins, Ends, Fault, Goto
<1>11. ASSUME NEW r \in Requests, RolledBack(r) PROVE TakeTurns'
  BY <1>11 DEF RolledBack, Return, Goto, JobsOf
<1>12. ASSUME NEW r \in Requests, StartStarts(r) PROVE TakeTurns'
  BY <1>12 DEF StartStarts, StartProc, Begins, Pass, Return, Goto
<1>13. ASSUME NEW r \in Requests, StartFails(r) PROVE TakeTurns'
  BY <1>13 DEF StartFails, StartProcFails, Begins, Ends, Fault, Return, Goto
<1>14. ASSUME NEW r \in Requests, RestartRestarts(r) PROVE TakeTurns'
  BY <1>14 DEF RestartRestarts, RestartProc, Begins, Fault, Pass, Return, Goto
<1>15. ASSUME NEW r \in Requests, RestartThrows(r) PROVE TakeTurns'
  BY <1>15 DEF RestartThrows, Ends, Return, Goto
<1>16. ASSUME NEW r \in Requests, RestartNoUnit(r) PROVE TakeTurns'
  BY <1>16 DEF RestartNoUnit, Pass, Return, Goto
<1>17. ASSUME NEW r \in Requests, Probe(r) PROVE TakeTurns'
  BY <1>17 DEF Probe, Probed, Fault, Goto
<1>18. ASSUME NEW r \in Requests, Stopped(r) PROVE TakeTurns'
  BY <1>18 DEF Stopped, Return, Goto, JobsOf
<1>19. ASSUME NEW r \in Requests, Removed(r) PROVE TakeTurns'
  BY <1>19 DEF Removed, Return, Goto, JobsOf
<1>20. ASSUME NEW r \in Requests, TeardownTimesOut(r) PROVE TakeTurns'
  BY <1>20 DEF TeardownTimesOut, Fault, JobsOf, Return, Goto
<1>21. ASSUME NEW j \in jobs, TeardownDone(j) PROVE TakeTurns'
  BY <1>21 DEF TeardownDone, Ends, Answered
<1>22. ASSUME NEW j \in jobs, TeardownLost(j) PROVE TakeTurns'
  BY <1>22 DEF TeardownLost, Fault
<1>23. ASSUME NEW p \in Procs, ByItself(p) PROVE TakeTurns'
  BY <1>23, ByItselfKeeps
<1>24. CASE UNCHANGED vars
  BY <1>24 DEF vars, locals, lives, history
<1>25. QED BY <1>1, <1>2, <1>3, <1>4, <1>5, <1>6, <1>7, <1>8, <1>9, <1>10, <1>11, <1>12, <1>13, <1>14, <1>15, <1>16, <1>17, <1>18, <1>19, <1>20, <1>21, <1>22, <1>23, <1>24 DEF Next, Advance, Ignored, ByItself

\* Every step leaves what an operation captured in place.
LEMMA TrackingStep ==
  ASSUME TypeOK, LocalsFit, TakeTurns, TakeTurns', Tracking, [Next]_vars
  PROVE  Tracking'
<1> USE EngineAssumption DEF TakeTurns, Tracking, Alone, Kept, Captured, Replacing, Loops, TypeOK, Untracked, Deploys, Roles, history, locals, lives
<1>1. ASSUME NEW r \in Requests, Deploy(r) PROVE Tracking'
  BY <1>1, Called DEF Deploy, Enter, Goto, Teardown
<1>2. ASSUME NEW r \in Requests, Start(r) PROVE Tracking'
  BY <1>2 DEF Start, Begin, Enter, Goto
<1>3. ASSUME NEW r \in Requests, Stop(r) PROVE Tracking'
  BY <1>3 DEF Stop, Begin, Enter, Goto
<1>4. ASSUME NEW r \in Requests, Restart(r) PROVE Tracking'
  BY <1>4 DEF Restart, Begin, Enter, Goto
<1>5. ASSUME NEW r \in Requests, Remove(r) PROVE Tracking'
  BY <1>5, Called DEF Remove, Begin, Enter, Goto
<1>6. ASSUME NEW r \in Requests, Replaced(r) PROVE Tracking'
  BY <1>6 DEF Replaced, Goto, JobsOf
<1>7. ASSUME NEW r \in Requests, Planned(r) PROVE Tracking'
  BY <1>7 DEF Planned, Goto
<1>8. ASSUME NEW r \in Requests, PlanFails(r) PROVE Tracking'
  BY <1>8 DEF PlanFails, Return, Goto
<1>9. ASSUME NEW r \in Requests, DeployStarts(r) PROVE Tracking'
  BY <1>9 DEF DeployStarts, StartProc, Begins, Recorded, Pass, Return, Goto
<1>10. ASSUME NEW r \in Requests, DeployStartFails(r) PROVE Tracking'
  BY <1>10 DEF DeployStartFails, StartProcFails, Begins, Ends, Fault, Goto
<1>11. ASSUME NEW r \in Requests, RolledBack(r) PROVE Tracking'
  BY <1>11 DEF RolledBack, Return, Goto, JobsOf
<1>12. ASSUME NEW r \in Requests, StartStarts(r) PROVE Tracking'
  BY <1>12 DEF StartStarts, StartProc, Begins, Pass, Return, Goto
<1>13. ASSUME NEW r \in Requests, StartFails(r) PROVE Tracking'
  BY <1>13 DEF StartFails, StartProcFails, Begins, Ends, Fault, Return, Goto
<1>14. ASSUME NEW r \in Requests, RestartRestarts(r) PROVE Tracking'
  BY <1>14 DEF RestartRestarts, RestartProc, Begins, Fault, Pass, Return, Goto
<1>15. ASSUME NEW r \in Requests, RestartThrows(r) PROVE Tracking'
  BY <1>15 DEF RestartThrows, Ends, Return, Goto
<1>16. ASSUME NEW r \in Requests, RestartNoUnit(r) PROVE Tracking'
  BY <1>16 DEF RestartNoUnit, Pass, Return, Goto
<1>17. ASSUME NEW r \in Requests, Probe(r) PROVE Tracking'
  BY <1>17 DEF Probe, Probed, Fault, Goto
<1>18. ASSUME NEW r \in Requests, Stopped(r) PROVE Tracking'
  BY <1>18 DEF Stopped, Return, Goto, JobsOf
<1>19. ASSUME NEW r \in Requests, Removed(r) PROVE Tracking'
  BY <1>19 DEF Removed, Return, Goto, JobsOf
<1>20. ASSUME NEW r \in Requests, TeardownTimesOut(r) PROVE Tracking'
  BY <1>20 DEF TeardownTimesOut, Fault, JobsOf, Return, Goto
<1>21. ASSUME NEW j \in jobs, TeardownDone(j) PROVE Tracking'
  BY <1>21 DEF TeardownDone, Ends, Answered
<1>22. ASSUME NEW j \in jobs, TeardownLost(j) PROVE Tracking'
  BY <1>22 DEF TeardownLost, Fault
<1>23. ASSUME NEW p \in Procs, ByItself(p) PROVE Tracking'
  BY <1>23, ByItselfKeeps
<1>24. CASE UNCHANGED vars
  BY <1>24 DEF vars, locals, lives, history
<1>25. QED BY <1>1, <1>2, <1>3, <1>4, <1>5, <1>6, <1>7, <1>8, <1>9, <1>10, <1>11, <1>12, <1>13, <1>14, <1>15, <1>16, <1>17, <1>18, <1>19, <1>20, <1>21, <1>22, <1>23, <1>24 DEF Next, Advance, Ignored, ByItself

\* What the histories have recorded stays recorded.
LEMMA HistoryGrows ==
  ASSUME TypeOK, [Next]_vars
  PROVE  (Kept' => Kept) /\ (Alone' => Alone) /\ \A k \in {"slow", "lost"} : Never(k)' => Never(k)
<1> USE EngineAssumption DEF Kept, Alone, Never, Kinds, TypeOK, Untracked, Deploys, Roles, history, locals, lives
<1>1. ASSUME NEW r \in Requests, Deploy(r) PROVE (Kept' => Kept) /\ (Alone' => Alone) /\ \A k \in {"slow", "lost"} : Never(k)' => Never(k)
  BY <1>1, Called DEF Deploy, Enter, Goto, Teardown
<1>2. ASSUME NEW r \in Requests, Start(r) PROVE (Kept' => Kept) /\ (Alone' => Alone) /\ \A k \in {"slow", "lost"} : Never(k)' => Never(k)
  BY <1>2 DEF Start, Begin, Enter, Goto
<1>3. ASSUME NEW r \in Requests, Stop(r) PROVE (Kept' => Kept) /\ (Alone' => Alone) /\ \A k \in {"slow", "lost"} : Never(k)' => Never(k)
  BY <1>3 DEF Stop, Begin, Enter, Goto
<1>4. ASSUME NEW r \in Requests, Restart(r) PROVE (Kept' => Kept) /\ (Alone' => Alone) /\ \A k \in {"slow", "lost"} : Never(k)' => Never(k)
  BY <1>4 DEF Restart, Begin, Enter, Goto
<1>5. ASSUME NEW r \in Requests, Remove(r) PROVE (Kept' => Kept) /\ (Alone' => Alone) /\ \A k \in {"slow", "lost"} : Never(k)' => Never(k)
  BY <1>5, Called DEF Remove, Begin, Enter, Goto
<1>6. ASSUME NEW r \in Requests, Replaced(r) PROVE (Kept' => Kept) /\ (Alone' => Alone) /\ \A k \in {"slow", "lost"} : Never(k)' => Never(k)
  BY <1>6 DEF Replaced, Goto, JobsOf
<1>7. ASSUME NEW r \in Requests, Planned(r) PROVE (Kept' => Kept) /\ (Alone' => Alone) /\ \A k \in {"slow", "lost"} : Never(k)' => Never(k)
  BY <1>7 DEF Planned, Goto
<1>8. ASSUME NEW r \in Requests, PlanFails(r) PROVE (Kept' => Kept) /\ (Alone' => Alone) /\ \A k \in {"slow", "lost"} : Never(k)' => Never(k)
  BY <1>8 DEF PlanFails, Return, Goto
<1>9. ASSUME NEW r \in Requests, DeployStarts(r) PROVE (Kept' => Kept) /\ (Alone' => Alone) /\ \A k \in {"slow", "lost"} : Never(k)' => Never(k)
  BY <1>9 DEF DeployStarts, StartProc, Begins, Recorded, Pass, Return, Goto
<1>10. ASSUME NEW r \in Requests, DeployStartFails(r) PROVE (Kept' => Kept) /\ (Alone' => Alone) /\ \A k \in {"slow", "lost"} : Never(k)' => Never(k)
  BY <1>10 DEF DeployStartFails, StartProcFails, Begins, Ends, Fault, Goto
<1>11. ASSUME NEW r \in Requests, RolledBack(r) PROVE (Kept' => Kept) /\ (Alone' => Alone) /\ \A k \in {"slow", "lost"} : Never(k)' => Never(k)
  BY <1>11 DEF RolledBack, Return, Goto, JobsOf
<1>12. ASSUME NEW r \in Requests, StartStarts(r) PROVE (Kept' => Kept) /\ (Alone' => Alone) /\ \A k \in {"slow", "lost"} : Never(k)' => Never(k)
  BY <1>12 DEF StartStarts, StartProc, Begins, Pass, Return, Goto
<1>13. ASSUME NEW r \in Requests, StartFails(r) PROVE (Kept' => Kept) /\ (Alone' => Alone) /\ \A k \in {"slow", "lost"} : Never(k)' => Never(k)
  BY <1>13 DEF StartFails, StartProcFails, Begins, Ends, Fault, Return, Goto
<1>14. ASSUME NEW r \in Requests, RestartRestarts(r) PROVE (Kept' => Kept) /\ (Alone' => Alone) /\ \A k \in {"slow", "lost"} : Never(k)' => Never(k)
  BY <1>14 DEF RestartRestarts, RestartProc, Begins, Fault, Pass, Return, Goto
<1>15. ASSUME NEW r \in Requests, RestartThrows(r) PROVE (Kept' => Kept) /\ (Alone' => Alone) /\ \A k \in {"slow", "lost"} : Never(k)' => Never(k)
  BY <1>15 DEF RestartThrows, Ends, Return, Goto
<1>16. ASSUME NEW r \in Requests, RestartNoUnit(r) PROVE (Kept' => Kept) /\ (Alone' => Alone) /\ \A k \in {"slow", "lost"} : Never(k)' => Never(k)
  BY <1>16 DEF RestartNoUnit, Pass, Return, Goto
<1>17. ASSUME NEW r \in Requests, Probe(r) PROVE (Kept' => Kept) /\ (Alone' => Alone) /\ \A k \in {"slow", "lost"} : Never(k)' => Never(k)
  BY <1>17 DEF Probe, Probed, Fault, Goto
<1>18. ASSUME NEW r \in Requests, Stopped(r) PROVE (Kept' => Kept) /\ (Alone' => Alone) /\ \A k \in {"slow", "lost"} : Never(k)' => Never(k)
  BY <1>18 DEF Stopped, Return, Goto, JobsOf
<1>19. ASSUME NEW r \in Requests, Removed(r) PROVE (Kept' => Kept) /\ (Alone' => Alone) /\ \A k \in {"slow", "lost"} : Never(k)' => Never(k)
  BY <1>19 DEF Removed, Return, Goto, JobsOf
<1>20. ASSUME NEW r \in Requests, TeardownTimesOut(r) PROVE (Kept' => Kept) /\ (Alone' => Alone) /\ \A k \in {"slow", "lost"} : Never(k)' => Never(k)
  BY <1>20 DEF TeardownTimesOut, Fault, JobsOf, Return, Goto
<1>21. ASSUME NEW j \in jobs, TeardownDone(j) PROVE (Kept' => Kept) /\ (Alone' => Alone) /\ \A k \in {"slow", "lost"} : Never(k)' => Never(k)
  BY <1>21 DEF TeardownDone, Ends, Answered
<1>22. ASSUME NEW j \in jobs, TeardownLost(j) PROVE (Kept' => Kept) /\ (Alone' => Alone) /\ \A k \in {"slow", "lost"} : Never(k)' => Never(k)
  BY <1>22 DEF TeardownLost, Fault
<1>23. ASSUME NEW p \in Procs, ByItself(p) PROVE (Kept' => Kept) /\ (Alone' => Alone) /\ \A k \in {"slow", "lost"} : Never(k)' => Never(k)
  BY <1>23, ByItselfKeeps
<1>24. CASE UNCHANGED vars
  BY <1>24 DEF vars, locals, lives, history
<1>25. QED BY <1>1, <1>2, <1>3, <1>4, <1>5, <1>6, <1>7, <1>8, <1>9, <1>10, <1>11, <1>12, <1>13, <1>14, <1>15, <1>16, <1>17, <1>18, <1>19, <1>20, <1>21, <1>22, <1>23, <1>24 DEF Next, Advance, Ignored, ByItself

\* Only the shared units have files.
LEMMA UnitsSharedStep ==
  ASSUME TypeOK, LocalsFit, UnitsShared, [Next]_vars
  PROVE  UnitsShared'
<1> USE EngineAssumption DEF UnitsShared, Procs, Proc, Loops, Jobs, TypeOK, Untracked, Deploys, Roles, history, locals, lives
<1>1. ASSUME NEW r \in Requests, Deploy(r) PROVE UnitsShared'
  BY <1>1, Called DEF Deploy, Enter, Goto, Teardown
<1>2. ASSUME NEW r \in Requests, Start(r) PROVE UnitsShared'
  BY <1>2 DEF Start, Begin, Enter, Goto
<1>3. ASSUME NEW r \in Requests, Stop(r) PROVE UnitsShared'
  BY <1>3 DEF Stop, Begin, Enter, Goto
<1>4. ASSUME NEW r \in Requests, Restart(r) PROVE UnitsShared'
  BY <1>4 DEF Restart, Begin, Enter, Goto
<1>5. ASSUME NEW r \in Requests, Remove(r) PROVE UnitsShared'
  BY <1>5, Called DEF Remove, Begin, Enter, Goto
<1>6. ASSUME NEW r \in Requests, Replaced(r) PROVE UnitsShared'
  BY <1>6 DEF Replaced, Goto, JobsOf
<1>7. ASSUME NEW r \in Requests, Planned(r) PROVE UnitsShared'
  BY <1>7 DEF Planned, Goto
<1>8. ASSUME NEW r \in Requests, PlanFails(r) PROVE UnitsShared'
  BY <1>8 DEF PlanFails, Return, Goto
<1>9. ASSUME NEW r \in Requests, DeployStarts(r) PROVE UnitsShared'
  BY <1>9 DEF DeployStarts, StartProc, Begins, Recorded, Pass, Return, Goto
<1>10. ASSUME NEW r \in Requests, DeployStartFails(r) PROVE UnitsShared'
  BY <1>10 DEF DeployStartFails, StartProcFails, Begins, Ends, Fault, Goto
<1>11. ASSUME NEW r \in Requests, RolledBack(r) PROVE UnitsShared'
  BY <1>11 DEF RolledBack, Return, Goto, JobsOf
<1>12. ASSUME NEW r \in Requests, StartStarts(r) PROVE UnitsShared'
  BY <1>12 DEF StartStarts, StartProc, Begins, Pass, Return, Goto
<1>13. ASSUME NEW r \in Requests, StartFails(r) PROVE UnitsShared'
  BY <1>13 DEF StartFails, StartProcFails, Begins, Ends, Fault, Return, Goto
<1>14. ASSUME NEW r \in Requests, RestartRestarts(r) PROVE UnitsShared'
  BY <1>14 DEF RestartRestarts, RestartProc, Begins, Fault, Pass, Return, Goto
<1>15. ASSUME NEW r \in Requests, RestartThrows(r) PROVE UnitsShared'
  BY <1>15 DEF RestartThrows, Ends, Return, Goto
<1>16. ASSUME NEW r \in Requests, RestartNoUnit(r) PROVE UnitsShared'
  BY <1>16 DEF RestartNoUnit, Pass, Return, Goto
<1>17. ASSUME NEW r \in Requests, Probe(r) PROVE UnitsShared'
  BY <1>17 DEF Probe, Probed, Fault, Goto
<1>18. ASSUME NEW r \in Requests, Stopped(r) PROVE UnitsShared'
  BY <1>18 DEF Stopped, Return, Goto, JobsOf
<1>19. ASSUME NEW r \in Requests, Removed(r) PROVE UnitsShared'
  BY <1>19 DEF Removed, Return, Goto, JobsOf
<1>20. ASSUME NEW r \in Requests, TeardownTimesOut(r) PROVE UnitsShared'
  BY <1>20 DEF TeardownTimesOut, Fault, JobsOf, Return, Goto
<1>21. ASSUME NEW j \in jobs, TeardownDone(j) PROVE UnitsShared'
  BY <1>21 DEF TeardownDone, Ends, Answered
<1>22. ASSUME NEW j \in jobs, TeardownLost(j) PROVE UnitsShared'
  BY <1>22 DEF TeardownLost, Fault
<1>23. ASSUME NEW p \in Procs, ByItself(p) PROVE UnitsShared'
  BY <1>23, ByItselfKeeps
<1>24. CASE UNCHANGED vars
  BY <1>24 DEF vars, locals, lives, history
<1>25. QED BY <1>1, <1>2, <1>3, <1>4, <1>5, <1>6, <1>7, <1>8, <1>9, <1>10, <1>11, <1>12, <1>13, <1>14, <1>15, <1>16, <1>17, <1>18, <1>19, <1>20, <1>21, <1>22, <1>23, <1>24 DEF Next, Advance, Ignored, ByItself

\* Beginning an operation moves the request and nothing else of the others.
LEMMA Entered ==
  ASSUME NEW r, NEW label, Enter(r, label)
  PROVE  pc' = [pc EXCEPT ![r] = label] /\ last' = last
  BY DEF Enter, Goto

\* A teardown that outlives its request is still under way.
LEMMA TimedOut ==
  ASSUME TypeOK, NEW r \in Requests, TeardownTimesOut(r), NEW j \in jobs
  PROVE  \E k \in jobs' : k.proc = j.proc
<1>1. CASE j \notin JobsOf(r)
  BY <1>1 DEF TeardownTimesOut
<1>2. CASE j \in JobsOf(r)
  <2>1. [j EXCEPT !.owner = Detached] \in jobs'
    BY <1>2 DEF TeardownTimesOut
  <2>2. [j EXCEPT !.owner = Detached].proc = j.proc
    BY DEF TypeOK, Jobs
  <2>3. QED BY <2>1, <2>2
<1>3. QED BY <1>1, <1>2

\* A fault is counted: there has been one.
LEMMA LostCounts ==
  ASSUME TypeOK, NEW kind \in {"slow", "lost"}, Fault(kind)
  PROVE  ~Never(kind)' /\ \A k \in Kinds \ {kind} : faults'[k] = faults[k]
<1>1. faults[kind] \in Nat /\ faults' = [faults EXCEPT ![kind] = @ + 1] /\ faults \in [Kinds -> 0..MaxFaults]
  BY DEF Fault, TypeOK, Kinds
<1>2. QED BY <1>1 DEF Never, Kinds

\* Every step accounts for what it leaves running.
LEMMA AccountedStep ==
  ASSUME Control, Control', Kept' => Kept, Alone' => Alone,
         Never("lost")' => Never("lost"), Never("slow")' => Never("slow"), Accounted, RuntimeEnds, [Next]_vars
  PROVE  Accounted'
<1> USE EngineAssumption DEF Accounted, RuntimeEnds, Doomed, Awaited, Started, Control, LocalsFit, OwnersAwait, TakeTurns, Tracking, Kept, Alone, Loops, Captured, Awaiting, Replacing, Kinds, Jobs, Proc, ProcsOf, Procs, TypeOK, Untracked, Deploys, Roles, history, locals, lives
<1>1. ASSUME NEW r \in Requests, Deploy(r) PROVE Accounted'
  BY <1>1, Called, Entered DEF Deploy
<1>2. ASSUME NEW r \in Requests, Start(r) PROVE Accounted'
  BY <1>2, Entered DEF Start, Begin
<1>3. ASSUME NEW r \in Requests, Stop(r) PROVE Accounted'
  BY <1>3, Entered DEF Stop, Begin
<1>4. ASSUME NEW r \in Requests, Restart(r) PROVE Accounted'
  BY <1>4, Entered DEF Restart, Begin
<1>5. ASSUME NEW r \in Requests, Remove(r) PROVE Accounted'
  BY <1>5, Called, Entered DEF Remove, Begin
<1>6. ASSUME NEW r \in Requests, Replaced(r) PROVE Accounted'
  BY <1>6 DEF Replaced, Goto, JobsOf
<1>7. ASSUME NEW r \in Requests, Planned(r) PROVE Accounted'
  BY <1>7 DEF Planned, Goto
<1>8. ASSUME NEW r \in Requests, PlanFails(r) PROVE Accounted'
  BY <1>8 DEF PlanFails, Return, Goto
<1>9. ASSUME NEW r \in Requests, DeployStarts(r) PROVE Accounted'
  BY <1>9 DEF DeployStarts, StartProc, Begins, Recorded, Pass, Return, Goto
<1>10. ASSUME NEW r \in Requests, DeployStartFails(r) PROVE Accounted'
  <2>1. \A p \in Rollback(r) : p \in alive' => p \in missed' \/ Doomed(p)'
    <3>1. CASE childMode
      BY <1>10, <3>1, Called DEF DeployStartFails
    <3>2. CASE ~childMode
      <4>1. ASSUME NEW p \in Rollback(r) PROVE Doomed(p)'
        <5> DEFINE job == [owner |-> r, op |-> "dispose", proc |-> p]
        <5>1. job \in jobs' /\ job.proc = p
          BY <1>10, <3>2 DEF DeployStartFails, Teardown
        <5>2. QED BY <5>1
      <4>2. QED BY <4>1
    <3>3. QED BY <3>1, <3>2
  <2>2. jobs \subseteq jobs' /\ UNCHANGED <<childMode, runtime>> /\ pc' = [pc EXCEPT ![r] = "rollback"]
    BY <1>10, Called DEF DeployStartFails, Goto
  <2>3. Never("lost")' => alive' \subseteq alive /\ \A p \in alive' : p \in missed => p \in missed'
    <3>1. CASE childMode
      BY <1>10, <3>1, Called DEF DeployStartFails
    <3>2. CASE ~childMode
      BY <1>10, <3>2, LostCounts DEF DeployStartFails, StartProcFails, Ends
    <3>3. QED BY <3>1, <3>2
  <2>4. \A p : Doomed(p) => Doomed(p)'
    BY <2>2
  <2>5. \A p : p \in ProcsOf(runtime) => p \in ProcsOf(runtime)'
    BY <2>2
  <2>6. \A q \in Requests, p \in Procs : Started(q, p) => Started(q, p)' \/ p \in Rollback(r)
    BY <1>10, <2>2 DEF DeployStartFails, Rollback
  <2> HIDE DEF Doomed, Started, ProcsOf
  <2>7. QED BY <2>1, <2>2, <2>3, <2>4, <2>5, <2>6
<1>11. ASSUME NEW r \in Requests, RolledBack(r) PROVE Accounted'
  BY <1>11 DEF RolledBack, Return, Goto, JobsOf
<1>12. ASSUME NEW r \in Requests, StartStarts(r) PROVE Accounted'
  BY <1>12 DEF StartStarts, StartProc, Begins, Pass, Return, Goto
<1>13. ASSUME NEW r \in Requests, StartFails(r) PROVE Accounted'
  BY <1>13 DEF StartFails, StartProcFails, Begins, Ends, Fault, Return, Goto
<1>14. ASSUME NEW r \in Requests, RestartRestarts(r) PROVE Accounted'
  BY <1>14 DEF RestartRestarts, RestartProc, Begins, Fault, Pass, Return, Goto
<1>15. ASSUME NEW r \in Requests, RestartThrows(r) PROVE Accounted'
  BY <1>15 DEF RestartThrows, Ends, Return, Goto
<1>16. ASSUME NEW r \in Requests, RestartNoUnit(r) PROVE Accounted'
  BY <1>16 DEF RestartNoUnit, Pass, Return, Goto
<1>17. ASSUME NEW r \in Requests, Probe(r) PROVE Accounted'
  <2>1. \A q \in Requests, p \in Procs : Started(q, p) => Started(q, p)'
    BY <1>17 DEF Probe, Goto
  <2>2. UNCHANGED <<childMode, runtime, overlapped>> /\ (Never("lost")' => Never("lost"))
    BY <1>17 DEF Probe, history
  <2>3. CallKeeps(r, "stopping")
    BY <1>17, ProbeCalls
  <2>4. \A p : Doomed(p) => Doomed(p)'
    BY <2>3 DEF CallKeeps
  <2>5. \A p : p \in ProcsOf(runtime) => p \in ProcsOf(runtime)'
    BY <2>2
  <2> HIDE DEF Doomed, Started, ProcsOf
  <2>6. QED BY <2>1, <2>2, <2>3, <2>4, <2>5 DEF CallKeeps
<1>18. ASSUME NEW r \in Requests, Stopped(r) PROVE Accounted'
  BY <1>18 DEF Stopped, Return, Goto, JobsOf
<1>19. ASSUME NEW r \in Requests, Removed(r) PROVE Accounted'
  BY <1>19 DEF Removed, Return, Goto, JobsOf
<1>20. ASSUME NEW r \in Requests, TeardownTimesOut(r) PROVE Accounted'
  <2>1. UNCHANGED <<childMode, runtime, alive, missed>> /\ pc' = [pc EXCEPT ![r] = "idle"]
    BY <1>20 DEF TeardownTimesOut, Return, Goto
  <2>2. \A q \in Requests, p \in Procs : Started(q, p) => Started(q, p)'
    BY <1>20, <2>1 DEF TeardownTimesOut, Return
  <2>3. \A p : Doomed(p) => Doomed(p)'
    BY <1>20, TimedOut
  <2>4. \A p : p \in ProcsOf(runtime) => p \in ProcsOf(runtime)'
    BY <2>1
  <2> HIDE DEF Doomed, Started, ProcsOf
  <2>5. QED BY <2>1, <2>2, <2>3, <2>4
<1>21. ASSUME NEW j \in jobs, TeardownDone(j) PROVE Accounted'
  BY <1>21 DEF TeardownDone, Ends, Answered
<1>22. ASSUME NEW j \in jobs, TeardownLost(j) PROVE Accounted'
  BY <1>22 DEF TeardownLost, Fault, Never
<1>23. ASSUME NEW p \in Procs, ByItself(p) PROVE Accounted'
  BY <1>23, ByItselfKeeps
<1>24. CASE UNCHANGED vars
  BY <1>24 DEF vars, locals, lives, history
<1>25. QED BY <1>1, <1>2, <1>3, <1>4, <1>5, <1>6, <1>7, <1>8, <1>9, <1>10, <1>11, <1>12, <1>13, <1>14, <1>15, <1>16, <1>17, <1>18, <1>19, <1>20, <1>21, <1>22, <1>23, <1>24 DEF Next, Advance, Ignored, ByItself

\* Every step keeps all that runs of an ending runtime awaited.
LEMMA RuntimeEndsStep ==
  ASSUME Control, Control', Kept' => Kept, Alone' => Alone,
         Never("lost")' => Never("lost"), Never("slow")' => Never("slow"), RuntimeEnds, [Next]_vars
  PROVE  RuntimeEnds'
<1> USE EngineAssumption DEF RuntimeEnds, Awaited, Control, LocalsFit, OwnersAwait, TakeTurns, Tracking, Kept, Alone, Loops, Captured, Awaiting, Replacing, Kinds, Jobs, Proc, ProcsOf, Procs, TypeOK, Untracked, Deploys, Roles, history, locals, lives
<1>1. ASSUME NEW r \in Requests, Deploy(r) PROVE RuntimeEnds'
  <2>1. CASE runtime = Untracked
    BY <1>1, <2>1, Entered DEF Deploy
  <2>2. CASE runtime # Untracked
    <3>1. /\ \A i \in Roles : Proc(runtime, i) \in alive' => Proc(runtime, i) \in missed'
                \/ \E j \in jobs' : j.owner = r /\ j.proc = Proc(runtime, i)
          /\ jobs \subseteq jobs' /\ alive' \subseteq alive /\ missed \subseteq missed'
      BY <1>1, <2>2, Called DEF Deploy
    <3>2. UNCHANGED <<childMode, runtime>>
      BY <1>1, <2>2 DEF Deploy
    <3>3. pc' = [pc EXCEPT ![r] = "replacing"]
      BY <1>1, <2>2, Entered DEF Deploy
    <3>4. \A q \in Requests \ {r} : Kept' => pc'[q] = "idle"
      BY <3>3
    <3>5. ASSUME Kept', NEW q \in Requests, pc'[q] \in {"replacing", "removing"}, NEW i \in Roles,
                 Proc(runtime, i)' \in alive'
          PROVE  Proc(runtime, i)' \in missed' \/ Awaited(q, Proc(runtime, i))'
      <4>1. q = r /\ Proc(runtime, i)' = Proc(runtime, i)
        BY <3>2, <3>4, <3>5
      <4>2. QED BY <3>1, <3>5, <4>1
    <3>6. QED BY <3>5
  <2>3. QED BY <2>1, <2>2
<1>2. ASSUME NEW r \in Requests, Start(r) PROVE RuntimeEnds'
  BY <1>2, Entered DEF Start, Begin
<1>3. ASSUME NEW r \in Requests, Stop(r) PROVE RuntimeEnds'
  BY <1>3, Entered DEF Stop, Begin
<1>4. ASSUME NEW r \in Requests, Restart(r) PROVE RuntimeEnds'
  BY <1>4, Entered DEF Restart, Begin
<1>5. ASSUME NEW r \in Requests, Remove(r) PROVE RuntimeEnds'
  <2>1. runtime # Untracked
    BY <1>5 DEF Remove, Begin
  <2>2. /\ \A i \in Roles : Proc(runtime, i) \in alive' => Proc(runtime, i) \in missed'
              \/ \E j \in jobs' : j.owner = r /\ j.proc = Proc(runtime, i)
        /\ jobs \subseteq jobs' /\ alive' \subseteq alive /\ missed \subseteq missed'
    BY <1>5, <2>1, Called DEF Remove, Begin
  <2>3. UNCHANGED <<childMode, runtime>>
    BY <1>5 DEF Remove, Begin
  <2>4. pc' = [pc EXCEPT ![r] = "removing"]
    BY <1>5, Entered DEF Remove, Begin
  <2>5. \A q \in Requests \ {r} : Kept' => pc'[q] = "idle"
    BY <2>4
  <2>6. ASSUME Kept', NEW q \in Requests, pc'[q] \in {"replacing", "removing"}, NEW i \in Roles,
               Proc(runtime, i)' \in alive'
        PROVE  Proc(runtime, i)' \in missed' \/ Awaited(q, Proc(runtime, i))'
    <3>1. q = r /\ Proc(runtime, i)' = Proc(runtime, i)
      BY <2>3, <2>5, <2>6
    <3>2. QED BY <2>2, <2>6, <3>1
  <2>7. QED BY <2>6
<1>6. ASSUME NEW r \in Requests, Replaced(r) PROVE RuntimeEnds'
  BY <1>6 DEF Replaced, Goto, JobsOf
<1>7. ASSUME NEW r \in Requests, Planned(r) PROVE RuntimeEnds'
  BY <1>7 DEF Planned, Goto
<1>8. ASSUME NEW r \in Requests, PlanFails(r) PROVE RuntimeEnds'
  BY <1>8 DEF PlanFails, Return, Goto
<1>9. ASSUME NEW r \in Requests, DeployStarts(r) PROVE RuntimeEnds'
  BY <1>9 DEF DeployStarts, StartProc, Begins, Recorded, Pass, Return, Goto
<1>10. ASSUME NEW r \in Requests, DeployStartFails(r) PROVE RuntimeEnds'
  BY <1>10 DEF DeployStartFails, StartProcFails, Begins, Ends, Fault, Goto
<1>11. ASSUME NEW r \in Requests, RolledBack(r) PROVE RuntimeEnds'
  BY <1>11 DEF RolledBack, Return, Goto, JobsOf
<1>12. ASSUME NEW r \in Requests, StartStarts(r) PROVE RuntimeEnds'
  BY <1>12 DEF StartStarts, StartProc, Begins, Pass, Return, Goto
<1>13. ASSUME NEW r \in Requests, StartFails(r) PROVE RuntimeEnds'
  BY <1>13 DEF StartFails, StartProcFails, Begins, Ends, Fault, Return, Goto
<1>14. ASSUME NEW r \in Requests, RestartRestarts(r) PROVE RuntimeEnds'
  BY <1>14 DEF RestartRestarts, RestartProc, Begins, Fault, Pass, Return, Goto
<1>15. ASSUME NEW r \in Requests, RestartThrows(r) PROVE RuntimeEnds'
  BY <1>15 DEF RestartThrows, Ends, Return, Goto
<1>16. ASSUME NEW r \in Requests, RestartNoUnit(r) PROVE RuntimeEnds'
  BY <1>16 DEF RestartNoUnit, Pass, Return, Goto
<1>17. ASSUME NEW r \in Requests, Probe(r) PROVE RuntimeEnds'
  BY <1>17 DEF Probe, Probed, Fault, Goto
<1>18. ASSUME NEW r \in Requests, Stopped(r) PROVE RuntimeEnds'
  BY <1>18 DEF Stopped, Return, Goto, JobsOf
<1>19. ASSUME NEW r \in Requests, Removed(r) PROVE RuntimeEnds'
  BY <1>19 DEF Removed, Return, Goto, JobsOf
<1>20. ASSUME NEW r \in Requests, TeardownTimesOut(r) PROVE RuntimeEnds'
  BY <1>20 DEF TeardownTimesOut, Fault, JobsOf, Return, Goto
<1>21. ASSUME NEW j \in jobs, TeardownDone(j) PROVE RuntimeEnds'
  BY <1>21 DEF TeardownDone, Ends, Answered
<1>22. ASSUME NEW j \in jobs, TeardownLost(j) PROVE RuntimeEnds'
  BY <1>22 DEF TeardownLost, Fault, Never
<1>23. ASSUME NEW p \in Procs, ByItself(p) PROVE RuntimeEnds'
  BY <1>23, ByItselfKeeps
<1>24. CASE UNCHANGED vars
  BY <1>24 DEF vars, locals, lives, history
<1>25. QED BY <1>1, <1>2, <1>3, <1>4, <1>5, <1>6, <1>7, <1>8, <1>9, <1>10, <1>11, <1>12, <1>13, <1>14, <1>15, <1>16, <1>17, <1>18, <1>19, <1>20, <1>21, <1>22, <1>23, <1>24 DEF Next, Advance, Ignored, ByItself

\* Every step keeps the units of a removal awaited.
LEMMA UnitsEndStep ==
  ASSUME Control, Control', Kept' => Kept, Alone' => Alone,
         Never("lost")' => Never("lost"), Never("slow")' => Never("slow"),
         UnitsShared, UnitsEnd, [Next]_vars
  PROVE  UnitsEnd'
<1> USE EngineAssumption DEF UnitsShared, UnitsEnd, Disposing, Control, LocalsFit, OwnersAwait, TakeTurns, Tracking, Kept, Alone, Loops, Captured, Awaiting, Replacing, Kinds, Jobs, Proc, ProcsOf, Procs, TypeOK, Untracked, Deploys, Roles, history, locals, lives
<1>1. ASSUME NEW r \in Requests, Deploy(r) PROVE UnitsEnd'
  BY <1>1, Called, Entered DEF Deploy
<1>2. ASSUME NEW r \in Requests, Start(r) PROVE UnitsEnd'
  BY <1>2, Entered DEF Start, Begin
<1>3. ASSUME NEW r \in Requests, Stop(r) PROVE UnitsEnd'
  BY <1>3, Entered DEF Stop, Begin
<1>4. ASSUME NEW r \in Requests, Restart(r) PROVE UnitsEnd'
  BY <1>4, Entered DEF Restart, Begin
<1>5. ASSUME NEW r \in Requests, Remove(r) PROVE UnitsEnd'
  <2>1. runtime # Untracked
    BY <1>5 DEF Remove, Begin
  <2>2. UNCHANGED <<childMode, runtime, unitFile>> /\ pc' = [pc EXCEPT ![r] = "removing"]
    BY <1>5, Entered DEF Remove, Begin
  <2>3. /\ ~childMode => \A i \in Roles : \E j \in jobs' :
            j.owner = r /\ j.op = "dispose" /\ j.proc = Proc(runtime, i)
        /\ jobs \subseteq jobs'
    <3>1. CallTeardown(r, "dispose", ProcsOf(runtime), {})
      BY <1>5 DEF Remove
    <3>2. /\ ~childMode => \A p \in ProcsOf(runtime) : \E j \in jobs' :
              j.owner = r /\ j.op = "dispose" /\ j.proc = p
          /\ jobs \subseteq jobs'
      <4> HIDE DEF ProcsOf
      <4>1. QED BY <3>1, Called
    <3>3. \A i \in Roles : Proc(runtime, i) \in ProcsOf(runtime)
      BY <2>1
    <3> HIDE DEF ProcsOf, Proc
    <3>4. QED BY <3>2, <3>3
  <2>4. \A u \in Procs : unitFile[u] # "absent" => ~childMode /\ u[2] \in Roles /\ u = Proc(runtime, u[2])
    OBVIOUS
  <2>5. \A u \in Procs : unitFile[u] # "absent" => Disposing(r, u)'
    BY <2>3, <2>4
  <2>6. \A q \in Requests, u \in Procs : Disposing(q, u) => Disposing(q, u)'
    BY <2>3
  <2> HIDE DEF Disposing
  <2>7. QED BY <2>2, <2>5, <2>6
<1>6. ASSUME NEW r \in Requests, Replaced(r) PROVE UnitsEnd'
  BY <1>6 DEF Replaced, Goto, JobsOf
<1>7. ASSUME NEW r \in Requests, Planned(r) PROVE UnitsEnd'
  BY <1>7 DEF Planned, Goto
<1>8. ASSUME NEW r \in Requests, PlanFails(r) PROVE UnitsEnd'
  BY <1>8 DEF PlanFails, Return, Goto
<1>9. ASSUME NEW r \in Requests, DeployStarts(r) PROVE UnitsEnd'
  BY <1>9 DEF DeployStarts, StartProc, Begins, Recorded, Pass, Return, Goto
<1>10. ASSUME NEW r \in Requests, DeployStartFails(r) PROVE UnitsEnd'
  BY <1>10 DEF DeployStartFails, StartProcFails, Begins, Ends, Fault, Goto
<1>11. ASSUME NEW r \in Requests, RolledBack(r) PROVE UnitsEnd'
  BY <1>11 DEF RolledBack, Return, Goto, JobsOf
<1>12. ASSUME NEW r \in Requests, StartStarts(r) PROVE UnitsEnd'
  BY <1>12 DEF StartStarts, StartProc, Begins, Pass, Return, Goto
<1>13. ASSUME NEW r \in Requests, StartFails(r) PROVE UnitsEnd'
  BY <1>13 DEF StartFails, StartProcFails, Begins, Ends, Fault, Return, Goto
<1>14. ASSUME NEW r \in Requests, RestartRestarts(r) PROVE UnitsEnd'
  BY <1>14 DEF RestartRestarts, RestartProc, Begins, Fault, Pass, Return, Goto
<1>15. ASSUME NEW r \in Requests, RestartThrows(r) PROVE UnitsEnd'
  BY <1>15 DEF RestartThrows, Ends, Return, Goto
<1>16. ASSUME NEW r \in Requests, RestartNoUnit(r) PROVE UnitsEnd'
  BY <1>16 DEF RestartNoUnit, Pass, Return, Goto
<1>17. ASSUME NEW r \in Requests, Probe(r) PROVE UnitsEnd'
  BY <1>17 DEF Probe, Probed, Fault, Goto
<1>18. ASSUME NEW r \in Requests, Stopped(r) PROVE UnitsEnd'
  BY <1>18 DEF Stopped, Return, Goto, JobsOf
<1>19. ASSUME NEW r \in Requests, Removed(r) PROVE UnitsEnd'
  BY <1>19 DEF Removed, Return, Goto, JobsOf
<1>20. ASSUME NEW r \in Requests, TeardownTimesOut(r) PROVE UnitsEnd'
  BY <1>20 DEF TeardownTimesOut, Fault, JobsOf, Return, Goto
<1>21. ASSUME NEW j \in jobs, TeardownDone(j) PROVE UnitsEnd'
  BY <1>21 DEF TeardownDone, Ends, Answered
<1>22. ASSUME NEW j \in jobs, TeardownLost(j) PROVE UnitsEnd'
  BY <1>22 DEF TeardownLost, Fault, Never
<1>23. ASSUME NEW p \in Procs, ByItself(p) PROVE UnitsEnd'
  BY <1>23, ByItselfKeeps
<1>24. CASE UNCHANGED vars
  BY <1>24 DEF vars, locals, lives, history
<1>25. QED BY <1>1, <1>2, <1>3, <1>4, <1>5, <1>6, <1>7, <1>8, <1>9, <1>10, <1>11, <1>12, <1>13, <1>14, <1>15, <1>16, <1>17, <1>18, <1>19, <1>20, <1>21, <1>22, <1>23, <1>24 DEF Next, Advance, Ignored, ByItself

\* Every step leaves a removed tunnel without units, until it is deployed.
LEMMA RemovedStep ==
  ASSUME Control, Control', Kept' => Kept, Alone' => Alone,
         Never("lost")' => Never("lost"), Never("slow")' => Never("slow"),
         UnitsEnd, RemovedStays, [Next]_vars
  PROVE  RemovedStays'
<1> USE EngineAssumption DEF UnitsEnd, RemovedStays, Disposing, Control, LocalsFit, OwnersAwait, TakeTurns, Tracking, Kept, Alone, Loops, Captured, Awaiting, Replacing, Kinds, Jobs, Proc, ProcsOf, Procs, TypeOK, Untracked, Deploys, Roles, history, locals, lives
<1>1. ASSUME NEW r \in Requests, Deploy(r) PROVE RemovedStays'
  BY <1>1, Called, Entered DEF Deploy
<1>2. ASSUME NEW r \in Requests, Start(r) PROVE RemovedStays'
  BY <1>2, Entered DEF Start, Begin
<1>3. ASSUME NEW r \in Requests, Stop(r) PROVE RemovedStays'
  BY <1>3, Entered DEF Stop, Begin
<1>4. ASSUME NEW r \in Requests, Restart(r) PROVE RemovedStays'
  BY <1>4, Entered DEF Restart, Begin
<1>5. ASSUME NEW r \in Requests, Remove(r) PROVE RemovedStays'
  BY <1>5, Called, Entered DEF Remove, Begin
<1>6. ASSUME NEW r \in Requests, Replaced(r) PROVE RemovedStays'
  BY <1>6 DEF Replaced, Goto, JobsOf
<1>7. ASSUME NEW r \in Requests, Planned(r) PROVE RemovedStays'
  BY <1>7 DEF Planned, Goto
<1>8. ASSUME NEW r \in Requests, PlanFails(r) PROVE RemovedStays'
  BY <1>8 DEF PlanFails, Return, Goto
<1>9. ASSUME NEW r \in Requests, DeployStarts(r) PROVE RemovedStays'
  BY <1>9 DEF DeployStarts, StartProc, Begins, Recorded, Pass, Return, Goto
<1>10. ASSUME NEW r \in Requests, DeployStartFails(r) PROVE RemovedStays'
  BY <1>10 DEF DeployStartFails, StartProcFails, Begins, Ends, Fault, Goto
<1>11. ASSUME NEW r \in Requests, RolledBack(r) PROVE RemovedStays'
  BY <1>11 DEF RolledBack, Return, Goto, JobsOf
<1>12. ASSUME NEW r \in Requests, StartStarts(r) PROVE RemovedStays'
  BY <1>12 DEF StartStarts, StartProc, Begins, Pass, Return, Goto
<1>13. ASSUME NEW r \in Requests, StartFails(r) PROVE RemovedStays'
  BY <1>13 DEF StartFails, StartProcFails, Begins, Ends, Fault, Return, Goto
<1>14. ASSUME NEW r \in Requests, RestartRestarts(r) PROVE RemovedStays'
  BY <1>14 DEF RestartRestarts, RestartProc, Begins, Fault, Pass, Return, Goto
<1>15. ASSUME NEW r \in Requests, RestartThrows(r) PROVE RemovedStays'
  BY <1>15 DEF RestartThrows, Ends, Return, Goto
<1>16. ASSUME NEW r \in Requests, RestartNoUnit(r) PROVE RemovedStays'
  BY <1>16 DEF RestartNoUnit, Pass, Return, Goto
<1>17. ASSUME NEW r \in Requests, Probe(r) PROVE RemovedStays'
  BY <1>17 DEF Probe, Probed, Fault, Goto
<1>18. ASSUME NEW r \in Requests, Stopped(r) PROVE RemovedStays'
  BY <1>18 DEF Stopped, Return, Goto, JobsOf
<1>19. ASSUME NEW r \in Requests, Removed(r) PROVE RemovedStays'
  BY <1>19 DEF Removed, Return, Goto, JobsOf
<1>20. ASSUME NEW r \in Requests, TeardownTimesOut(r) PROVE RemovedStays'
  BY <1>20 DEF TeardownTimesOut, Fault, JobsOf, Return, Goto
<1>21. ASSUME NEW j \in jobs, TeardownDone(j) PROVE RemovedStays'
  BY <1>21 DEF TeardownDone, Ends, Answered
<1>22. ASSUME NEW j \in jobs, TeardownLost(j) PROVE RemovedStays'
  BY <1>22 DEF TeardownLost, Fault, Never
<1>23. ASSUME NEW p \in Procs, ByItself(p) PROVE RemovedStays'
  BY <1>23, ByItselfKeeps
<1>24. CASE UNCHANGED vars
  BY <1>24 DEF vars, locals, lives, history
<1>25. QED BY <1>1, <1>2, <1>3, <1>4, <1>5, <1>6, <1>7, <1>8, <1>9, <1>10, <1>11, <1>12, <1>13, <1>14, <1>15, <1>16, <1>17, <1>18, <1>19, <1>20, <1>21, <1>22, <1>23, <1>24 DEF Next, Advance, Ignored, ByItself

\* Every step leaves running what a deploy or start at work has started.
LEMMA LoopStartsStep ==
  ASSUME Control, Control', Kept' => Kept, Alone' => Alone,
         Never("lost")' => Never("lost"), Never("slow")' => Never("slow"), LoopStarts, [Next]_vars
  PROVE  LoopStarts'
<1> USE EngineAssumption DEF LoopStarts, Control, LocalsFit, OwnersAwait, TakeTurns, Tracking, Kept, Alone, Loops, Captured, Awaiting, Replacing, Kinds, Jobs, Proc, ProcsOf, Procs, TypeOK, Untracked, Deploys, Roles, history, locals, lives
<1>1. ASSUME NEW r \in Requests, Deploy(r) PROVE LoopStarts'
  BY <1>1, Called, Entered DEF Deploy
<1>2. ASSUME NEW r \in Requests, Start(r) PROVE LoopStarts'
  BY <1>2, Entered DEF Start, Begin
<1>3. ASSUME NEW r \in Requests, Stop(r) PROVE LoopStarts'
  BY <1>3, Entered DEF Stop, Begin
<1>4. ASSUME NEW r \in Requests, Restart(r) PROVE LoopStarts'
  BY <1>4, Entered DEF Restart, Begin
<1>5. ASSUME NEW r \in Requests, Remove(r) PROVE LoopStarts'
  BY <1>5, Called, Entered DEF Remove, Begin
<1>6. ASSUME NEW r \in Requests, Replaced(r) PROVE LoopStarts'
  BY <1>6 DEF Replaced, Goto, JobsOf
<1>7. ASSUME NEW r \in Requests, Planned(r) PROVE LoopStarts'
  BY <1>7 DEF Planned, Goto
<1>8. ASSUME NEW r \in Requests, PlanFails(r) PROVE LoopStarts'
  BY <1>8 DEF PlanFails, Return, Goto
<1>9. ASSUME NEW r \in Requests, DeployStarts(r) PROVE LoopStarts'
  <2>1. ASSUME NEW q \in Requests, pc'[q] \in {"deploying", "starting"}, q # r \/ done[r] + 1 = NRoles
        PROVE  pc'[q] = pc[q] /\ mine'[q] = mine[q] /\ done'[q] = done[q]
    BY <1>9, <2>1 DEF DeployStarts, Pass, Return, Goto
  <2>2. /\ alive' = alive \cup {Proc(mine[r], done[r] + 1)} /\ UNCHANGED childMode
        /\ gone' = gone \ {Proc(mine[r], done[r] + 1)}
    BY <1>9 DEF DeployStarts, StartProc, Begins
  <2>3. done[r] + 1 # NRoles => mine'[r] = mine[r] /\ done'[r] = done[r] + 1 /\ pc'[r] = pc[r]
    BY <1>9 DEF DeployStarts, Pass
  <2>4. ASSUME Alone, Never("slow"), NEW i \in 1..(done[r] + 1) PROVE Proc(mine[r], i) \in alive' \cup gone'
    <3>1. done[r] \in Nat
      OBVIOUS
    <3>2. i \in 1..done[r] \/ i = done[r] + 1
      BY <3>1
    <3>3. QED BY <1>9, <2>2, <2>4, <3>2 DEF DeployStarts
  <2>5. QED BY <1>9, <2>1, <2>2, <2>3, <2>4 DEF DeployStarts
<1>10. ASSUME NEW r \in Requests, DeployStartFails(r) PROVE LoopStarts'
  BY <1>10 DEF DeployStartFails, StartProcFails, Begins, Ends, Fault, Goto
<1>11. ASSUME NEW r \in Requests, RolledBack(r) PROVE LoopStarts'
  BY <1>11 DEF RolledBack, Return, Goto, JobsOf
<1>12. ASSUME NEW r \in Requests, StartStarts(r) PROVE LoopStarts'
  <2>1. ASSUME NEW q \in Requests, pc'[q] \in {"deploying", "starting"}, q # r \/ done[r] + 1 = NRoles
        PROVE  pc'[q] = pc[q] /\ mine'[q] = mine[q] /\ done'[q] = done[q]
    BY <1>12, <2>1 DEF StartStarts, Pass, Return, Goto
  <2>2. /\ alive' = alive \cup {Proc(mine[r], done[r] + 1)} /\ UNCHANGED childMode
        /\ gone' = gone \ {Proc(mine[r], done[r] + 1)}
    BY <1>12 DEF StartStarts, StartProc, Begins
  <2>3. done[r] + 1 # NRoles => mine'[r] = mine[r] /\ done'[r] = done[r] + 1 /\ pc'[r] = pc[r]
    BY <1>12 DEF StartStarts, Pass
  <2>4. ASSUME Alone, Never("slow"), NEW i \in 1..(done[r] + 1) PROVE Proc(mine[r], i) \in alive' \cup gone'
    <3>1. done[r] \in Nat
      OBVIOUS
    <3>2. i \in 1..done[r] \/ i = done[r] + 1
      BY <3>1
    <3>3. QED BY <1>12, <2>2, <2>4, <3>2 DEF StartStarts
  <2>5. QED BY <1>12, <2>1, <2>2, <2>3, <2>4 DEF StartStarts
<1>13. ASSUME NEW r \in Requests, StartFails(r) PROVE LoopStarts'
  BY <1>13 DEF StartFails, StartProcFails, Begins, Ends, Fault, Return, Goto
<1>14. ASSUME NEW r \in Requests, RestartRestarts(r) PROVE LoopStarts'
  BY <1>14 DEF RestartRestarts, RestartProc, Begins, Fault, Pass, Return, Goto
<1>15. ASSUME NEW r \in Requests, RestartThrows(r) PROVE LoopStarts'
  BY <1>15 DEF RestartThrows, Ends, Return, Goto
<1>16. ASSUME NEW r \in Requests, RestartNoUnit(r) PROVE LoopStarts'
  <2>1. ASSUME NEW q \in Requests, pc'[q] \in {"deploying", "starting"}
        PROVE  pc'[q] = pc[q] /\ mine'[q] = mine[q] /\ done'[q] = done[q]
    BY <1>16, <2>1 DEF RestartNoUnit, Pass, Return, Goto
  <2>2. QED BY <1>16, <2>1 DEF RestartNoUnit
<1>17. ASSUME NEW r \in Requests, Probe(r) PROVE LoopStarts'
  BY <1>17 DEF Probe, Probed, Fault, Goto
<1>18. ASSUME NEW r \in Requests, Stopped(r) PROVE LoopStarts'
  BY <1>18 DEF Stopped, Return, Goto, JobsOf
<1>19. ASSUME NEW r \in Requests, Removed(r) PROVE LoopStarts'
  BY <1>19 DEF Removed, Return, Goto, JobsOf
<1>20. ASSUME NEW r \in Requests, TeardownTimesOut(r) PROVE LoopStarts'
  <2>1. faults["slow"] \in Nat /\ faults'["slow"] = faults["slow"] + 1
    BY <1>20 DEF TeardownTimesOut, Fault
  <2>2. QED BY <2>1 DEF Never
<1>21. ASSUME NEW j \in jobs, TeardownDone(j) PROVE LoopStarts'
  <2>1. Alone /\ Never("slow") => \A r \in Requests : pc[r] \notin {"deploying", "starting"}
    BY <1>21 DEF Never
  <2>2. QED BY <1>21, <2>1 DEF TeardownDone, Ends, Answered
<1>22. ASSUME NEW j \in jobs, TeardownLost(j) PROVE LoopStarts'
  BY <1>22 DEF TeardownLost, Fault, Never
<1>23. ASSUME NEW p \in Procs, ByItself(p) PROVE LoopStarts'
  BY <1>23, ByItselfKeeps
<1>24. CASE UNCHANGED vars
  BY <1>24 DEF vars, locals, lives, history
<1>25. QED BY <1>1, <1>2, <1>3, <1>4, <1>5, <1>6, <1>7, <1>8, <1>9, <1>10, <1>11, <1>12, <1>13, <1>14, <1>15, <1>16, <1>17, <1>18, <1>19, <1>20, <1>21, <1>22, <1>23, <1>24 DEF Next, Advance, Ignored, ByItself

\* Every step leaves a deployed tunnel running.
LEMMA RestDeployedStep ==
  ASSUME Control, Control', Kept' => Kept, Alone' => Alone,
         Never("lost")' => Never("lost"), Never("slow")' => Never("slow"),
         LoopStarts, RestDeployed, [Next]_vars
  PROVE  RestDeployed'
<1> USE EngineAssumption DEF LoopStarts, RestDeployed, Resting, Control, LocalsFit, OwnersAwait, TakeTurns, Tracking, Kept, Alone, Loops, Captured, Awaiting, Replacing, Kinds, Jobs, Proc, ProcsOf, Procs, TypeOK, Untracked, Deploys, Roles, history, locals, lives
<1>1. ASSUME NEW r \in Requests, Deploy(r) PROVE RestDeployed'
  BY <1>1, Called, Entered DEF Deploy
<1>2. ASSUME NEW r \in Requests, Start(r) PROVE RestDeployed'
  BY <1>2, Entered DEF Start, Begin
<1>3. ASSUME NEW r \in Requests, Stop(r) PROVE RestDeployed'
  BY <1>3, Entered DEF Stop, Begin
<1>4. ASSUME NEW r \in Requests, Restart(r) PROVE RestDeployed'
  BY <1>4, Entered DEF Restart, Begin
<1>5. ASSUME NEW r \in Requests, Remove(r) PROVE RestDeployed'
  BY <1>5, Called, Entered DEF Remove, Begin
<1>6. ASSUME NEW r \in Requests, Replaced(r) PROVE RestDeployed'
  BY <1>6 DEF Replaced, Goto, JobsOf
<1>7. ASSUME NEW r \in Requests, Planned(r) PROVE RestDeployed'
  BY <1>7 DEF Planned, Goto
<1>8. ASSUME NEW r \in Requests, PlanFails(r) PROVE RestDeployed'
  BY <1>8 DEF PlanFails, Return, Goto
<1>9. ASSUME NEW r \in Requests, DeployStarts(r) PROVE RestDeployed'
  <2>1. CASE done[r] + 1 = NRoles
    <3>1. /\ runtime' = mine[r] /\ alive' = alive \cup {Proc(mine[r], NRoles)} /\ UNCHANGED childMode
          /\ gone' = gone \ {Proc(mine[r], NRoles)}
      BY <1>9, <2>1 DEF DeployStarts, StartProc, Begins, Recorded
    <3>2. ASSUME Alone, Never("slow"), NEW i \in Roles PROVE Proc(mine[r], i) \in alive' \cup gone'
      <4>1. i \in 1..done[r] \/ i = NRoles
        BY <1>9, <2>1 DEF DeployStarts
      <4>2. QED BY <1>9, <3>1, <3>2, <4>1 DEF DeployStarts
    <3>3. QED BY <3>1, <3>2
  <2>2. CASE done[r] + 1 # NRoles
    BY <1>9, <2>2 DEF DeployStarts, Pass
  <2>3. QED BY <2>1, <2>2
<1>10. ASSUME NEW r \in Requests, DeployStartFails(r) PROVE RestDeployed'
  BY <1>10 DEF DeployStartFails, StartProcFails, Begins, Ends, Fault, Goto
<1>11. ASSUME NEW r \in Requests, RolledBack(r) PROVE RestDeployed'
  BY <1>11 DEF RolledBack, Return, Goto, JobsOf
<1>12. ASSUME NEW r \in Requests, StartStarts(r) PROVE RestDeployed'
  <2>1. CASE done[r] + 1 = NRoles
    <3>1. /\ runtime' = runtime /\ alive' = alive \cup {Proc(mine[r], NRoles)} /\ UNCHANGED childMode
          /\ gone' = gone \ {Proc(mine[r], NRoles)}
      BY <1>12, <2>1 DEF StartStarts, StartProc, Begins
    <3>2. ASSUME Alone, Never("slow"), NEW i \in Roles PROVE Proc(mine[r], i) \in alive' \cup gone'
      <4>1. i \in 1..done[r] \/ i = NRoles
        BY <1>12, <2>1 DEF StartStarts
      <4>2. QED BY <1>12, <3>1, <3>2, <4>1 DEF StartStarts
    <3>3. Alone' => mine[r] = runtime
      BY <1>12 DEF StartStarts
    <3>4. QED BY <3>1, <3>2, <3>3
  <2>2. CASE done[r] + 1 # NRoles
    BY <1>12, <2>2 DEF StartStarts, Pass
  <2>3. QED BY <2>1, <2>2
<1>13. ASSUME NEW r \in Requests, StartFails(r) PROVE RestDeployed'
  BY <1>13 DEF StartFails, StartProcFails, Begins, Ends, Fault, Return, Goto
<1>14. ASSUME NEW r \in Requests, RestartRestarts(r) PROVE RestDeployed'
  BY <1>14 DEF RestartRestarts, RestartProc, Begins, Fault, Pass, Return, Goto
<1>15. ASSUME NEW r \in Requests, RestartThrows(r) PROVE RestDeployed'
  BY <1>15 DEF RestartThrows, Ends, Return, Goto
<1>16. ASSUME NEW r \in Requests, RestartNoUnit(r) PROVE RestDeployed'
  BY <1>16 DEF RestartNoUnit, Pass, Return, Goto
<1>17. ASSUME NEW r \in Requests, Probe(r) PROVE RestDeployed'
  BY <1>17 DEF Probe, Probed, Fault, Goto
<1>18. ASSUME NEW r \in Requests, Stopped(r) PROVE RestDeployed'
  BY <1>18 DEF Stopped, Return, Goto, JobsOf
<1>19. ASSUME NEW r \in Requests, Removed(r) PROVE RestDeployed'
  BY <1>19 DEF Removed, Return, Goto, JobsOf
<1>20. ASSUME NEW r \in Requests, TeardownTimesOut(r) PROVE RestDeployed'
  BY <1>20 DEF TeardownTimesOut, Fault, JobsOf, Return, Goto
<1>21. ASSUME NEW j \in jobs, TeardownDone(j) PROVE RestDeployed'
  <2>1. ~ (Alone /\ Never("slow") /\ Resting)
    BY <1>21 DEF Never
  <2>2. QED BY <1>21, <2>1 DEF TeardownDone, Ends, Answered, Never
<1>22. ASSUME NEW j \in jobs, TeardownLost(j) PROVE RestDeployed'
  BY <1>22 DEF TeardownLost, Fault, Never
<1>23. ASSUME NEW p \in Procs, ByItself(p) PROVE RestDeployed'
  BY <1>23, ByItselfKeeps
<1>24. CASE UNCHANGED vars
  BY <1>24 DEF vars, locals, lives, history
<1>25. QED BY <1>1, <1>2, <1>3, <1>4, <1>5, <1>6, <1>7, <1>8, <1>9, <1>10, <1>11, <1>12, <1>13, <1>14, <1>15, <1>16, <1>17, <1>18, <1>19, <1>20, <1>21, <1>22, <1>23, <1>24 DEF Next, Advance, Ignored, ByItself

\* Every step keeps what a stop at work has found true.
LEMMA LoopFindsStep ==
  ASSUME Control, Control', Kept' => Kept, Alone' => Alone,
         Never("lost")' => Never("lost"), Never("slow")' => Never("slow"), LoopFinds, [Next]_vars
  PROVE  LoopFinds'
<1> USE EngineAssumption DEF LoopFinds, Awaited, Control, LocalsFit, OwnersAwait, TakeTurns, Tracking, Kept, Alone, Loops, Captured, Awaiting, Replacing, Kinds, Jobs, Proc, ProcsOf, Procs, TypeOK, Untracked, Deploys, Roles, history, locals, lives
<1>1. ASSUME NEW r \in Requests, Deploy(r) PROVE LoopFinds'
  BY <1>1, Called, Entered DEF Deploy
<1>2. ASSUME NEW r \in Requests, Start(r) PROVE LoopFinds'
  BY <1>2, Entered DEF Start, Begin
<1>3. ASSUME NEW r \in Requests, Stop(r) PROVE LoopFinds'
  BY <1>3, Entered DEF Stop, Begin
<1>4. ASSUME NEW r \in Requests, Restart(r) PROVE LoopFinds'
  BY <1>4, Entered DEF Restart, Begin
<1>5. ASSUME NEW r \in Requests, Remove(r) PROVE LoopFinds'
  BY <1>5, Called, Entered DEF Remove, Begin
<1>6. ASSUME NEW r \in Requests, Replaced(r) PROVE LoopFinds'
  BY <1>6 DEF Replaced, Goto, JobsOf
<1>7. ASSUME NEW r \in Requests, Planned(r) PROVE LoopFinds'
  BY <1>7 DEF Planned, Goto
<1>8. ASSUME NEW r \in Requests, PlanFails(r) PROVE LoopFinds'
  BY <1>8 DEF PlanFails, Return, Goto
<1>9. ASSUME NEW r \in Requests, DeployStarts(r) PROVE LoopFinds'
  BY <1>9 DEF DeployStarts, StartProc, Begins, Recorded, Pass, Return, Goto
<1>10. ASSUME NEW r \in Requests, DeployStartFails(r) PROVE LoopFinds'
  BY <1>10 DEF DeployStartFails, StartProcFails, Begins, Ends, Fault, Goto
<1>11. ASSUME NEW r \in Requests, RolledBack(r) PROVE LoopFinds'
  BY <1>11 DEF RolledBack, Return, Goto, JobsOf
<1>12. ASSUME NEW r \in Requests, StartStarts(r) PROVE LoopFinds'
  BY <1>12 DEF StartStarts, StartProc, Begins, Pass, Return, Goto
<1>13. ASSUME NEW r \in Requests, StartFails(r) PROVE LoopFinds'
  BY <1>13 DEF StartFails, StartProcFails, Begins, Ends, Fault, Return, Goto
<1>14. ASSUME NEW r \in Requests, RestartRestarts(r) PROVE LoopFinds'
  BY <1>14 DEF RestartRestarts, RestartProc, Begins, Fault, Pass, Return, Goto
<1>15. ASSUME NEW r \in Requests, RestartThrows(r) PROVE LoopFinds'
  BY <1>15 DEF RestartThrows, Ends, Return, Goto
<1>16. ASSUME NEW r \in Requests, RestartNoUnit(r) PROVE LoopFinds'
  BY <1>16 DEF RestartNoUnit, Pass, Return, Goto
<1>17. ASSUME NEW r \in Requests, Probe(r) PROVE LoopFinds'
  <2>1. PICK running \in BOOLEAN :
          LET found == still[r] \cup (IF running THEN {done[r] + 1} ELSE {})
              passed == (IF running THEN {} ELSE {Proc(mine[r], done[r] + 1)}) \cap (waiting \cup spawning) IN
          /\ Probed(Proc(mine[r], done[r] + 1), running)
          /\ still' = [still EXCEPT ![r] = found]
          /\ IF done[r] + 1 = NRoles
             THEN /\ Goto(r, "stopping")
                  /\ CallTeardown(r, "stop", {Proc(mine[r], i) : i \in found}, passed)
             ELSE missed' = missed \cup passed /\ UNCHANGED <<pc, jobs, alive, waiting, spawning, gone>>
    BY <1>17 DEF Probe
  <2> DEFINE found == still[r] \cup (IF running THEN {done[r] + 1} ELSE {})
             p == Proc(mine[r], done[r] + 1)
  <2>2. UNCHANGED <<childMode, mine, overlapped>> /\ done' = [done EXCEPT ![r] = @ + 1]
    BY <1>17 DEF Probe, history
  <2>3. /\ alive' \subseteq alive /\ missed \subseteq missed'
        /\ ~running /\ p \in waiting \cup spawning => p \in missed'
    <3>1. CASE done[r] + 1 = NRoles
      BY <2>1, <3>1, Called
    <3>2. CASE done[r] + 1 # NRoles
      BY <2>1, <3>2
    <3>3. QED BY <3>1, <3>2
  <2> SUFFICES ASSUME Alone, Never("lost"), Never("lost")' PROVE LoopFinds'
    BY <2>2
  <2>4. p \in alive => running \/ p \in missed'
    BY <2>1, <2>3 DEF Probed, Fault, Never, Runs
  <2>5. \A i \in 1..(done[r] + 1) : Proc(mine[r], i) \in alive' =>
          i \in found \/ Proc(mine[r], i) \in missed'
    BY <1>17, <2>3, <2>4 DEF Probe
  <2>6. \A q \in Requests : q # r => pc[q] = "idle"
    BY <1>17 DEF Probe
  <2>7. still'[r] = found
    BY <2>1
  <2>8. CASE done[r] + 1 = NRoles
    <3>1. \A i \in found : Proc(mine[r], i) \in alive' => Proc(mine[r], i) \in missed'
            \/ \E j \in jobs' : j.owner = r /\ j.proc = Proc(mine[r], i)
      <4> DEFINE procs == {Proc(mine[r], i) : i \in found}
                 passed == (IF running THEN {} ELSE {p}) \cap (waiting \cup spawning)
      <4>1. CallTeardown(r, "stop", procs, passed)
        BY <2>1, <2>8
      <4>2. \A i \in found : Proc(mine[r], i) \in procs
        OBVIOUS
      <4> HIDE DEF procs, passed, found, Proc
      <4>3. \A q \in procs : q \in alive' =>
              q \in missed' \/ \E j \in jobs' : j.owner = r /\ j.op = "stop" /\ j.proc = q
        BY <4>1, Called
      <4>4. QED BY <4>2, <4>3
    <3>2. pc' = [pc EXCEPT ![r] = "stopping"]
      BY <2>1, <2>8 DEF Goto
    <3> HIDE DEF found
    <3>3. \A i \in Roles : Proc(mine[r], i) \in alive' => Proc(mine[r], i) \in missed'
            \/ \E j \in jobs' : j.owner = r /\ j.proc = Proc(mine[r], i)
      BY <2>5, <2>8, <3>1
    <3>4. QED BY <2>2, <2>6, <3>2, <3>3
  <2>9. CASE done[r] + 1 # NRoles
    <3>1. UNCHANGED <<pc, jobs>>
      BY <2>1, <2>9
    <3> HIDE DEF found
    <3>2. QED BY <1>17, <2>2, <2>5, <2>6, <2>7, <3>1 DEF Probe
  <2>10. QED BY <2>8, <2>9
<1>18. ASSUME NEW r \in Requests, Stopped(r) PROVE LoopFinds'
  BY <1>18 DEF Stopped, Return, Goto, JobsOf
<1>19. ASSUME NEW r \in Requests, Removed(r) PROVE LoopFinds'
  BY <1>19 DEF Removed, Return, Goto, JobsOf
<1>20. ASSUME NEW r \in Requests, TeardownTimesOut(r) PROVE LoopFinds'
  BY <1>20 DEF TeardownTimesOut, Fault, JobsOf, Return, Goto
<1>21. ASSUME NEW j \in jobs, TeardownDone(j) PROVE LoopFinds'
  <2>1. alive' = alive \ {j.proc} /\ missed' = missed \ {j.proc} /\ UNCHANGED <<childMode, pc, mine, done, still, faults, overlapped>>
    BY <1>21 DEF TeardownDone, Ends
  <2>2. \A k \in jobs : k.proc # j.proc => k \in jobs'
    BY <1>21 DEF TeardownDone, Answered
  <2> SUFFICES ASSUME Alone, Never("lost"), NEW r \in Requests
               PROVE  /\ pc[r] = "probing" => \A i \in 1..done[r] : Proc(mine[r], i) \in alive' =>
                            i \in still[r] \/ Proc(mine[r], i) \in missed'
                      /\ pc[r] = "stopping" => \A i \in Roles : Proc(mine[r], i) \in alive' =>
                            Proc(mine[r], i) \in missed' \/ Awaited(r, Proc(mine[r], i))'
    BY <2>1 DEF Never
  <2>3. CASE pc[r] = "probing"
    BY <2>1, <2>3
  <2>4. CASE pc[r] = "stopping"
    <3>1. ASSUME NEW i \in Roles, Proc(mine[r], i) \in alive' PROVE Proc(mine[r], i) \in missed' \/ Awaited(r, Proc(mine[r], i))'
      <4>1. Proc(mine[r], i) \in alive /\ Proc(mine[r], i) # j.proc
        BY <2>1, <3>1
      <4>2. CASE Proc(mine[r], i) \in missed
        BY <2>1, <4>1, <4>2
      <4>3. CASE Awaited(r, Proc(mine[r], i))
        BY <2>1, <2>2, <4>1, <4>3
      <4>4. QED BY <2>4, <4>1, <4>2, <4>3
    <3>2. QED BY <2>1, <2>4, <3>1
  <2>5. QED BY <2>3, <2>4
<1>22. ASSUME NEW j \in jobs, TeardownLost(j) PROVE LoopFinds'
  BY <1>22 DEF TeardownLost, Fault, Never
<1>23. ASSUME NEW p \in Procs, ByItself(p) PROVE LoopFinds'
  BY <1>23, ByItselfKeeps
<1>24. CASE UNCHANGED vars
  BY <1>24 DEF vars, locals, lives, history
<1>25. QED BY <1>1, <1>2, <1>3, <1>4, <1>5, <1>6, <1>7, <1>8, <1>9, <1>10, <1>11, <1>12, <1>13, <1>14, <1>15, <1>16, <1>17, <1>18, <1>19, <1>20, <1>21, <1>22, <1>23, <1>24 DEF Next, Advance, Ignored, ByItself

\* Every step leaves a stopped tunnel stopped.
LEMMA RestStoppedStep ==
  ASSUME Control, Control', Kept' => Kept, Alone' => Alone,
         Never("lost")' => Never("lost"), Never("slow")' => Never("slow"),
         Accounted, LoopFinds, RestStopped, [Next]_vars
  PROVE  RestStopped'
<1> USE EngineAssumption DEF Accounted, Started, Doomed, Awaited, LoopFinds, RestStopped, Resting, Control, LocalsFit, OwnersAwait, TakeTurns, Tracking, Kept, Alone, Loops, Captured, Awaiting, Replacing, Kinds, Jobs, Proc, ProcsOf, Procs, TypeOK, Untracked, Deploys, Roles, history, locals, lives
<1>1. ASSUME NEW r \in Requests, Deploy(r) PROVE RestStopped'
  BY <1>1, Called, Entered DEF Deploy
<1>2. ASSUME NEW r \in Requests, Start(r) PROVE RestStopped'
  BY <1>2, Entered DEF Start, Begin
<1>3. ASSUME NEW r \in Requests, Stop(r) PROVE RestStopped'
  BY <1>3, Entered DEF Stop, Begin
<1>4. ASSUME NEW r \in Requests, Restart(r) PROVE RestStopped'
  BY <1>4, Entered DEF Restart, Begin
<1>5. ASSUME NEW r \in Requests, Remove(r) PROVE RestStopped'
  BY <1>5, Called, Entered DEF Remove, Begin
<1>6. ASSUME NEW r \in Requests, Replaced(r) PROVE RestStopped'
  BY <1>6 DEF Replaced, Goto, JobsOf
<1>7. ASSUME NEW r \in Requests, Planned(r) PROVE RestStopped'
  BY <1>7 DEF Planned, Goto
<1>8. ASSUME NEW r \in Requests, PlanFails(r) PROVE RestStopped'
  BY <1>8 DEF PlanFails, Return, Goto
<1>9. ASSUME NEW r \in Requests, DeployStarts(r) PROVE RestStopped'
  BY <1>9 DEF DeployStarts, StartProc, Begins, Recorded, Pass, Return, Goto
<1>10. ASSUME NEW r \in Requests, DeployStartFails(r) PROVE RestStopped'
  BY <1>10 DEF DeployStartFails, StartProcFails, Begins, Ends, Fault, Goto
<1>11. ASSUME NEW r \in Requests, RolledBack(r) PROVE RestStopped'
  BY <1>11 DEF RolledBack, Return, Goto, JobsOf
<1>12. ASSUME NEW r \in Requests, StartStarts(r) PROVE RestStopped'
  BY <1>12 DEF StartStarts, StartProc, Begins, Pass, Return, Goto
<1>13. ASSUME NEW r \in Requests, StartFails(r) PROVE RestStopped'
  BY <1>13 DEF StartFails, StartProcFails, Begins, Ends, Fault, Return, Goto
<1>14. ASSUME NEW r \in Requests, RestartRestarts(r) PROVE RestStopped'
  BY <1>14 DEF RestartRestarts, RestartProc, Begins, Fault, Pass, Return, Goto
<1>15. ASSUME NEW r \in Requests, RestartThrows(r) PROVE RestStopped'
  BY <1>15 DEF RestartThrows, Ends, Return, Goto
<1>16. ASSUME NEW r \in Requests, RestartNoUnit(r) PROVE RestStopped'
  BY <1>16 DEF RestartNoUnit, Pass, Return, Goto
<1>17. ASSUME NEW r \in Requests, Probe(r) PROVE RestStopped'
  BY <1>17 DEF Probe, Probed, Fault, Goto
<1>18. ASSUME NEW r \in Requests, Stopped(r) PROVE RestStopped'
  BY <1>18 DEF Stopped, Return, Goto, JobsOf
<1>19. ASSUME NEW r \in Requests, Removed(r) PROVE RestStopped'
  BY <1>19 DEF Removed, Return, Goto, JobsOf
<1>20. ASSUME NEW r \in Requests, TeardownTimesOut(r) PROVE RestStopped'
  BY <1>20 DEF TeardownTimesOut, Fault, JobsOf, Return, Goto
<1>21. ASSUME NEW j \in jobs, TeardownDone(j) PROVE RestStopped'
  BY <1>21 DEF TeardownDone, Ends, Answered
<1>22. ASSUME NEW j \in jobs, TeardownLost(j) PROVE RestStopped'
  BY <1>22 DEF TeardownLost, Fault, Never
<1>23. ASSUME NEW p \in Procs, ByItself(p) PROVE RestStopped'
  BY <1>23, ByItselfKeeps
<1>24. CASE UNCHANGED vars
  BY <1>24 DEF vars, locals, lives, history
<1>25. QED BY <1>1, <1>2, <1>3, <1>4, <1>5, <1>6, <1>7, <1>8, <1>9, <1>10, <1>11, <1>12, <1>13, <1>14, <1>15, <1>16, <1>17, <1>18, <1>19, <1>20, <1>21, <1>22, <1>23, <1>24 DEF Next, Advance, Ignored, ByItself

-----------------------------------------------------------------------------
(* The theorems *)

\* Nothing runs, is tracked or is under way at first.
LEMMA Initially == Init => IInv
<1> SUFFICES ASSUME Init PROVE IInv
  OBVIOUS
<1> USE EngineAssumption DEF Init
<1>1. TypeOK
  BY DEF TypeOK, Untracked, Deploys, Roles, Kinds, Ops, Procs, Jobs
<1>2. LocalsFit /\ OwnersAwait /\ TakeTurns /\ Tracking
  BY DEF LocalsFit, OwnersAwait, TakeTurns, Tracking, Loops, Captured, Replacing
<1>3. UnitsShared /\ Accounted /\ RuntimeEnds /\ UnitsEnd
  BY DEF UnitsShared, Accounted, RuntimeEnds, UnitsEnd
<1>4. RemovedStays /\ LoopStarts /\ RestDeployed /\ LoopFinds /\ RestStopped
  BY DEF RemovedStays, LoopStarts, RestDeployed, LoopFinds, RestStopped
<1>5. QED BY <1>1, <1>2, <1>3, <1>4 DEF IInv, Control

\* The invariant holds in every state (engine.ts 399-596).
THEOREM Invariance == Spec => []IInv
<1>1. IInv /\ [Next]_vars => IInv'
  <2> SUFFICES ASSUME IInv, [Next]_vars PROVE IInv'
    OBVIOUS
  <2> USE DEF IInv, Control
  <2>1. TypeOK' /\ LocalsFit' /\ OwnersAwait' /\ TakeTurns'
    BY TypeStep, LocalsStep, OwnersStep, TurnsStep
  <2>2. Tracking'
    BY <2>1, TrackingStep
  <2>3. /\ Kept' => Kept
        /\ Alone' => Alone
        /\ Never("lost")' => Never("lost")
        /\ Never("slow")' => Never("slow")
    BY HistoryGrows DEF Kinds
  <2> HIDE DEF Control
  <2>4. Control /\ Control'
    BY <2>1, <2>2 DEF Control
  <2>5. UnitsShared'
    BY <2>4, UnitsSharedStep DEF Control
  <2>6. Accounted' /\ RuntimeEnds'
    BY <2>3, <2>4, AccountedStep, RuntimeEndsStep
  <2>7. UnitsEnd' /\ RemovedStays'
    BY <2>3, <2>4, UnitsEndStep, RemovedStep
  <2>8. LoopStarts' /\ RestDeployed'
    BY <2>3, <2>4, LoopStartsStep, RestDeployedStep
  <2>9. LoopFinds' /\ RestStopped'
    BY <2>3, <2>4, LoopFindsStep, RestStoppedStep
  <2>10. QED BY <2>4, <2>5, <2>6, <2>7, <2>8, <2>9
<1>2. QED BY Initially, <1>1, PTL DEF Spec

\* Every variable keeps its type.
THEOREM TypeCorrect == Spec => []TypeOK
<1>1. IInv => TypeOK
  BY DEF IInv, Control
<1>2. QED BY Invariance, <1>1, PTL

\* However deploys fail, processes crash and starts, stops and restarts overlap, a
\* tunnel at rest runs no process the engine does not track, but for a respawn that
\* a removal or redeploy met in mkdir (engine.ts 399-485, process.ts 375-383).
THEOREM NoOrphans == Spec => []NoOrphan
<1>1. IInv => NoOrphan
  BY DEF IInv, NoOrphan, Settled, Accounted, Kept, Doomed, Started
<1>2. QED BY Invariance, <1>1, PTL

\* A deploy or start that returned has left the tunnel running, teardowns that
\* end in time provided (engine.ts 436-458, 498-503).
THEOREM DeployRuns == Spec => []DeployedRuns
<1>1. IInv => DeployedRuns
  BY DEF IInv, DeployedRuns, Settled, RestDeployed, Alone, Resting
<1>2. QED BY Invariance, <1>1, PTL

\* A stop that returned has left nothing of the tunnel running, on a node that
\* answers, but what it met between a crash and its respawn; however slow earlier
\* teardowns are (engine.ts 505-539).
THEOREM StopEnds == Spec => []StopStops
<1>1. IInv => StopStops
  BY DEF IInv, StopStops, Settled, RestStopped, Alone, Resting, Doomed
<1>2. QED BY Invariance, <1>1, PTL

\* A removal that returned has left no unit file of the tunnel (engine.ts
\* 580-596, process.ts 239).
THEOREM RemovalForgets == Spec => []RemoveForgets
<1>1. IInv => RemoveForgets
  BY DEF IInv, RemoveForgets, Settled, RemovedStays, Kept
<1>2. QED BY Invariance, <1>1, PTL
=============================================================================
