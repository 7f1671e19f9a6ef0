--------------------------- MODULE TunnelApi_proofs ---------------------------
(***************************************************************************)
(* Proofs about TunnelApi, for any number of tunnels and requests.         *)
(*                                                                         *)
(* The properties speak of tunnels no request works on; the invariant says *)
(* what each request may rely on at the await it is suspended at, as long  *)
(* as no other request has worked on its tunnel.                           *)
(***************************************************************************)
EXTENDS TunnelApi, FiniteSetTheorems, TLAPS

-----------------------------------------------------------------------------
(* The inductive invariant *)

\* Which requests get to which stage.
InWay(q) ==
    /\ q.stage \notin {"idle", "listing", "next"} => q.t \in Tunnels
    /\ q.stage \in {"listing", "next"} => q.kind = "batch" /\ q.t = NoTunnel
    /\ q.stage # "idle" /\ q.kind # "batch" => q.todo = {}
    /\ q.stage # "idle" => q.t \notin q.todo
    /\ q.kind = "create" => q.action = "start"
    /\ q.stage \in {"checking", "loading", "deploying"} => q.kind # "delete" /\ q.action # "stop"
    /\ q.stage = "finding" => q.kind \in {"delete", "action"} /\ q.answer = "stopped"
    /\ q.stage \in {"inserting", "failing"} => q.kind = "create"
    /\ q.stage = "acting" => q.kind \in {"action", "batch"}
    /\ q.stage = "asking" => q.kind \in {"create", "action"}
    /\ q.stage = "writing" => q.kind # "delete"
    /\ q.stage \in {"removing", "dropping"} => q.kind = "delete"
    /\ q.answer # "starting"

InTheirWay == \A r \in Requests : InWay(req[r])

\* A tunnel that is not mixed is in the hands of one request at most, and a
\* panel that boots serves none.
HandsApart ==
    /\ \A t \in Tunnels \ mixed, q, r \in Requests : t \in Scope(q) /\ t \in Scope(r) => q = r
    /\ boot # {} => \A r \in Requests : At(r, "idle")
    /\ ~raced => \A q, r \in Requests : ~At(q, "idle") /\ ~At(r, "idle") => q = r

\* A process that runs is tracked, unless it outlived the panel or was missed.
UpKnown == up \subseteq tracked \cup adrift \cup missed /\ adrift \cap tracked = {}

\* What a request knows of the engine's record of its tunnel.
TrackedAsKnown(r) ==
    LET q == req[r] IN q.t \in Tunnels \ mixed =>
        /\ q.stage \in {"finding", "checking"} /\ q.kind \in {"action", "batch"} =>
            (q.has <=> q.t \in tracked)
        /\ q.stage \in {"loading", "deploying"} /\ q.kind # "create" => q.t \notin tracked
        /\ q.stage \in {"acting", "asking"} => q.t \in tracked
        /\ q.stage = "writing" =>
            /\ q.kind = "batch" /\ q.action # "stop" => q.t \in tracked
            /\ q.kind # "batch" /\ q.answer = "running" => q.t \in tracked
        /\ q.stage = "dropping" /\ q.t \notin unremoved => q.t \notin tracked

\* What a request knows of the row of its tunnel, and of those to come.
RowAsKnown(r) ==
    LET q == req[r] IN
        /\ q.t \in Tunnels \ mixed =>
            /\ \/ q.stage \in {"loading", "deploying", "acting", "asking", "writing", "failing"}
               \/ q.stage = "checking" /\ q.kind # "create"
               => row[q.t] # NoRow
            /\ q.stage \in {"loading", "deploying", "failing"} /\ q.kind = "create" =>
                row[q.t].state = "starting"
        /\ q.stage \notin {"idle", "listing"} => \A t \in q.todo \ mixed : row[t] # NoRow

\* A stop that has acted and missed nothing leaves nothing running, and is told so.
StoppedAsKnown(r) ==
    LET q == req[r] IN q.t \in Tunnels \ (mixed \cup missed) /\ q.action = "stop" =>
        /\ q.stage = "asking" => q.t \notin up
        /\ q.stage = "writing" =>
            /\ q.t \in up => q.t \in adrift
            /\ q.kind = "action" => q.answer # "running"

KnowsTracked == \A r \in Requests : TrackedAsKnown(r)
KnowsRow == \A r \in Requests : RowAsKnown(r)
KnowsStopped == \A r \in Requests : StoppedAsKnown(r)

\* The rows a booting panel has still to rehydrate still want it.
BootWanted == \A t \in boot : t \in Tunnels /\ Wanted(t)

\* A row that says running is tracked, about to be, or about to go.
RunsAsKnown(t) ==
    row[t] # NoRow /\ row[t].state = "running" =>
        t \in tracked \cup boot \/ \E r \in Requests : At(r, "dropping") /\ req[r].t = t

RunningKnown == \A t \in Tunnels \ mixed : RunsAsKnown(t)

\* A row that says starting is one a creation has inserted and goes on with.
StartsAsKnown(t) ==
    row[t] # NoRow /\ (row[t].state = "starting" \/ row[t].status = "starting") =>
        \E r \in Requests : /\ req[r].t = t /\ req[r].kind = "create"
                            /\ req[r].stage \notin {"idle", "checking", "inserting"}

StartingKnown == crashes = 0 => \A t \in Tunnels \ mixed : StartsAsKnown(t)

GhostKnown == \A t \in up \ (mixed \cup unremoved \cup adrift \cup missed) : row[t] # NoRow

\* A stopped tunnel does not run, is not wanted at boot, and only a delete works on it.
StaysStopped(t) ==
    /\ t \in up => t \in adrift
    /\ row[t] # NoRow => row[t].state \notin {"running", "starting"}
    /\ \A r \in Requests : t \in Scope(r) => req[r].kind = "delete"

StoppedKnown == \A t \in stopped \ (mixed \cup missed) : StaysStopped(t)

\* Who has passed the port check is the only one to hold the port.
PortFree(r) ==
    /\ req[r].stage \in {"inserting", "loading", "deploying", "acting", "asking",
                         "writing", "failing"}
    /\ req[r].action # "stop"
    => \A u \in Tunnels \ {req[r].t} : ~Holds(u)

PortKnown ==
    ~raced => /\ \A t, u \in Tunnels : Holds(t) /\ Holds(u) => t = u
              /\ \A r \in Requests : PortFree(r)

IInv ==
    /\ TypeOK /\ InTheirWay /\ HandsApart /\ UpKnown
    /\ KnowsTracked /\ KnowsRow /\ KnowsStopped /\ BootWanted
    /\ RunningKnown /\ StartingKnown /\ GhostKnown /\ StoppedKnown /\ PortKnown

-----------------------------------------------------------------------------
(* Where each step leads *)

ReqType ==
    [stage : {"idle", "finding", "checking", "inserting", "loading", "deploying", "acting",
              "asking", "writing", "failing", "removing", "dropping", "listing", "next"},
     kind : {"create", "delete", "action", "batch"}, action : Actions,
     t : Tunnels \cup {NoTunnel}, has : BOOLEAN,
     todo : SUBSET Tunnels, fetched : SUBSET Tunnels, answer : States]

OthersStay(r) == \A q \in Requests \ {r} : req'[q] = req[q]

\* The request is at another stage, its locals as they were.
Moved(r, stage) ==
    /\ OthersStay(r) /\ req'[r].stage = stage
    /\ req'[r].kind = req[r].kind /\ req'[r].action = req[r].action
    /\ req'[r].t = req[r].t /\ req'[r].has = req[r].has
    /\ req'[r].todo = req[r].todo /\ req'[r].answer = req[r].answer

Over(r) ==
    /\ OthersStay(r) /\ req'[r].stage = "idle" /\ req'[r].t = NoTunnel
    /\ req'[r].kind = "action" /\ req'[r].action = "stop" /\ req'[r].answer = "stopped"

\* It has ended, or a batch is done with one of its tunnels.
Ended(r) ==
    \/ req[r].kind # "batch" /\ Over(r)
    \/ /\ req[r].kind = "batch"
       /\ OthersStay(r) /\ req'[r].stage = "next" /\ req'[r].t = NoTunnel
       /\ req'[r].kind = req[r].kind /\ req'[r].action = req[r].action
       /\ req'[r].todo = req[r].todo /\ req'[r].answer = req[r].answer

\* It has begun.
Opened(r, kind, action, stage, t, has, ts) ==
    /\ At(r, "idle") /\ boot = {} /\ OthersStay(r)
    /\ req'[r].stage = stage /\ req'[r].kind = kind /\ req'[r].action = action
    /\ req'[r].t = t /\ req'[r].has = has
    /\ req'[r].todo = (IF kind = "batch" THEN ts ELSE {})
    /\ req'[r].answer = "stopped"
    /\ \A u \in Tunnels \ mixed' : u \notin mixed /\ (u \in ts => Quiet(u))
    /\ raced' = (raced \/ \E other \in Requests : ~At(other, "idle"))
    /\ UNCHANGED <<row, engine, boot, adrift, missed, unremoved, survives, crashes>>

\* A request that goes to a stage keeps its locals.
LEMMA GotoMoves ==
  ASSUME TypeOK, NEW r \in Requests, NEW stage, Goto(r, stage)
  PROVE  Moved(r, stage)
  BY DEF TypeOK, Goto, Moved, OthersStay

\* A request that finishes has ended.
LEMMA FinishEnds ==
  ASSUME TypeOK, NEW r \in Requests, Finish(r)
  PROVE  Ended(r)
<1>1. CASE req[r].kind = "batch"
  BY <1>1 DEF TypeOK, Finish, Ended, OthersStay
<1>2. CASE req[r].kind # "batch"
  BY <1>2 DEF TypeOK, Finish, Ended, Over, OthersStay, Idle
<1>3. QED BY <1>1, <1>2

\* Going to a stage keeps the requests typed.
LEMMA GotoTyped ==
  ASSUME TypeOK, NEW r \in Requests,
         NEW stage \in {"idle", "finding", "checking", "inserting", "loading", "deploying",
            "acting", "asking", "writing", "failing", "removing", "dropping", "listing", "next"},
         Goto(r, stage)
  PROVE  req' \in [Requests -> ReqType]
<1>1. req[r] \in ReqType
  BY DEF TypeOK, ReqType
<1>2. [req[r] EXCEPT !.stage = stage] \in ReqType
  BY <1>1 DEF ReqType
<1>3. req' = [req EXCEPT ![r] = [req[r] EXCEPT !.stage = stage]]
  BY DEF Goto
<1>4. QED BY <1>2, <1>3 DEF TypeOK, ReqType

\* Finishing keeps the requests typed.
LEMMA FinishTyped ==
  ASSUME TypeOK, NEW r \in Requests, Finish(r)
  PROVE  req' \in [Requests -> ReqType]
<1>1. Idle \in ReqType
  BY DEF Idle, ReqType, Actions, States, Statuses
<1>2. [req[r] EXCEPT !.stage = "next", !.t = NoTunnel] \in ReqType
  BY DEF TypeOK, ReqType
<1>3. QED BY <1>1, <1>2 DEF TypeOK, Finish, ReqType

\* A creation begins with the port check.
LEMMA CreateLeads ==
  ASSUME TypeOK, NEW r \in Requests, NEW t \in Tunnels, Create(r, t)
  PROVE  /\ Opened(r, "create", "start", "checking", t, FALSE, {t})
         /\ stopped' = stopped \ {t}
  BY DEF TypeOK, Create, Begin, Opened, OthersStay, Idle

\* A delete begins with reading the row.
LEMMA DeleteLeads ==
  ASSUME TypeOK, NEW r \in Requests, NEW t \in Tunnels, Delete(r, t)
  PROVE  /\ Opened(r, "delete", "stop", "finding", t, FALSE, {t})
         /\ stopped' = stopped
  BY DEF TypeOK, Delete, Begin, Opened, OthersStay, Idle

\* An action has asked engine.has() before it reads the row.
LEMMA ActionLeads ==
  ASSUME TypeOK, NEW r \in Requests, NEW t \in Tunnels, NEW action \in Actions,
         Action(r, t, action)
  PROVE  /\ Opened(r, "action", action, "finding", t, t \in tracked, {t})
         /\ stopped' = stopped \ {t}
  BY DEF TypeOK, Action, Begin, Opened, OthersStay, Idle

\* A batch begins with reading the rows.
LEMMA BatchLeads ==
  ASSUME TypeOK, NEW r \in Requests, NEW ts \in SUBSET Tunnels, NEW action \in Actions,
         Batch(r, ts, action)
  PROVE  /\ Opened(r, "batch", action, "listing", NoTunnel, FALSE, ts)
         /\ stopped' = stopped \ ts
  BY DEF TypeOK, Batch, Begin, Opened, OthersStay, Idle

\* Where the row that was read, or was not there, leads a request.
LEMMA FindLeads ==
  ASSUME TypeOK, InTheirWay, NEW r \in Requests, Find(r)
  PROVE  LET q == req[r] IN
         /\ q.stage = "finding" /\ UNCHANGED <<row, engine, boot, history, bounds>>
         /\ \/ row[q.t] = NoRow /\ Over(r)
            \/ /\ row[q.t] # NoRow
               /\ \/ q.kind = "delete" /\ q.t \in tracked /\ Moved(r, "removing")
                  \/ q.kind = "delete" /\ q.t \notin tracked /\ Moved(r, "dropping")
                  \/ q.kind = "action" /\ q.action # "stop" /\ Moved(r, "checking")
                  \/ q.kind = "action" /\ q.action = "stop" /\ q.has /\ Moved(r, "acting")
                  \/ q.kind = "action" /\ q.action = "stop" /\ ~q.has /\ Moved(r, "writing")
<1>1. req[r].kind \in {"delete", "action"}
  BY DEF Find, At, InTheirWay, InWay
<1>2. Finish(r) => Over(r)
  BY <1>1, FinishEnds DEF Ended
<1>3. QED BY <1>1, <1>2, GotoMoves DEF Find, At

\* A batch goes on with the rows it has found.
LEMMA ListLeads ==
  ASSUME TypeOK, NEW r \in Requests, List(r)
  PROVE  /\ req[r].stage = "listing" /\ UNCHANGED <<row, engine, boot, history, bounds>>
         /\ OthersStay(r) /\ req'[r].stage = "next"
         /\ req'[r].kind = req[r].kind /\ req'[r].action = req[r].action
         /\ req'[r].t = req[r].t /\ req'[r].has = req[r].has /\ req'[r].answer = req[r].answer
         /\ req'[r].todo = {t \in req[r].todo : row[t] # NoRow}
  BY DEF TypeOK, List, At, OthersStay

\* A batch takes the next of its tunnels up.
LEMMA TurnLeads ==
  ASSUME TypeOK, NEW r \in Requests, Turn(r)
  PROVE  /\ req[r].stage = "next" /\ UNCHANGED <<row, engine, boot, history, bounds>>
         /\ OthersStay(r)
         /\ req'[r].kind = req[r].kind /\ req'[r].action = req[r].action
         /\ req'[r].answer = req[r].answer
         /\ req'[r].t \in req[r].todo /\ req'[r].todo = req[r].todo \ {req'[r].t}
         /\ req'[r].has = (req'[r].t \in tracked)
         /\ req'[r].stage = IF req[r].action # "stop" THEN "checking"
                            ELSE IF req'[r].t \in tracked THEN "acting" ELSE "writing"
  BY DEF TypeOK, Turn, At, OthersStay

\* A batch ends when it is through.
LEMMA BatchEndsLeads ==
  ASSUME TypeOK, NEW r \in Requests, BatchEnds(r)
  PROVE  /\ req[r].stage = "next" /\ UNCHANGED <<row, engine, boot, history, bounds>>
         /\ Over(r)
  BY DEF TypeOK, BatchEnds, At, Over, OthersStay, Idle

\* A request goes on only when no other tunnel holds the port.
LEMMA CheckPortLeads ==
  ASSUME TypeOK, NEW r \in Requests, CheckPort(r)
  PROVE  LET q == req[r] IN
         /\ q.stage = "checking" /\ UNCHANGED <<row, engine, boot, history, bounds>>
         /\ \/ Ended(r)
            \/ /\ \A t \in Tunnels \ {q.t} : ~Holds(t)
               /\ \/ q.kind = "create" /\ Moved(r, "inserting")
                  \/ q.kind # "create" /\ q.has /\ Moved(r, "acting")
                  \/ q.kind # "create" /\ ~q.has /\ Moved(r, "loading")
<1>1. CASE \E t \in Tunnels \ {req[r].t} : Holds(t)
  BY <1>1, FinishEnds DEF CheckPort, At
<1>2. CASE ~ \E t \in Tunnels \ {req[r].t} : Holds(t)
  BY <1>2, GotoMoves DEF CheckPort, At
<1>3. QED BY <1>1, <1>2

\* One row changes, and how.
RowBecomes(t, status, state) ==
    /\ \A u \in Tunnels \ {t} : row'[u] = row[u]
    /\ row'[t] \in Rows /\ row'[t].status = status /\ row'[t].state = state

\* The row of a new tunnel says starting.
LEMMA InsertLeads ==
  ASSUME TypeOK, InTheirWay, NEW r \in Requests, Insert(r)
  PROVE  /\ req[r].stage = "inserting" /\ UNCHANGED <<engine, boot, history, bounds>>
         /\ RowBecomes(req[r].t, "starting", "starting")
         /\ Moved(r, "loading")
<1>1. req[r].t \in Tunnels
  BY DEF Insert, At, InTheirWay, InWay
<1>2. RowBecomes(req[r].t, "starting", "starting")
  BY <1>1 DEF TypeOK, Insert, RowBecomes, Rows, Statuses, States
<1>3. QED BY <1>2, GotoMoves DEF Insert, At

\* Who has its configuration deploys.
LEMMA LoadLeads ==
  ASSUME TypeOK, InTheirWay, NEW r \in Requests, Load(r)
  PROVE  LET q == req[r] IN
         /\ q.stage = "loading" /\ UNCHANGED <<row, engine, boot, history, bounds>>
         /\ \/ q.kind = "create" /\ (Moved(r, "deploying") \/ Moved(r, "failing"))
            \/ q.kind \in {"action", "batch"} /\ (Moved(r, "deploying") \/ Ended(r))
<1>1. CASE req[r].kind = "create"
  BY <1>1, GotoMoves DEF Load, At
<1>2. CASE req[r].kind = "action"
  BY <1>2, GotoMoves, FinishEnds DEF Load, At
<1>3. CASE req[r].kind = "batch"
  BY <1>3, GotoMoves, FinishEnds DEF Load, At
<1>4. req[r].kind \in {"create", "action", "batch"}
  BY DEF TypeOK, Load, At, InTheirWay, InWay
<1>5. QED BY <1>1, <1>2, <1>3, <1>4

\* A creation asks after its deploy, an action acts.
LEMMA DeployLeads ==
  ASSUME TypeOK, NEW r \in Requests, Deploy(r)
  PROVE  /\ req[r].stage = "deploying" /\ Track(req[r].t)
         /\ UNCHANGED <<row, boot, mixed, unremoved, stopped, raced, bounds>>
         /\ \/ req[r].kind = "create" /\ Moved(r, "asking")
            \/ req[r].kind # "create" /\ Moved(r, "acting")
  BY GotoMoves DEF Deploy, At

\* A creation whose deploy failed has its row to correct.
LEMMA DeployFailsLeads ==
  ASSUME TypeOK, NEW r \in Requests, DeployFails(r)
  PROVE  /\ req[r].stage = "deploying" /\ RollBack(req[r].t)
         /\ UNCHANGED <<row, boot, mixed, unremoved, stopped, raced, bounds>>
         /\ \/ req[r].kind = "create" /\ Moved(r, "failing")
            \/ req[r].kind # "create" /\ Ended(r)
  BY GotoMoves, FinishEnds DEF DeployFails, At

\* A creation that failed leaves its row stopped.
LEMMA FailCreateLeads ==
  ASSUME TypeOK, InTheirWay, NEW r \in Requests, FailCreate(r)
  PROVE  /\ req[r].stage = "failing" /\ UNCHANGED <<engine, boot, history, bounds>>
         /\ IF row[req[r].t] = NoRow THEN row' = row
            ELSE RowBecomes(req[r].t, "stopped", "stopped")
         /\ Over(r)
<1>1. req[r].t \in Tunnels /\ req[r].kind = "create"
  BY DEF FailCreate, At, InTheirWay, InWay
<1>2. CASE row[req[r].t] = NoRow
  BY <1>1, <1>2, FinishEnds DEF TypeOK, FailCreate, At, Ended
<1>3. CASE row[req[r].t] # NoRow
  <2> DEFINE new == [row[req[r].t] EXCEPT !.status = "stopped", !.state = "stopped"]
  <2>0. new \in Rows /\ new.status = "stopped" /\ new.state = "stopped"
    BY <1>1, <1>3 DEF TypeOK, Rows, Statuses, States
  <2> HIDE DEF new
  <2>1. RowBecomes(req[r].t, "stopped", "stopped")
    BY <1>1, <1>3, <2>0 DEF TypeOK, FailCreate, RowBecomes, new
  <2>2. QED BY <1>1, <1>3, <2>1, FinishEnds DEF FailCreate, At, Ended
<1>4. QED BY <1>2, <1>3

\* What an operation does to the processes of a tunnel.
LEMMA ActLeads ==
  ASSUME TypeOK, NEW r \in Requests, Act(r)
  PROVE  LET q == req[r] IN
         /\ q.stage = "acting"
         /\ UNCHANGED <<row, tracked, boot, mixed, adrift, unremoved, stopped, raced, bounds>>
         /\ q.t \notin tracked => UNCHANGED <<up, missed>>
         /\ q.t \in tracked /\ q.action = "stop" => TearDown(q.t)
         /\ q.t \in tracked /\ q.action # "stop" => up' = up \cup {q.t} /\ UNCHANGED missed
         /\ \/ q.kind = "batch" /\ Moved(r, "writing")
            \/ q.kind # "batch" /\ Moved(r, "asking")
  BY GotoMoves DEF Act, At

\* An operation that fails ends the request, or the turn of the batch.
LEMMA ActFailsLeads ==
  ASSUME TypeOK, NEW r \in Requests, ActFails(r)
  PROVE  /\ req[r].stage = "acting" /\ UNCHANGED <<row, tracked, boot, history, bounds>>
         /\ req[r].t \in tracked
         /\ up' \in {up, up \ {req[r].t}, up \cup {req[r].t}}
         /\ Ended(r)
  BY FinishEnds DEF ActFails, At

\* What the probe may answer.
LEMMA AskLeads ==
  ASSUME TypeOK, NEW r \in Requests, Ask(r)
  PROVE  /\ req[r].stage = "asking" /\ UNCHANGED <<row, engine, boot, history, bounds>>
         /\ OthersStay(r) /\ req'[r].stage = "writing"
         /\ req'[r].kind = req[r].kind /\ req'[r].action = req[r].action
         /\ req'[r].t = req[r].t /\ req'[r].has = req[r].has /\ req'[r].todo = req[r].todo
         /\ req'[r].answer \in {"running", "degraded", "stopped", "unknown"}
         /\ req'[r].answer \in {"running", "degraded"} => req[r].t \in tracked \cap up
  BY DEF TypeOK, Ask, At, OthersStay, Truth

\* The status and the state that Outcome gives a row.
Status(q) == IF q.kind = "create" THEN IF q.answer = "unknown" THEN "stopped" ELSE "running"
             ELSE Desired(q.action)
State(q) == IF q.kind = "create" \/ (q.kind = "action" /\ (q.has \/ q.action # "stop"))
            THEN q.answer ELSE Desired(q.action)

\* A write changes the row it finds, and ends the request.
LEMMA WriteLeads ==
  ASSUME TypeOK, InTheirWay, NEW r \in Requests, Write(r)
  PROVE  LET q == req[r] IN
         /\ q.stage = "writing" /\ UNCHANGED <<engine, boot, mixed, adrift, missed, unremoved, raced, bounds>>
         /\ Ended(r)
         /\ \/ row[q.t] = NoRow /\ row' = row /\ stopped' = stopped
            \/ /\ row[q.t] # NoRow
               /\ RowBecomes(q.t, Status(q), State(q))
               /\ stopped' = IF q.action = "stop" THEN stopped \cup {q.t} ELSE stopped
<1> DEFINE q == req[r]
<1>1. q.t \in Tunnels
  BY DEF Write, At, InTheirWay, InWay
<1>2. Ended(r)
  BY FinishEnds DEF Write
<1>3. CASE row[q.t] = NoRow
  BY <1>2, <1>3 DEF Write, At
<1>4. CASE row[q.t] # NoRow
  <2>1. Outcome(q).status = Status(q) /\ Outcome(q).state = State(q)
    <3>1. CASE q.kind = "create"
      <4>1. CASE q.answer = "unknown"
        BY <3>1, <4>1 DEF Outcome, Status, State
      <4>2. CASE q.answer # "unknown"
        BY <3>1, <4>2 DEF Outcome, Status, State
      <4>3. QED BY <4>1, <4>2
    <3>2. CASE q.kind = "action" /\ (q.has \/ q.action # "stop")
      BY <3>2 DEF Outcome, Status, State
    <3>3. CASE q.kind # "create" /\ ~ (q.kind = "action" /\ (q.has \/ q.action # "stop"))
      BY <3>3 DEF Outcome, Status, State
    <3>4. QED BY <3>1, <3>2, <3>3
  <2>2. Status(q) \in Statuses /\ State(q) \in States
    BY DEF TypeOK, Status, State, Desired, Statuses, States
  <2>3. row' = [row EXCEPT ![q.t].status = Status(q), ![q.t].state = State(q)]
    BY <1>4, <2>1 DEF Write
  <2> HIDE DEF q
  <2>4. row[q.t] \in Rows
    BY <1>1, <1>4 DEF TypeOK
  <2>5. /\ row'[q.t] \in Rows /\ row'[q.t].status = Status(q) /\ row'[q.t].state = State(q)
        /\ \A u \in Tunnels \ {q.t} : row'[u] = row[u]
    BY <1>1, <2>2, <2>3, <2>4 DEF TypeOK, Rows
  <2>6. RowBecomes(q.t, Status(q), State(q))
    BY <2>5 DEF RowBecomes
  <2>7. QED BY <1>2, <1>4, <2>6 DEF Write, At, q
<1>5. QED BY <1>3, <1>4

\* A tunnel removed from the engine has its row to go.
LEMMA RemoveLeads ==
  ASSUME TypeOK, NEW r \in Requests, Remove(r)
  PROVE  /\ req[r].stage = "removing"
         /\ tracked' = tracked \ {req[r].t} /\ TearDown(req[r].t)
         /\ UNCHANGED <<row, boot, mixed, adrift, unremoved, stopped, raced, bounds>>
         /\ Moved(r, "dropping")
  BY GotoMoves DEF Remove, At

\* So has one whose removal failed.
LEMMA RemoveFailsLeads ==
  ASSUME TypeOK, NEW r \in Requests, RemoveFails(r)
  PROVE  /\ req[r].stage = "removing" /\ unremoved' = unremoved \cup {req[r].t}
         /\ UNCHANGED <<row, engine, boot, mixed, adrift, missed, stopped, raced, bounds>>
         /\ Moved(r, "dropping")
  BY GotoMoves DEF RemoveFails, At

\* A delete ends with the row gone.
LEMMA DropLeads ==
  ASSUME TypeOK, InTheirWay, NEW r \in Requests, Drop(r)
  PROVE  /\ req[r].stage = "dropping" /\ row'[req[r].t] = NoRow
         /\ \A u \in Tunnels \ {req[r].t} : row'[u] = row[u]
         /\ UNCHANGED <<engine, boot, history, bounds>>
         /\ Over(r)
<1>1. req[r].t \in Tunnels /\ req[r].kind = "delete"
  BY DEF Drop, At, InTheirWay, InWay
<1>2. Over(r)
  BY <1>1, FinishEnds DEF Drop, Ended
<1>3. QED BY <1>1, <1>2 DEF TypeOK, Drop, At

-----------------------------------------------------------------------------
(* Every step preserves each part *)

\* The fields of a request, typed.
LEMMA FieldsTyped ==
  ASSUME TypeOK, NEW r \in Requests
  PROVE  /\ req[r].kind \in {"create", "delete", "action", "batch"}
         /\ req[r].action \in Actions /\ req[r].todo \in SUBSET Tunnels
         /\ req[r].t \in Tunnels \cup {NoTunnel}
  BY DEF TypeOK

\* Every step keeps the requests in their way.
LEMMA WayStep ==
  ASSUME TypeOK, InTheirWay, [Next]_vars
  PROVE  InTheirWay'
<1>0. \A r \in Requests : InWay(req[r])
  BY DEF InTheirWay
<1> USE ApiAssumption, <1>0 DEF engine, history, bounds, vars
<1>1. ASSUME NEW r \in Requests, NEW t \in Tunnels, Create(r, t)
      PROVE  InTheirWay'
  <2>1. Opened(r, "create", "start", "checking", t, FALSE, {t})
    BY <1>1, CreateLeads
  <2>2. OthersStay(r) /\ InWay(req'[r])
    BY <2>1 DEF Opened, InWay, Actions
  <2>3. QED BY <2>2 DEF OthersStay, InTheirWay
<1>2. ASSUME NEW r \in Requests, NEW t \in Tunnels, Delete(r, t)
      PROVE  InTheirWay'
  <2>1. Opened(r, "delete", "stop", "finding", t, FALSE, {t})
    BY <1>2, DeleteLeads
  <2>2. OthersStay(r) /\ InWay(req'[r])
    BY <2>1 DEF Opened, InWay, Actions
  <2>3. QED BY <2>2 DEF OthersStay, InTheirWay
<1>3. ASSUME NEW r \in Requests, NEW t \in Tunnels, NEW action \in Actions, Action(r, t, action)
      PROVE  InTheirWay'
  <2>1. Opened(r, "action", action, "finding", t, t \in tracked, {t})
    BY <1>3, ActionLeads
  <2>2. OthersStay(r) /\ InWay(req'[r])
    BY <2>1 DEF Opened, InWay, Actions
  <2>3. QED BY <2>2 DEF OthersStay, InTheirWay
<1>4. ASSUME NEW r \in Requests, NEW ts \in SUBSET Tunnels, NEW action \in Actions, Batch(r, ts, action)
      PROVE  InTheirWay'
  <2>1. Opened(r, "batch", action, "listing", NoTunnel, FALSE, ts)
    BY <1>4, BatchLeads
  <2>2. OthersStay(r) /\ InWay(req'[r])
    BY <2>1 DEF Opened, InWay, Actions
  <2>3. QED BY <2>2 DEF OthersStay, InTheirWay
<1>5. ASSUME NEW r \in Requests, Find(r) PROVE InTheirWay'
  <2>1. OthersStay(r) /\ InWay(req'[r])
    BY <1>5, FindLeads, FieldsTyped DEF InWay, Moved, Ended, Over, Opened, Actions
  <2>2. QED BY <2>1 DEF OthersStay, InTheirWay
<1>6. ASSUME NEW r \in Requests, List(r) PROVE InTheirWay'
  <2>1. OthersStay(r) /\ InWay(req'[r])
    BY <1>6, ListLeads, FieldsTyped DEF InWay, Moved, Ended, Over, Opened, Actions
  <2>2. QED BY <2>1 DEF OthersStay, InTheirWay
<1>7. ASSUME NEW r \in Requests, Turn(r) PROVE InTheirWay'
  <2>1. OthersStay(r) /\ InWay(req'[r])
    BY <1>7, TurnLeads, FieldsTyped DEF InWay, Moved, Ended, Over, Opened, Actions
  <2>2. QED BY <2>1 DEF OthersStay, InTheirWay
<1>8. ASSUME NEW r \in Requests, BatchEnds(r) PROVE InTheirWay'
  <2>1. OthersStay(r) /\ InWay(req'[r])
    BY <1>8, BatchEndsLeads, FieldsTyped DEF InWay, Moved, Ended, Over, Opened, Actions
  <2>2. QED BY <2>1 DEF OthersStay, InTheirWay
<1>9. ASSUME NEW r \in Requests, CheckPort(r) PROVE InTheirWay'
  <2>1. OthersStay(r) /\ InWay(req'[r])
    BY <1>9, CheckPortLeads, FieldsTyped DEF InWay, Moved, Ended, Over, Opened, Actions
  <2>2. QED BY <2>1 DEF OthersStay, InTheirWay
<1>10. ASSUME NEW r \in Requests, Insert(r) PROVE InTheirWay'
  <2>1. OthersStay(r) /\ InWay(req'[r])
    BY <1>10, InsertLeads, FieldsTyped DEF InWay, Moved, Ended, Over, Opened, Actions
  <2>2. QED BY <2>1 DEF OthersStay, InTheirWay
<1>11. ASSUME NEW r \in Requests, Load(r) PROVE InTheirWay'
  <2>1. OthersStay(r) /\ InWay(req'[r])
    BY <1>11, LoadLeads, FieldsTyped DEF InWay, Moved, Ended, Over, Opened, Actions
  <2>2. QED BY <2>1 DEF OthersStay, InTheirWay
<1>12. ASSUME NEW r \in Requests, Deploy(r) PROVE InTheirWay'
  <2>1. OthersStay(r) /\ InWay(req'[r])
    BY <1>12, DeployLeads, FieldsTyped DEF InWay, Moved, Ended, Over, Opened, Actions
  <2>2. QED BY <2>1 DEF OthersStay, InTheirWay
<1>13. ASSUME NEW r \in Requests, DeployFails(r) PROVE InTheirWay'
  <2>1. OthersStay(r) /\ InWay(req'[r])
    BY <1>13, DeployFailsLeads, FieldsTyped DEF InWay, Moved, Ended, Over, Opened, Actions
  <2>2. QED BY <2>1 DEF OthersStay, InTheirWay
<1>14. ASSUME NEW r \in Requests, FailCreate(r) PROVE InTheirWay'
  <2>1. OthersStay(r) /\ InWay(req'[r])
    BY <1>14, FailCreateLeads, FieldsTyped DEF InWay, Moved, Ended, Over, Opened, Actions
  <2>2. QED BY <2>1 DEF OthersStay, InTheirWay
<1>15. ASSUME NEW r \in Requests, Act(r) PROVE InTheirWay'
  <2>1. OthersStay(r) /\ InWay(req'[r])
    BY <1>15, ActLeads, FieldsTyped DEF InWay, Moved, Ended, Over, Opened, Actions
  <2>2. QED BY <2>1 DEF OthersStay, InTheirWay
<1>16. ASSUME NEW r \in Requests, ActFails(r) PROVE InTheirWay'
  <2>1. OthersStay(r) /\ InWay(req'[r])
    BY <1>16, ActFailsLeads, FieldsTyped DEF InWay, Moved, Ended, Over, Opened, Actions
  <2>2. QED BY <2>1 DEF OthersStay, InTheirWay
<1>17. ASSUME NEW r \in Requests, Ask(r) PROVE InTheirWay'
  <2>1. OthersStay(r) /\ InWay(req'[r])
    BY <1>17, AskLeads, FieldsTyped DEF InWay, Moved, Ended, Over, Opened, Actions
  <2>2. QED BY <2>1 DEF OthersStay, InTheirWay
<1>18. ASSUME NEW r \in Requests, Write(r) PROVE InTheirWay'
  <2>1. Ended(r) /\ req[r].stage = "writing"
    BY <1>18, WriteLeads
  <2>2. OthersStay(r) /\ InWay(req'[r])
    BY <2>1, FieldsTyped DEF Ended, Over, InWay, Actions
  <2>3. QED BY <2>2 DEF OthersStay, InTheirWay
<1>19. ASSUME NEW r \in Requests, Remove(r) PROVE InTheirWay'
  <2>1. OthersStay(r) /\ InWay(req'[r])
    BY <1>19, RemoveLeads, FieldsTyped DEF InWay, Moved, Ended, Over, Opened, Actions
  <2>2. QED BY <2>1 DEF OthersStay, InTheirWay
<1>20. ASSUME NEW r \in Requests, RemoveFails(r) PROVE InTheirWay'
  <2>1. OthersStay(r) /\ InWay(req'[r])
    BY <1>20, RemoveFailsLeads, FieldsTyped DEF InWay, Moved, Ended, Over, Opened, Actions
  <2>2. QED BY <2>1 DEF OthersStay, InTheirWay
<1>21. ASSUME NEW r \in Requests, Drop(r) PROVE InTheirWay'
  <2>1. OthersStay(r) /\ InWay(req'[r])
    BY <1>21, DropLeads, FieldsTyped DEF InWay, Moved, Ended, Over, Opened, Actions
  <2>2. QED BY <2>1 DEF OthersStay, InTheirWay
<1>22. ASSUME NEW t \in Tunnels, Die(t) PROVE InTheirWay'
  BY <1>22 DEF Die, InTheirWay
<1>23. ASSUME NEW t \in Tunnels, Rehydrate(t) PROVE InTheirWay'
  BY <1>23 DEF Rehydrate, InTheirWay
<1>24. ASSUME NEW t \in Tunnels, RehydrateFails(t) PROVE InTheirWay'
  BY <1>24 DEF RehydrateFails, InTheirWay
<1>25. ASSUME Crash PROVE InTheirWay'
  BY <1>25 DEF Crash, InTheirWay, InWay, Idle
<1>26. CASE UNCHANGED vars
  BY <1>26 DEF InTheirWay
<1>27. QED BY <1>1, <1>2, <1>3, <1>4, <1>5, <1>6, <1>7, <1>8, <1>9, <1>10, <1>11, <1>12, <1>13, <1>14, <1>15, <1>16, <1>17, <1>18, <1>19, <1>20, <1>21, <1>22, <1>23, <1>24, <1>25, <1>26 DEF Next, Step

\* A step of a request at work lets go of tunnels only.
LEMMA HandsLetGo ==
  ASSUME HandsApart, NEW r \in Requests, OthersStay(r), req[r].stage # "idle",
         UNCHANGED <<mixed, raced, boot>>,
         \A t \in Tunnels : t \in Scope(r)' => t \in Scope(r)
  PROVE  HandsApart'
<1>1. \A q \in Requests \ {r} : Scope(q)' = Scope(q) /\ (At(q, "idle")' <=> At(q, "idle"))
  BY DEF OthersStay, Scope, At
<1>2. boot = {} /\ ~At(r, "idle")
  BY DEF HandsApart, At
<1>3. QED BY <1>1, <1>2 DEF HandsApart

\* A request that begins takes a tunnel nobody works on, or the tunnel is mixed.
LEMMA HandsTaken ==
  ASSUME HandsApart, NEW r \in Requests, NEW kind, NEW action, NEW stage, NEW t, NEW has,
         NEW ts \in SUBSET Tunnels, stage # "idle", t \in ts \cup {NoTunnel},
         Opened(r, kind, action, stage, t, has, ts)
  PROVE  HandsApart'
<1>1. \A q \in Requests \ {r} : Scope(q)' = Scope(q) /\ (At(q, "idle")' <=> At(q, "idle"))
  BY DEF Opened, OthersStay, Scope, At
<1>2. \A u \in Tunnels : u \in Scope(r)' => u \in ts
  BY ApiAssumption DEF Opened, Scope
<1>3. \A u \in Tunnels \ mixed' : u \notin mixed /\ (u \in ts => \A q \in Requests : u \notin Scope(q))
  BY DEF Opened, Quiet
<1>4. boot' = {} /\ At(r, "idle")
  BY DEF Opened, engine
<1>5. ~raced' => ~raced /\ \A q \in Requests : At(q, "idle")
  BY DEF Opened
<1>6. QED BY <1>1, <1>2, <1>3, <1>4, <1>5 DEF HandsApart

\* Every step keeps the hands on a tunnel apart.
LEMMA HandsStep ==
  ASSUME TypeOK, InTheirWay, HandsApart, [Next]_vars
  PROVE  HandsApart'
<1> USE ApiAssumption DEF engine, history, bounds, vars
<1>1. ASSUME NEW r \in Requests, NEW t \in Tunnels, Create(r, t)
      PROVE  HandsApart'
  <2>1. Opened(r, "create", "start", "checking", t, FALSE, {t})
    BY <1>1, CreateLeads
  <2>2. QED BY <2>1, HandsTaken
<1>2. ASSUME NEW r \in Requests, NEW t \in Tunnels, Delete(r, t)
      PROVE  HandsApart'
  <2>1. Opened(r, "delete", "stop", "finding", t, FALSE, {t})
    BY <1>2, DeleteLeads
  <2>2. QED BY <2>1, HandsTaken
<1>3. ASSUME NEW r \in Requests, NEW t \in Tunnels, NEW action \in Actions, Action(r, t, action)
      PROVE  HandsApart'
  <2>1. Opened(r, "action", action, "finding", t, t \in tracked, {t})
    BY <1>3, ActionLeads
  <2>2. QED BY <2>1, HandsTaken
<1>4. ASSUME NEW r \in Requests, NEW ts \in SUBSET Tunnels, NEW action \in Actions, Batch(r, ts, action)
      PROVE  HandsApart'
  <2>1. Opened(r, "batch", action, "listing", NoTunnel, FALSE, ts)
    BY <1>4, BatchLeads
  <2>2. QED BY <2>1, HandsTaken
<1>5. ASSUME NEW r \in Requests, Find(r) PROVE HandsApart'
  <2>1. OthersStay(r) /\ req[r].stage # "idle" /\ UNCHANGED <<mixed, raced, boot>>
    BY <1>5, FindLeads DEF Moved, Ended, Over
  <2>2. \A t \in Tunnels : t \in Scope(r)' => t \in Scope(r)
    BY <1>5, FindLeads DEF Moved, Ended, Over, Scope
  <2>3. QED BY <2>1, <2>2, HandsLetGo
<1>6. ASSUME NEW r \in Requests, List(r) PROVE HandsApart'
  <2>1. OthersStay(r) /\ req[r].stage # "idle" /\ UNCHANGED <<mixed, raced, boot>>
    BY <1>6, ListLeads DEF Moved, Ended, Over
  <2>2. \A t \in Tunnels : t \in Scope(r)' => t \in Scope(r)
    BY <1>6, ListLeads DEF Moved, Ended, Over, Scope
  <2>3. QED BY <2>1, <2>2, HandsLetGo
<1>7. ASSUME NEW r \in Requests, Turn(r) PROVE HandsApart'
  <2>1. OthersStay(r) /\ req[r].stage # "idle" /\ UNCHANGED <<mixed, raced, boot>>
    BY <1>7, TurnLeads DEF Moved, Ended, Over
  <2>2. \A t \in Tunnels : t \in Scope(r)' => t \in Scope(r)
    BY <1>7, TurnLeads DEF Moved, Ended, Over, Scope
  <2>3. QED BY <2>1, <2>2, HandsLetGo
<1>8. ASSUME NEW r \in Requests, BatchEnds(r) PROVE HandsApart'
  <2>1. OthersStay(r) /\ req[r].stage # "idle" /\ UNCHANGED <<mixed, raced, boot>>
    BY <1>8, BatchEndsLeads DEF Moved, Ended, Over
  <2>2. \A t \in Tunnels : t \in Scope(r)' => t \in Scope(r)
    BY <1>8, BatchEndsLeads DEF Moved, Ended, Over, Scope
  <2>3. QED BY <2>1, <2>2, HandsLetGo
<1>9. ASSUME NEW r \in Requests, CheckPort(r) PROVE HandsApart'
  <2>1. OthersStay(r) /\ req[r].stage # "idle" /\ UNCHANGED <<mixed, raced, boot>>
    BY <1>9, CheckPortLeads DEF Moved, Ended, Over
  <2>2. \A t \in Tunnels : t \in Scope(r)' => t \in Scope(r)
    BY <1>9, CheckPortLeads DEF Moved, Ended, Over, Scope
  <2>3. QED BY <2>1, <2>2, HandsLetGo
<1>10. ASSUME NEW r \in Requests, Insert(r) PROVE HandsApart'
  <2>1. OthersStay(r) /\ req[r].stage # "idle" /\ UNCHANGED <<mixed, raced, boot>>
    BY <1>10, InsertLeads DEF Moved, Ended, Over
  <2>2. \A t \in Tunnels : t \in Scope(r)' => t \in Scope(r)
    BY <1>10, InsertLeads DEF Moved, Ended, Over, Scope
  <2>3. QED BY <2>1, <2>2, HandsLetGo
<1>11. ASSUME NEW r \in Requests, Load(r) PROVE HandsApart'
  <2>1. OthersStay(r) /\ req[r].stage # "idle" /\ UNCHANGED <<mixed, raced, boot>>
    BY <1>11, LoadLeads DEF Moved, Ended, Over
  <2>2. \A t \in Tunnels : t \in Scope(r)' => t \in Scope(r)
    BY <1>11, LoadLeads DEF Moved, Ended, Over, Scope
  <2>3. QED BY <2>1, <2>2, HandsLetGo
<1>12. ASSUME NEW r \in Requests, Deploy(r) PROVE HandsApart'
  <2>1. OthersStay(r) /\ req[r].stage # "idle" /\ UNCHANGED <<mixed, raced, boot>>
    BY <1>12, DeployLeads DEF Moved, Ended, Over
  <2>2. \A t \in Tunnels : t \in Scope(r)' => t \in Scope(r)
    BY <1>12, DeployLeads DEF Moved, Ended, Over, Scope
  <2>3. QED BY <2>1, <2>2, HandsLetGo
<1>13. ASSUME NEW r \in Requests, DeployFails(r) PROVE HandsApart'
  <2>1. OthersStay(r) /\ req[r].stage # "idle" /\ UNCHANGED <<mixed, raced, boot>>
    BY <1>13, DeployFailsLeads DEF Moved, Ended, Over
  <2>2. \A t \in Tunnels : t \in Scope(r)' => t \in Scope(r)
    BY <1>13, DeployFailsLeads DEF Moved, Ended, Over, Scope
  <2>3. QED BY <2>1, <2>2, HandsLetGo
<1>14. ASSUME NEW r \in Requests, FailCreate(r) PROVE HandsApart'
  <2>1. OthersStay(r) /\ req[r].stage # "idle" /\ UNCHANGED <<mixed, raced, boot>>
    BY <1>14, FailCreateLeads DEF Moved, Ended, Over
  <2>2. \A t \in Tunnels : t \in Scope(r)' => t \in Scope(r)
    BY <1>14, FailCreateLeads DEF Moved, Ended, Over, Scope
  <2>3. QED BY <2>1, <2>2, HandsLetGo
<1>15. ASSUME NEW r \in Requests, Act(r) PROVE HandsApart'
  <2>1. OthersStay(r) /\ req[r].stage # "idle" /\ UNCHANGED <<mixed, raced, boot>>
    BY <1>15, ActLeads DEF Moved, Ended, Over
  <2>2. \A t \in Tunnels : t \in Scope(r)' => t \in Scope(r)
    BY <1>15, ActLeads DEF Moved, Ended, Over, Scope
  <2>3. QED BY <2>1, <2>2, HandsLetGo
<1>16. ASSUME NEW r \in Requests, ActFails(r) PROVE HandsApart'
  <2>1. OthersStay(r) /\ req[r].stage # "idle" /\ UNCHANGED <<mixed, raced, boot>>
    BY <1>16, ActFailsLeads DEF Moved, Ended, Over
  <2>2. \A t \in Tunnels : t \in Scope(r)' => t \in Scope(r)
    BY <1>16, ActFailsLeads DEF Moved, Ended, Over, Scope
  <2>3. QED BY <2>1, <2>2, HandsLetGo
<1>17. ASSUME NEW r \in Requests, Ask(r) PROVE HandsApart'
  <2>1. OthersStay(r) /\ req[r].stage # "idle" /\ UNCHANGED <<mixed, raced, boot>>
    BY <1>17, AskLeads DEF Moved, Ended, Over
  <2>2. \A t \in Tunnels : t \in Scope(r)' => t \in Scope(r)
    BY <1>17, AskLeads DEF Moved, Ended, Over, Scope
  <2>3. QED BY <2>1, <2>2, HandsLetGo
<1>18. ASSUME NEW r \in Requests, Write(r) PROVE HandsApart'
  <2>1. OthersStay(r) /\ req[r].stage # "idle" /\ UNCHANGED <<mixed, raced, boot>>
    BY <1>18, WriteLeads DEF Moved, Ended, Over
  <2>2. \A t \in Tunnels : t \in Scope(r)' => t \in Scope(r)
    BY <1>18, WriteLeads DEF Moved, Ended, Over, Scope
  <2>3. QED BY <2>1, <2>2, HandsLetGo
<1>19. ASSUME NEW r \in Requests, Remove(r) PROVE HandsApart'
  <2>1. OthersStay(r) /\ req[r].stage # "idle" /\ UNCHANGED <<mixed, raced, boot>>
    BY <1>19, RemoveLeads DEF Moved, Ended, Over
  <2>2. \A t \in Tunnels : t \in Scope(r)' => t \in Scope(r)
    BY <1>19, RemoveLeads DEF Moved, Ended, Over, Scope
  <2>3. QED BY <2>1, <2>2, HandsLetGo
<1>20. ASSUME NEW r \in Requests, RemoveFails(r) PROVE HandsApart'
  <2>1. OthersStay(r) /\ req[r].stage # "idle" /\ UNCHANGED <<mixed, raced, boot>>
    BY <1>20, RemoveFailsLeads DEF Moved, Ended, Over
  <2>2. \A t \in Tunnels : t \in Scope(r)' => t \in Scope(r)
    BY <1>20, RemoveFailsLeads DEF Moved, Ended, Over, Scope
  <2>3. QED BY <2>1, <2>2, HandsLetGo
<1>21. ASSUME NEW r \in Requests, Drop(r) PROVE HandsApart'
  <2>1. OthersStay(r) /\ req[r].stage # "idle" /\ UNCHANGED <<mixed, raced, boot>>
    BY <1>21, DropLeads DEF Moved, Ended, Over
  <2>2. \A t \in Tunnels : t \in Scope(r)' => t \in Scope(r)
    BY <1>21, DropLeads DEF Moved, Ended, Over, Scope
  <2>3. QED BY <2>1, <2>2, HandsLetGo
<1>22. ASSUME NEW t \in Tunnels, Die(t) PROVE HandsApart'
  BY <1>22 DEF Die, HandsApart, Scope, At
<1>23. ASSUME NEW t \in Tunnels, Rehydrate(t) PROVE HandsApart'
  BY <1>23 DEF Rehydrate, HandsApart, Scope, At
<1>24. ASSUME NEW t \in Tunnels, RehydrateFails(t) PROVE HandsApart'
  BY <1>24 DEF RehydrateFails, HandsApart, Scope, At
<1>25. ASSUME Crash PROVE HandsApart'
  BY <1>25 DEF Crash, HandsApart, Scope, At, Idle
<1>26. CASE UNCHANGED vars
  BY <1>26 DEF HandsApart, Scope, At
<1>27. QED BY <1>1, <1>2, <1>3, <1>4, <1>5, <1>6, <1>7, <1>8, <1>9, <1>10, <1>11, <1>12, <1>13, <1>14, <1>15, <1>16, <1>17, <1>18, <1>19, <1>20, <1>21, <1>22, <1>23, <1>24, <1>25, <1>26 DEF Next, Step

\* Every step keeps track of what runs.
LEMMA UpStep ==
  ASSUME TypeOK, InTheirWay, UpKnown, [Next]_vars
  PROVE  UpKnown'
<1> USE ApiAssumption DEF UpKnown, Opened, Track, RollBack, TearDown, engine, history, bounds, vars
<1>1. ASSUME NEW r \in Requests, NEW t \in Tunnels, Create(r, t)
      PROVE  UpKnown'
  BY <1>1, CreateLeads
<1>2. ASSUME NEW r \in Requests, NEW t \in Tunnels, Delete(r, t)
      PROVE  UpKnown'
  BY <1>2, DeleteLeads
<1>3. ASSUME NEW r \in Requests, NEW t \in Tunnels, NEW action \in Actions, Action(r, t, action)
      PROVE  UpKnown'
  BY <1>3, ActionLeads
<1>4. ASSUME NEW r \in Requests, NEW ts \in SUBSET Tunnels, NEW action \in Actions, Batch(r, ts, action)
      PROVE  UpKnown'
  BY <1>4, BatchLeads
<1>5. ASSUME NEW r \in Requests, Find(r) PROVE UpKnown'
  BY <1>5, FindLeads
<1>6. ASSUME NEW r \in Requests, List(r) PROVE UpKnown'
  BY <1>6, ListLeads
<1>7. ASSUME NEW r \in Requests, Turn(r) PROVE UpKnown'
  BY <1>7, TurnLeads
<1>8. ASSUME NEW r \in Requests, BatchEnds(r) PROVE UpKnown'
  BY <1>8, BatchEndsLeads
<1>9. ASSUME NEW r \in Requests, CheckPort(r) PROVE UpKnown'
  BY <1>9, CheckPortLeads
<1>10. ASSUME NEW r \in Requests, Insert(r) PROVE UpKnown'
  BY <1>10, InsertLeads
<1>11. ASSUME NEW r \in Requests, Load(r) PROVE UpKnown'
  BY <1>11, LoadLeads
<1>12. ASSUME NEW r \in Requests, Deploy(r) PROVE UpKnown'
  BY <1>12, DeployLeads
<1>13. ASSUME NEW r \in Requests, DeployFails(r) PROVE UpKnown'
  BY <1>13, DeployFailsLeads
<1>14. ASSUME NEW r \in Requests, FailCreate(r) PROVE UpKnown'
  BY <1>14, FailCreateLeads
<1>15. ASSUME NEW r \in Requests, Act(r) PROVE UpKnown'
  BY <1>15, ActLeads
<1>16. ASSUME NEW r \in Requests, ActFails(r) PROVE UpKnown'
  BY <1>16, ActFailsLeads
<1>17. ASSUME NEW r \in Requests, Ask(r) PROVE UpKnown'
  BY <1>17, AskLeads
<1>18. ASSUME NEW r \in Requests, Write(r) PROVE UpKnown'
  BY <1>18, WriteLeads
<1>19. ASSUME NEW r \in Requests, Remove(r) PROVE UpKnown'
  BY <1>19, RemoveLeads
<1>20. ASSUME NEW r \in Requests, RemoveFails(r) PROVE UpKnown'
  BY <1>20, RemoveFailsLeads
<1>21. ASSUME NEW r \in Requests, Drop(r) PROVE UpKnown'
  BY <1>21, DropLeads
<1>22. ASSUME NEW t \in Tunnels, Die(t) PROVE UpKnown'
  BY <1>22 DEF Die
<1>23. ASSUME NEW t \in Tunnels, Rehydrate(t) PROVE UpKnown'
  BY <1>23 DEF Rehydrate, Track
<1>24. ASSUME NEW t \in Tunnels, RehydrateFails(t) PROVE UpKnown'
  BY <1>24 DEF RehydrateFails, RollBack
<1>25. ASSUME Crash PROVE UpKnown'
  BY <1>25 DEF Crash
<1>26. CASE UNCHANGED vars
  BY <1>26
<1>27. QED BY <1>1, <1>2, <1>3, <1>4, <1>5, <1>6, <1>7, <1>8, <1>9, <1>10, <1>11, <1>12, <1>13, <1>14, <1>15, <1>16, <1>17, <1>18, <1>19, <1>20, <1>21, <1>22, <1>23, <1>24, <1>25, <1>26 DEF Next, Step

\* Of two requests at work, neither touches an unmixed tunnel of the other.
LEMMA Apart ==
  ASSUME HandsApart
  PROVE  \A q, r \in Requests : q # r /\ req[q].stage # "idle" /\ req[r].stage # "idle" =>
            \A u \in Tunnels \ mixed : u = req[q].t \/ u \in req[q].todo =>
                u # req[r].t /\ u \notin req[r].todo
  BY DEF HandsApart, Scope, At

\* Every step keeps what requests know of the engine true.
LEMMA KnowsTrackedStep ==
  ASSUME TypeOK, InTheirWay, HandsApart, KnowsTracked, [Next]_vars
  PROVE  KnowsTracked'
<1>0. \A q \in Requests : TrackedAsKnown(q) /\ InWay(req[q])
  BY DEF KnowsTracked, InTheirWay
<1> USE <1>0, ApiAssumption, Apart, FieldsTyped DEF engine, history, bounds, vars
<1>1. ASSUME NEW r \in Requests, NEW t \in Tunnels, Create(r, t)
      PROVE  KnowsTracked'
  <2>1. Opened(r, "create", "start", "checking", t, FALSE, {t})
    BY <1>1, CreateLeads
  <2>2. \A q \in Requests \ {r} : TrackedAsKnown(q)'
    BY <2>1 DEF Opened, OthersStay, TrackedAsKnown, Track, RollBack, TearDown, InWay, engine, history, bounds, vars
  <2>3. TrackedAsKnown(r)'
    BY <2>1 DEF Opened, TrackedAsKnown, Track, RollBack, TearDown, InWay
  <2>4. QED BY <2>2, <2>3 DEF KnowsTracked
<1>2. ASSUME NEW r \in Requests, NEW t \in Tunnels, Delete(r, t)
      PROVE  KnowsTracked'
  <2>1. Opened(r, "delete", "stop", "finding", t, FALSE, {t})
    BY <1>2, DeleteLeads
  <2>2. \A q \in Requests \ {r} : TrackedAsKnown(q)'
    BY <2>1 DEF Opened, OthersStay, TrackedAsKnown, Track, RollBack, TearDown, InWay, engine, history, bounds, vars
  <2>3. TrackedAsKnown(r)'
    BY <2>1 DEF Opened, TrackedAsKnown, Track, RollBack, TearDown, InWay
  <2>4. QED BY <2>2, <2>3 DEF KnowsTracked
<1>3. ASSUME NEW r \in Requests, NEW t \in Tunnels, NEW action \in Actions, Action(r, t, action)
      PROVE  KnowsTracked'
  <2>1. Opened(r, "action", action, "finding", t, t \in tracked, {t})
    BY <1>3, ActionLeads
  <2>2. \A q \in Requests \ {r} : TrackedAsKnown(q)'
    BY <2>1 DEF Opened, OthersStay, TrackedAsKnown, Track, RollBack, TearDown, InWay, engine, history, bounds, vars
  <2>3. TrackedAsKnown(r)'
    BY <2>1 DEF Opened, TrackedAsKnown, Track, RollBack, TearDown, InWay
  <2>4. QED BY <2>2, <2>3 DEF KnowsTracked
<1>4. ASSUME NEW r \in Requests, NEW ts \in SUBSET Tunnels, NEW action \in Actions, Batch(r, ts, action)
      PROVE  KnowsTracked'
  <2>1. Opened(r, "batch", action, "listing", NoTunnel, FALSE, ts)
    BY <1>4, BatchLeads
  <2>2. \A q \in Requests \ {r} : TrackedAsKnown(q)'
    BY <2>1 DEF Opened, OthersStay, TrackedAsKnown, Track, RollBack, TearDown, InWay, engine, history, bounds, vars
  <2>3. TrackedAsKnown(r)'
    BY <2>1 DEF Opened, TrackedAsKnown, Track, RollBack, TearDown, InWay
  <2>4. QED BY <2>2, <2>3 DEF KnowsTracked
<1>5. ASSUME NEW r \in Requests, Find(r) PROVE KnowsTracked'
  <2>1. \A q \in Requests \ {r} : TrackedAsKnown(q)'
    BY <1>5, FindLeads DEF Moved, Over, OthersStay, TrackedAsKnown, Track, RollBack, TearDown, InWay
  <2>2. UNCHANGED <<row, engine, history>> /\ req[r].stage = "finding"
    BY <1>5, FindLeads
  <2>3. ASSUME Over(r)
        PROVE  TrackedAsKnown(r)'
    BY <2>2, <2>3 DEF Over, TrackedAsKnown, Track, RollBack, TearDown, InWay
  <2>4. ASSUME Moved(r, "removing") \/ (Moved(r, "checking") /\ req[r].kind = "action" /\ row[req[r].t] # NoRow)
        PROVE  TrackedAsKnown(r)'
    BY <2>2, <2>4 DEF Moved, TrackedAsKnown, Track, RollBack, TearDown, InWay
  <2>5. ASSUME Moved(r, "dropping") /\ req[r].t \notin tracked
        PROVE  TrackedAsKnown(r)'
    BY <2>2, <2>5 DEF Moved, TrackedAsKnown, Track, RollBack, TearDown, InWay
  <2>6. ASSUME Moved(r, "acting") /\ req[r].kind = "action" /\ req[r].has /\ row[req[r].t] # NoRow
        PROVE  TrackedAsKnown(r)'
    BY <2>2, <2>6 DEF Moved, TrackedAsKnown, Track, RollBack, TearDown, InWay
  <2>7. ASSUME Moved(r, "writing") /\ req[r].kind = "action" /\ req[r].action = "stop" /\ ~req[r].has
               /\ row[req[r].t] # NoRow
        PROVE  TrackedAsKnown(r)'
    BY <2>2, <2>7 DEF Moved, TrackedAsKnown, Track, RollBack, TearDown, InWay
  <2>8. \/ Over(r) \/ Moved(r, "removing") \/ (Moved(r, "dropping") /\ req[r].t \notin tracked)
        \/ /\ row[req[r].t] # NoRow /\ req[r].kind = "action"
           /\ \/ Moved(r, "checking") \/ (Moved(r, "acting") /\ req[r].has)
              \/ (Moved(r, "writing") /\ req[r].action = "stop" /\ ~req[r].has)
    BY <1>5, FindLeads
  <2>9. TrackedAsKnown(r)'
    BY <2>3, <2>4, <2>5, <2>6, <2>7, <2>8
  <2>10. QED BY <2>1, <2>9 DEF KnowsTracked
<1>6. ASSUME NEW r \in Requests, List(r) PROVE KnowsTracked'
  <2>1. \A q \in Requests \ {r} : TrackedAsKnown(q)'
    BY <1>6, ListLeads DEF Moved, Ended, Over, OthersStay, TrackedAsKnown, Track, RollBack, TearDown, InWay
  <2>2. TrackedAsKnown(r)'
    BY <1>6, ListLeads DEF Moved, Ended, Over, OthersStay, TrackedAsKnown, Track, RollBack, TearDown, InWay
  <2>3. QED BY <2>1, <2>2 DEF KnowsTracked
<1>7. ASSUME NEW r \in Requests, Turn(r) PROVE KnowsTracked'
  <2>1. \A q \in Requests \ {r} : TrackedAsKnown(q)'
    BY <1>7, TurnLeads DEF Moved, Ended, Over, OthersStay, TrackedAsKnown, Track, RollBack, TearDown, InWay
  <2>2. /\ req[r].kind = "batch" /\ req'[r].kind = "batch" /\ req'[r].action = req[r].action
        /\ req'[r].has <=> req'[r].t \in tracked'
        /\ req'[r].stage = IF req[r].action # "stop" THEN "checking"
                           ELSE IF req'[r].t \in tracked' THEN "acting" ELSE "writing"
    <3>1. req'[r].has = (req'[r].t \in tracked) /\ tracked' = tracked
      BY <1>7, TurnLeads
    <3>2. req[r].kind = "batch" /\ req'[r].kind = "batch"
      BY <1>7, TurnLeads DEF InWay
    <3>3. /\ req'[r].action = req[r].action
          /\ req'[r].stage = IF req[r].action # "stop" THEN "checking"
                             ELSE IF req'[r].t \in tracked THEN "acting" ELSE "writing"
      BY <1>7, TurnLeads
    <3>4. QED BY <3>1, <3>2, <3>3
  <2>3. TrackedAsKnown(r)'
    BY <2>2 DEF TrackedAsKnown
  <2>4. QED BY <2>1, <2>3 DEF KnowsTracked
<1>8. ASSUME NEW r \in Requests, BatchEnds(r) PROVE KnowsTracked'
  <2>1. \A q \in Requests \ {r} : TrackedAsKnown(q)'
    BY <1>8, BatchEndsLeads DEF Moved, Ended, Over, OthersStay, TrackedAsKnown, Track, RollBack, TearDown, InWay
  <2>2. TrackedAsKnown(r)'
    BY <1>8, BatchEndsLeads DEF Moved, Ended, Over, OthersStay, TrackedAsKnown, Track, RollBack, TearDown, InWay
  <2>3. QED BY <2>1, <2>2 DEF KnowsTracked
<1>9. ASSUME NEW r \in Requests, CheckPort(r) PROVE KnowsTracked'
  <2>1. \A q \in Requests \ {r} : TrackedAsKnown(q)'
    BY <1>9, CheckPortLeads DEF Moved, Ended, Over, OthersStay, TrackedAsKnown, Track, RollBack, TearDown, InWay
  <2>2. TrackedAsKnown(r)'
    BY <1>9, CheckPortLeads DEF Moved, Ended, Over, OthersStay, TrackedAsKnown, Track, RollBack, TearDown, InWay
  <2>3. QED BY <2>1, <2>2 DEF KnowsTracked
<1>10. ASSUME NEW r \in Requests, Insert(r) PROVE KnowsTracked'
  <2>1. \A q \in Requests \ {r} : TrackedAsKnown(q)'
    BY <1>10, InsertLeads DEF Moved, Ended, Over, OthersStay, TrackedAsKnown, Track, RollBack, TearDown, InWay
  <2>2. TrackedAsKnown(r)'
    BY <1>10, InsertLeads DEF Moved, Ended, Over, OthersStay, TrackedAsKnown, Track, RollBack, TearDown, InWay
  <2>3. QED BY <2>1, <2>2 DEF KnowsTracked
<1>11. ASSUME NEW r \in Requests, Load(r) PROVE KnowsTracked'
  <2>1. \A q \in Requests \ {r} : TrackedAsKnown(q)'
    BY <1>11, LoadLeads DEF Moved, Ended, Over, OthersStay, TrackedAsKnown, Track, RollBack, TearDown, InWay
  <2>2. TrackedAsKnown(r)'
    BY <1>11, LoadLeads DEF Moved, Ended, Over, OthersStay, TrackedAsKnown, Track, RollBack, TearDown, InWay
  <2>3. QED BY <2>1, <2>2 DEF KnowsTracked
<1>12. ASSUME NEW r \in Requests, Deploy(r) PROVE KnowsTracked'
  <2>1. \A q \in Requests \ {r} : TrackedAsKnown(q)'
    BY <1>12, DeployLeads DEF Moved, Ended, Over, OthersStay, TrackedAsKnown, Track, RollBack, TearDown, InWay
  <2>2. TrackedAsKnown(r)'
    BY <1>12, DeployLeads DEF Moved, Ended, Over, OthersStay, TrackedAsKnown, Track, RollBack, TearDown, InWay
  <2>3. QED BY <2>1, <2>2 DEF KnowsTracked
<1>13. ASSUME NEW r \in Requests, DeployFails(r) PROVE KnowsTracked'
  <2>1. \A q \in Requests \ {r} : TrackedAsKnown(q)'
    BY <1>13, DeployFailsLeads DEF Moved, Ended, Over, OthersStay, TrackedAsKnown, Track, RollBack, TearDown, InWay
  <2>2. TrackedAsKnown(r)'
    BY <1>13, DeployFailsLeads DEF Moved, Ended, Over, OthersStay, TrackedAsKnown, Track, RollBack, TearDown, InWay
  <2>3. QED BY <2>1, <2>2 DEF KnowsTracked
<1>14. ASSUME NEW r \in Requests, FailCreate(r) PROVE KnowsTracked'
  <2>1. \A q \in Requests \ {r} : TrackedAsKnown(q)'
    BY <1>14, FailCreateLeads DEF Moved, Ended, Over, OthersStay, TrackedAsKnown, Track, RollBack, TearDown, InWay
  <2>2. TrackedAsKnown(r)'
    BY <1>14, FailCreateLeads DEF Moved, Ended, Over, OthersStay, TrackedAsKnown, Track, RollBack, TearDown, InWay
  <2>3. QED BY <2>1, <2>2 DEF KnowsTracked
<1>15. ASSUME NEW r \in Requests, Act(r) PROVE KnowsTracked'
  <2>1. \A q \in Requests \ {r} : TrackedAsKnown(q)'
    BY <1>15, ActLeads DEF Moved, Ended, Over, OthersStay, TrackedAsKnown, Track, RollBack, TearDown, InWay
  <2>2. TrackedAsKnown(r)'
    BY <1>15, ActLeads DEF Moved, Ended, Over, OthersStay, TrackedAsKnown, Track, RollBack, TearDown, InWay
  <2>3. QED BY <2>1, <2>2 DEF KnowsTracked
<1>16. ASSUME NEW r \in Requests, ActFails(r) PROVE KnowsTracked'
  <2>1. \A q \in Requests \ {r} : TrackedAsKnown(q)'
    BY <1>16, ActFailsLeads DEF Moved, Ended, Over, OthersStay, TrackedAsKnown, Track, RollBack, TearDown, InWay
  <2>2. TrackedAsKnown(r)'
    BY <1>16, ActFailsLeads DEF Moved, Ended, Over, OthersStay, TrackedAsKnown, Track, RollBack, TearDown, InWay
  <2>3. QED BY <2>1, <2>2 DEF KnowsTracked
<1>17. ASSUME NEW r \in Requests, Ask(r) PROVE KnowsTracked'
  <2>1. \A q \in Requests \ {r} : TrackedAsKnown(q)'
    BY <1>17, AskLeads DEF Moved, Ended, Over, OthersStay, TrackedAsKnown, Track, RollBack, TearDown, InWay
  <2>2. TrackedAsKnown(r)'
    BY <1>17, AskLeads DEF Moved, Ended, Over, OthersStay, TrackedAsKnown, Track, RollBack, TearDown, InWay
  <2>3. QED BY <2>1, <2>2 DEF KnowsTracked
<1>18. ASSUME NEW r \in Requests, Write(r) PROVE KnowsTracked'
  <2>1. \A q \in Requests \ {r} : TrackedAsKnown(q)'
    BY <1>18, WriteLeads DEF Moved, Ended, Over, OthersStay, TrackedAsKnown, Track, RollBack, TearDown, InWay
  <2>2. TrackedAsKnown(r)'
    BY <1>18, WriteLeads DEF Moved, Ended, Over, OthersStay, TrackedAsKnown, Track, RollBack, TearDown, InWay
  <2>3. QED BY <2>1, <2>2 DEF KnowsTracked
<1>19. ASSUME NEW r \in Requests, Remove(r) PROVE KnowsTracked'
  <2>1. \A q \in Requests \ {r} : TrackedAsKnown(q)'
    BY <1>19, RemoveLeads DEF Moved, Ended, Over, OthersStay, TrackedAsKnown, Track, RollBack, TearDown, InWay
  <2>2. TrackedAsKnown(r)'
    BY <1>19, RemoveLeads DEF Moved, Ended, Over, OthersStay, TrackedAsKnown, Track, RollBack, TearDown, InWay
  <2>3. QED BY <2>1, <2>2 DEF KnowsTracked
<1>20. ASSUME NEW r \in Requests, RemoveFails(r) PROVE KnowsTracked'
  <2>1. \A q \in Requests \ {r} : TrackedAsKnown(q)'
    BY <1>20, RemoveFailsLeads DEF Moved, Ended, Over, OthersStay, TrackedAsKnown, Track, RollBack, TearDown, InWay
  <2>2. TrackedAsKnown(r)'
    BY <1>20, RemoveFailsLeads DEF Moved, Ended, Over, OthersStay, TrackedAsKnown, Track, RollBack, TearDown, InWay
  <2>3. QED BY <2>1, <2>2 DEF KnowsTracked
<1>21. ASSUME NEW r \in Requests, Drop(r) PROVE KnowsTracked'
  <2>1. \A q \in Requests \ {r} : TrackedAsKnown(q)'
    BY <1>21, DropLeads DEF Moved, Ended, Over, OthersStay, TrackedAsKnown, Track, RollBack, TearDown, InWay
  <2>2. TrackedAsKnown(r)'
    BY <1>21, DropLeads DEF Moved, Ended, Over, OthersStay, TrackedAsKnown, Track, RollBack, TearDown, InWay
  <2>3. QED BY <2>1, <2>2 DEF KnowsTracked
<1>22. ASSUME NEW t \in Tunnels, Die(t) PROVE KnowsTracked'
  BY <1>22 DEF Die, HandsApart, At, KnowsTracked, TrackedAsKnown, Track, RollBack, TearDown, InWay
<1>23. ASSUME NEW t \in Tunnels, Rehydrate(t) PROVE KnowsTracked'
  BY <1>23 DEF Rehydrate, HandsApart, At, KnowsTracked, TrackedAsKnown, Track, RollBack, TearDown, InWay
<1>24. ASSUME NEW t \in Tunnels, RehydrateFails(t) PROVE KnowsTracked'
  BY <1>24 DEF RehydrateFails, HandsApart, At, KnowsTracked, TrackedAsKnown, Track, RollBack, InWay
<1>25. ASSUME Crash PROVE KnowsTracked'
  BY <1>25 DEF Crash, Idle, KnowsTracked, TrackedAsKnown, Track, RollBack, TearDown, InWay
<1>26. CASE UNCHANGED vars
  BY <1>26 DEF KnowsTracked, TrackedAsKnown, Track, RollBack, TearDown, InWay
<1>27. QED BY <1>1, <1>2, <1>3, <1>4, <1>5, <1>6, <1>7, <1>8, <1>9, <1>10, <1>11, <1>12, <1>13, <1>14, <1>15, <1>16, <1>17, <1>18, <1>19, <1>20, <1>21, <1>22, <1>23, <1>24, <1>25, <1>26 DEF Next, Step

\* Every step keeps what requests know of the rows true.
LEMMA KnowsRowStep ==
  ASSUME TypeOK, InTheirWay, HandsApart, KnowsRow, [Next]_vars
  PROVE  KnowsRow'
<1>0. \A q \in Requests : RowAsKnown(q) /\ InWay(req[q])
  BY DEF KnowsRow, InTheirWay
<1> USE <1>0, ApiAssumption, Apart, FieldsTyped DEF engine, history, bounds, vars
<1>1. ASSUME NEW r \in Requests, NEW t \in Tunnels, Create(r, t)
      PROVE  KnowsRow'
  <2>1. Opened(r, "create", "start", "checking", t, FALSE, {t})
    BY <1>1, CreateLeads
  <2>2. \A q \in Requests \ {r} : RowAsKnown(q)'
    BY <2>1 DEF Opened, OthersStay, RowAsKnown, RowBecomes, Status, State, Desired, InWay, engine, history, bounds, vars
  <2>3. RowAsKnown(r)'
    BY <2>1 DEF Opened, RowAsKnown, RowBecomes, Status, State, Desired, InWay
  <2>4. QED BY <2>2, <2>3 DEF KnowsRow
<1>2. ASSUME NEW r \in Requests, NEW t \in Tunnels, Delete(r, t)
      PROVE  KnowsRow'
  <2>1. Opened(r, "delete", "stop", "finding", t, FALSE, {t})
    BY <1>2, DeleteLeads
  <2>2. \A q \in Requests \ {r} : RowAsKnown(q)'
    BY <2>1 DEF Opened, OthersStay, RowAsKnown, RowBecomes, Status, State, Desired, InWay, engine, history, bounds, vars
  <2>3. RowAsKnown(r)'
    BY <2>1 DEF Opened, RowAsKnown, RowBecomes, Status, State, Desired, InWay
  <2>4. QED BY <2>2, <2>3 DEF KnowsRow
<1>3. ASSUME NEW r \in Requests, NEW t \in Tunnels, NEW action \in Actions, Action(r, t, action)
      PROVE  KnowsRow'
  <2>1. Opened(r, "action", action, "finding", t, t \in tracked, {t})
    BY <1>3, ActionLeads
  <2>2. \A q \in Requests \ {r} : RowAsKnown(q)'
    BY <2>1 DEF Opened, OthersStay, RowAsKnown, RowBecomes, Status, State, Desired, InWay, engine, history, bounds, vars
  <2>3. RowAsKnown(r)'
    BY <2>1 DEF Opened, RowAsKnown, RowBecomes, Status, State, Desired, InWay
  <2>4. QED BY <2>2, <2>3 DEF KnowsRow
<1>4. ASSUME NEW r \in Requests, NEW ts \in SUBSET Tunnels, NEW action \in Actions, Batch(r, ts, action)
      PROVE  KnowsRow'
  <2>1. Opened(r, "batch", action, "listing", NoTunnel, FALSE, ts)
    BY <1>4, BatchLeads
  <2>2. \A q \in Requests \ {r} : RowAsKnown(q)'
    BY <2>1 DEF Opened, OthersStay, RowAsKnown, RowBecomes, Status, State, Desired, InWay, engine, history, bounds, vars
  <2>3. RowAsKnown(r)'
    BY <2>1 DEF Opened, RowAsKnown, RowBecomes, Status, State, Desired, InWay
  <2>4. QED BY <2>2, <2>3 DEF KnowsRow
<1>5. ASSUME NEW r \in Requests, Find(r) PROVE KnowsRow'
  <2>1. \A q \in Requests \ {r} : RowAsKnown(q)'
    BY <1>5, FindLeads DEF Moved, Over, OthersStay, RowAsKnown, RowBecomes, Status, State, Desired, InWay
  <2>2. UNCHANGED <<row, engine, history>> /\ req[r].stage = "finding"
    BY <1>5, FindLeads
  <2>3. ASSUME Over(r)
        PROVE  RowAsKnown(r)'
    BY <2>2, <2>3 DEF Over, RowAsKnown, RowBecomes, Status, State, Desired, InWay
  <2>4. ASSUME Moved(r, "removing") \/ (Moved(r, "checking") /\ req[r].kind = "action" /\ row[req[r].t] # NoRow)
        PROVE  RowAsKnown(r)'
    BY <2>2, <2>4 DEF Moved, RowAsKnown, RowBecomes, Status, State, Desired, InWay
  <2>5. ASSUME Moved(r, "dropping") /\ req[r].t \notin tracked
        PROVE  RowAsKnown(r)'
    BY <2>2, <2>5 DEF Moved, RowAsKnown, RowBecomes, Status, State, Desired, InWay
  <2>6. ASSUME Moved(r, "acting") /\ req[r].kind = "action" /\ req[r].has /\ row[req[r].t] # NoRow
        PROVE  RowAsKnown(r)'
    BY <2>2, <2>6 DEF Moved, RowAsKnown, RowBecomes, Status, State, Desired, InWay
  <2>7. ASSUME Moved(r, "writing") /\ req[r].kind = "action" /\ req[r].action = "stop" /\ ~req[r].has
               /\ row[req[r].t] # NoRow
        PROVE  RowAsKnown(r)'
    BY <2>2, <2>7 DEF Moved, RowAsKnown, RowBecomes, Status, State, Desired, InWay
  <2>8. \/ Over(r) \/ Moved(r, "removing") \/ (Moved(r, "dropping") /\ req[r].t \notin tracked)
        \/ /\ row[req[r].t] # NoRow /\ req[r].kind = "action"
           /\ \/ Moved(r, "checking") \/ (Moved(r, "acting") /\ req[r].has)
              \/ (Moved(r, "writing") /\ req[r].action = "stop" /\ ~req[r].has)
    BY <1>5, FindLeads
  <2>9. RowAsKnown(r)'
    BY <2>3, <2>4, <2>5, <2>6, <2>7, <2>8
  <2>10. QED BY <2>1, <2>9 DEF KnowsRow
<1>6. ASSUME NEW r \in Requests, List(r) PROVE KnowsRow'
  <2>1. \A q \in Requests \ {r} : RowAsKnown(q)'
    BY <1>6, ListLeads DEF Moved, Ended, Over, OthersStay, RowAsKnown, RowBecomes, Status, State, Desired, InWay
  <2>2. RowAsKnown(r)'
    BY <1>6, ListLeads DEF Moved, Ended, Over, OthersStay, RowAsKnown, RowBecomes, Status, State, Desired, InWay
  <2>3. QED BY <2>1, <2>2 DEF KnowsRow
<1>7. ASSUME NEW r \in Requests, Turn(r) PROVE KnowsRow'
  <2>1. \A q \in Requests \ {r} : RowAsKnown(q)'
    BY <1>7, TurnLeads DEF Moved, Ended, Over, OthersStay, RowAsKnown, RowBecomes, Status, State, Desired, InWay
  <2>2. RowAsKnown(r)'
    BY <1>7, TurnLeads DEF Moved, Ended, Over, OthersStay, RowAsKnown, RowBecomes, Status, State, Desired, InWay
  <2>3. QED BY <2>1, <2>2 DEF KnowsRow
<1>8. ASSUME NEW r \in Requests, BatchEnds(r) PROVE KnowsRow'
  <2>1. \A q \in Requests \ {r} : RowAsKnown(q)'
    BY <1>8, BatchEndsLeads DEF Moved, Ended, Over, OthersStay, RowAsKnown, RowBecomes, Status, State, Desired, InWay
  <2>2. RowAsKnown(r)'
    BY <1>8, BatchEndsLeads DEF Moved, Ended, Over, OthersStay, RowAsKnown, RowBecomes, Status, State, Desired, InWay
  <2>3. QED BY <2>1, <2>2 DEF KnowsRow
<1>9. ASSUME NEW r \in Requests, CheckPort(r) PROVE KnowsRow'
  <2>1. \A q \in Requests \ {r} : RowAsKnown(q)'
    BY <1>9, CheckPortLeads DEF Moved, Ended, Over, OthersStay, RowAsKnown, RowBecomes, Status, State, Desired, InWay
  <2>2. RowAsKnown(r)'
    BY <1>9, CheckPortLeads DEF Moved, Ended, Over, OthersStay, RowAsKnown, RowBecomes, Status, State, Desired, InWay
  <2>3. QED BY <2>1, <2>2 DEF KnowsRow
<1>10. ASSUME NEW r \in Requests, Insert(r) PROVE KnowsRow'
  <2>1. \A q \in Requests \ {r} : RowAsKnown(q)'
    BY <1>10, InsertLeads DEF Moved, Ended, Over, OthersStay, RowAsKnown, RowBecomes, Status, State, Desired, InWay
  <2>2. RowAsKnown(r)'
    BY <1>10, InsertLeads DEF Moved, Ended, Over, OthersStay, RowAsKnown, RowBecomes, Status, State, Desired, InWay
  <2>3. QED BY <2>1, <2>2 DEF KnowsRow
<1>11. ASSUME NEW r \in Requests, Load(r) PROVE KnowsRow'
  <2>1. \A q \in Requests \ {r} : RowAsKnown(q)'
    BY <1>11, LoadLeads DEF Moved, Ended, Over, OthersStay, RowAsKnown, RowBecomes, Status, State, Desired, InWay
  <2>2. RowAsKnown(r)'
    BY <1>11, LoadLeads DEF Moved, Ended, Over, OthersStay, RowAsKnown, RowBecomes, Status, State, Desired, InWay
  <2>3. QED BY <2>1, <2>2 DEF KnowsRow
<1>12. ASSUME NEW r \in Requests, Deploy(r) PROVE KnowsRow'
  <2>1. \A q \in Requests \ {r} : RowAsKnown(q)'
    BY <1>12, DeployLeads DEF Moved, Ended, Over, OthersStay, RowAsKnown, RowBecomes, Status, State, Desired, InWay
  <2>2. RowAsKnown(r)'
    BY <1>12, DeployLeads DEF Moved, Ended, Over, OthersStay, RowAsKnown, RowBecomes, Status, State, Desired, InWay
  <2>3. QED BY <2>1, <2>2 DEF KnowsRow
<1>13. ASSUME NEW r \in Requests, DeployFails(r) PROVE KnowsRow'
  <2>1. \A q \in Requests \ {r} : RowAsKnown(q)'
    BY <1>13, DeployFailsLeads DEF Moved, Ended, Over, OthersStay, RowAsKnown, RowBecomes, Status, State, Desired, InWay
  <2>2. RowAsKnown(r)'
    BY <1>13, DeployFailsLeads DEF Moved, Ended, Over, OthersStay, RowAsKnown, RowBecomes, Status, State, Desired, InWay
  <2>3. QED BY <2>1, <2>2 DEF KnowsRow
<1>14. ASSUME NEW r \in Requests, FailCreate(r) PROVE KnowsRow'
  <2>1. \A q \in Requests \ {r} : RowAsKnown(q)'
    BY <1>14, FailCreateLeads DEF Moved, Ended, Over, OthersStay, RowAsKnown, RowBecomes, Status, State, Desired, InWay
  <2>2. RowAsKnown(r)'
    BY <1>14, FailCreateLeads DEF Moved, Ended, Over, OthersStay, RowAsKnown, RowBecomes, Status, State, Desired, InWay
  <2>3. QED BY <2>1, <2>2 DEF KnowsRow
<1>15. ASSUME NEW r \in Requests, Act(r) PROVE KnowsRow'
  <2>1. \A q \in Requests \ {r} : RowAsKnown(q)'
    BY <1>15, ActLeads DEF Moved, Ended, Over, OthersStay, RowAsKnown, RowBecomes, Status, State, Desired, InWay
  <2>2. RowAsKnown(r)'
    BY <1>15, ActLeads DEF Moved, Ended, Over, OthersStay, RowAsKnown, RowBecomes, Status, State, Desired, InWay
  <2>3. QED BY <2>1, <2>2 DEF KnowsRow
<1>16. ASSUME NEW r \in Requests, ActFails(r) PROVE KnowsRow'
  <2>1. \A q \in Requests \ {r} : RowAsKnown(q)'
    BY <1>16, ActFailsLeads DEF Moved, Ended, Over, OthersStay, RowAsKnown, RowBecomes, Status, State, Desired, InWay
  <2>2. RowAsKnown(r)'
    BY <1>16, ActFailsLeads DEF Moved, Ended, Over, OthersStay, RowAsKnown, RowBecomes, Status, State, Desired, InWay
  <2>3. QED BY <2>1, <2>2 DEF KnowsRow
<1>17. ASSUME NEW r \in Requests, Ask(r) PROVE KnowsRow'
  <2>1. \A q \in Requests \ {r} : RowAsKnown(q)'
    BY <1>17, AskLeads DEF Moved, Ended, Over, OthersStay, RowAsKnown, RowBecomes, Status, State, Desired, InWay
  <2>2. RowAsKnown(r)'
    BY <1>17, AskLeads DEF Moved, Ended, Over, OthersStay, RowAsKnown, RowBecomes, Status, State, Desired, InWay
  <2>3. QED BY <2>1, <2>2 DEF KnowsRow
<1>18. ASSUME NEW r \in Requests, Write(r) PROVE KnowsRow'
  <2>1. \A q \in Requests \ {r} : RowAsKnown(q)'
    BY <1>18, WriteLeads DEF Moved, Ended, Over, OthersStay, RowAsKnown, RowBecomes, Status, State, Desired, InWay
  <2>2. RowAsKnown(r)'
    BY <1>18, WriteLeads DEF Moved, Ended, Over, OthersStay, RowAsKnown, RowBecomes, Status, State, Desired, InWay
  <2>3. QED BY <2>1, <2>2 DEF KnowsRow
<1>19. ASSUME NEW r \in Requests, Remove(r) PROVE KnowsRow'
  <2>1. \A q \in Requests \ {r} : RowAsKnown(q)'
    BY <1>19, RemoveLeads DEF Moved, Ended, Over, OthersStay, RowAsKnown, RowBecomes, Status, State, Desired, InWay
  <2>2. RowAsKnown(r)'
    BY <1>19, RemoveLeads DEF Moved, Ended, Over, OthersStay, RowAsKnown, RowBecomes, Status, State, Desired, InWay
  <2>3. QED BY <2>1, <2>2 DEF KnowsRow
<1>20. ASSUME NEW r \in Requests, RemoveFails(r) PROVE KnowsRow'
  <2>1. \A q \in Requests \ {r} : RowAsKnown(q)'
    BY <1>20, RemoveFailsLeads DEF Moved, Ended, Over, OthersStay, RowAsKnown, RowBecomes, Status, State, Desired, InWay
  <2>2. RowAsKnown(r)'
    BY <1>20, RemoveFailsLeads DEF Moved, Ended, Over, OthersStay, RowAsKnown, RowBecomes, Status, State, Desired, InWay
  <2>3. QED BY <2>1, <2>2 DEF KnowsRow
<1>21. ASSUME NEW r \in Requests, Drop(r) PROVE KnowsRow'
  <2>1. \A q \in Requests \ {r} : RowAsKnown(q)'
    BY <1>21, DropLeads DEF Moved, Ended, Over, OthersStay, RowAsKnown, RowBecomes, Status, State, Desired, InWay
  <2>2. RowAsKnown(r)'
    BY <1>21, DropLeads DEF Moved, Ended, Over, OthersStay, RowAsKnown, RowBecomes, Status, State, Desired, InWay
  <2>3. QED BY <2>1, <2>2 DEF KnowsRow
<1>22. ASSUME NEW t \in Tunnels, Die(t) PROVE KnowsRow'
  BY <1>22 DEF Die, HandsApart, At, KnowsRow, RowAsKnown, RowBecomes, Status, State, Desired, InWay
<1>23. ASSUME NEW t \in Tunnels, Rehydrate(t) PROVE KnowsRow'
  BY <1>23 DEF Rehydrate, HandsApart, At, KnowsRow, RowAsKnown, RowBecomes, Status, State, Desired, InWay
<1>24. ASSUME NEW t \in Tunnels, RehydrateFails(t) PROVE KnowsRow'
  BY <1>24 DEF RehydrateFails, HandsApart, At, KnowsRow, RowAsKnown, RowBecomes, Status, State, Desired, InWay
<1>25. ASSUME Crash PROVE KnowsRow'
  BY <1>25 DEF Crash, Idle, KnowsRow, RowAsKnown, RowBecomes, Status, State, Desired, InWay
<1>26. CASE UNCHANGED vars
  BY <1>26 DEF KnowsRow, RowAsKnown, RowBecomes, Status, State, Desired, InWay
<1>27. QED BY <1>1, <1>2, <1>3, <1>4, <1>5, <1>6, <1>7, <1>8, <1>9, <1>10, <1>11, <1>12, <1>13, <1>14, <1>15, <1>16, <1>17, <1>18, <1>19, <1>20, <1>21, <1>22, <1>23, <1>24, <1>25, <1>26 DEF Next, Step

\* Every step keeps what stops have achieved.
LEMMA KnowsStoppedStep ==
  ASSUME TypeOK, InTheirWay, HandsApart, UpKnown, KnowsTracked, KnowsStopped, [Next]_vars
  PROVE  KnowsStopped'
<1>0. \A q \in Requests : StoppedAsKnown(q) /\ InWay(req[q])
  BY DEF KnowsStopped, InTheirWay
<1> USE <1>0, ApiAssumption, Apart, FieldsTyped DEF engine, history, bounds, vars
<1>1. ASSUME NEW r \in Requests, NEW t \in Tunnels, Create(r, t)
      PROVE  KnowsStopped'
  <2>1. Opened(r, "create", "start", "checking", t, FALSE, {t})
    BY <1>1, CreateLeads
  <2>2. \A q \in Requests \ {r} : StoppedAsKnown(q)'
    BY <2>1 DEF Opened, OthersStay, StoppedAsKnown, UpKnown, KnowsTracked, TrackedAsKnown, Track, RollBack, TearDown, InWay, engine, history, bounds, vars
  <2>3. StoppedAsKnown(r)'
    BY <2>1 DEF Opened, StoppedAsKnown, UpKnown, KnowsTracked, TrackedAsKnown, Track, RollBack, TearDown, InWay
  <2>4. QED BY <2>2, <2>3 DEF KnowsStopped
<1>2. ASSUME NEW r \in Requests, NEW t \in Tunnels, Delete(r, t)
      PROVE  KnowsStopped'
  <2>1. Opened(r, "delete", "stop", "finding", t, FALSE, {t})
    BY <1>2, DeleteLeads
  <2>2. \A q \in Requests \ {r} : StoppedAsKnown(q)'
    BY <2>1 DEF Opened, OthersStay, StoppedAsKnown, UpKnown, KnowsTracked, TrackedAsKnown, Track, RollBack, TearDown, InWay, engine, history, bounds, vars
  <2>3. StoppedAsKnown(r)'
    BY <2>1 DEF Opened, StoppedAsKnown, UpKnown, KnowsTracked, TrackedAsKnown, Track, RollBack, TearDown, InWay
  <2>4. QED BY <2>2, <2>3 DEF KnowsStopped
<1>3. ASSUME NEW r \in Requests, NEW t \in Tunnels, NEW action \in Actions, Action(r, t, action)
      PROVE  KnowsStopped'
  <2>1. Opened(r, "action", action, "finding", t, t \in tracked, {t})
    BY <1>3, ActionLeads
  <2>2. \A q \in Requests \ {r} : StoppedAsKnown(q)'
    BY <2>1 DEF Opened, OthersStay, StoppedAsKnown, UpKnown, KnowsTracked, TrackedAsKnown, Track, RollBack, TearDown, InWay, engine, history, bounds, vars
  <2>3. StoppedAsKnown(r)'
    BY <2>1 DEF Opened, StoppedAsKnown, UpKnown, KnowsTracked, TrackedAsKnown, Track, RollBack, TearDown, InWay
  <2>4. QED BY <2>2, <2>3 DEF KnowsStopped
<1>4. ASSUME NEW r \in Requests, NEW ts \in SUBSET Tunnels, NEW action \in Actions, Batch(r, ts, action)
      PROVE  KnowsStopped'
  <2>1. Opened(r, "batch", action, "listing", NoTunnel, FALSE, ts)
    BY <1>4, BatchLeads
  <2>2. \A q \in Requests \ {r} : StoppedAsKnown(q)'
    BY <2>1 DEF Opened, OthersStay, StoppedAsKnown, UpKnown, KnowsTracked, TrackedAsKnown, Track, RollBack, TearDown, InWay, engine, history, bounds, vars
  <2>3. StoppedAsKnown(r)'
    BY <2>1 DEF Opened, StoppedAsKnown, UpKnown, KnowsTracked, TrackedAsKnown, Track, RollBack, TearDown, InWay
  <2>4. QED BY <2>2, <2>3 DEF KnowsStopped
<1>5. ASSUME NEW r \in Requests, Find(r) PROVE KnowsStopped'
  <2>1. \A q \in Requests \ {r} : StoppedAsKnown(q)'
    BY <1>5, FindLeads DEF Moved, Over, OthersStay, StoppedAsKnown, UpKnown, KnowsTracked, TrackedAsKnown, Track, RollBack, TearDown, InWay
  <2>2. UNCHANGED <<row, engine, history>> /\ req[r].stage = "finding"
    BY <1>5, FindLeads
  <2>3. ASSUME Over(r)
        PROVE  StoppedAsKnown(r)'
    BY <2>2, <2>3 DEF Over, StoppedAsKnown, UpKnown, KnowsTracked, TrackedAsKnown, Track, RollBack, TearDown, InWay
  <2>4. ASSUME Moved(r, "removing") \/ (Moved(r, "checking") /\ req[r].kind = "action" /\ row[req[r].t] # NoRow)
        PROVE  StoppedAsKnown(r)'
    BY <2>2, <2>4 DEF Moved, StoppedAsKnown, UpKnown, KnowsTracked, TrackedAsKnown, Track, RollBack, TearDown, InWay
  <2>5. ASSUME Moved(r, "dropping") /\ req[r].t \notin tracked
        PROVE  StoppedAsKnown(r)'
    BY <2>2, <2>5 DEF Moved, StoppedAsKnown, UpKnown, KnowsTracked, TrackedAsKnown, Track, RollBack, TearDown, InWay
  <2>6. ASSUME Moved(r, "acting") /\ req[r].kind = "action" /\ req[r].has /\ row[req[r].t] # NoRow
        PROVE  StoppedAsKnown(r)'
    BY <2>2, <2>6 DEF Moved, StoppedAsKnown, UpKnown, KnowsTracked, TrackedAsKnown, Track, RollBack, TearDown, InWay
  <2>7. ASSUME Moved(r, "writing") /\ req[r].kind = "action" /\ req[r].action = "stop" /\ ~req[r].has
               /\ row[req[r].t] # NoRow
        PROVE  StoppedAsKnown(r)'
    BY <2>2, <2>7 DEF Moved, StoppedAsKnown, UpKnown, KnowsTracked, TrackedAsKnown, Track, RollBack, TearDown, InWay
  <2>8. \/ Over(r) \/ Moved(r, "removing") \/ (Moved(r, "dropping") /\ req[r].t \notin tracked)
        \/ /\ row[req[r].t] # NoRow /\ req[r].kind = "action"
           /\ \/ Moved(r, "checking") \/ (Moved(r, "acting") /\ req[r].has)
              \/ (Moved(r, "writing") /\ req[r].action = "stop" /\ ~req[r].has)
    BY <1>5, FindLeads
  <2>9. StoppedAsKnown(r)'
    BY <2>3, <2>4, <2>5, <2>6, <2>7, <2>8
  <2>10. QED BY <2>1, <2>9 DEF KnowsStopped
<1>6. ASSUME NEW r \in Requests, List(r) PROVE KnowsStopped'
  <2>1. \A q \in Requests \ {r} : StoppedAsKnown(q)'
    BY <1>6, ListLeads DEF Moved, Ended, Over, OthersStay, StoppedAsKnown, UpKnown, KnowsTracked, TrackedAsKnown, Track, RollBack, TearDown, InWay
  <2>2. StoppedAsKnown(r)'
    BY <1>6, ListLeads DEF Moved, Ended, Over, OthersStay, StoppedAsKnown, UpKnown, KnowsTracked, TrackedAsKnown, Track, RollBack, TearDown, InWay
  <2>3. QED BY <2>1, <2>2 DEF KnowsStopped
<1>7. ASSUME NEW r \in Requests, Turn(r) PROVE KnowsStopped'
  <2>1. \A q \in Requests \ {r} : StoppedAsKnown(q)'
    BY <1>7, TurnLeads DEF Moved, Ended, Over, OthersStay, StoppedAsKnown, UpKnown, KnowsTracked, TrackedAsKnown, Track, RollBack, TearDown, InWay
  <2>2. StoppedAsKnown(r)'
    BY <1>7, TurnLeads DEF Moved, Ended, Over, OthersStay, StoppedAsKnown, UpKnown, KnowsTracked, TrackedAsKnown, Track, RollBack, TearDown, InWay
  <2>3. QED BY <2>1, <2>2 DEF KnowsStopped
<1>8. ASSUME NEW r \in Requests, BatchEnds(r) PROVE KnowsStopped'
  <2>1. \A q \in Requests \ {r} : StoppedAsKnown(q)'
    BY <1>8, BatchEndsLeads DEF Moved, Ended, Over, OthersStay, StoppedAsKnown, UpKnown, KnowsTracked, TrackedAsKnown, Track, RollBack, TearDown, InWay
  <2>2. StoppedAsKnown(r)'
    BY <1>8, BatchEndsLeads DEF Moved, Ended, Over, OthersStay, StoppedAsKnown, UpKnown, KnowsTracked, TrackedAsKnown, Track, RollBack, TearDown, InWay
  <2>3. QED BY <2>1, <2>2 DEF KnowsStopped
<1>9. ASSUME NEW r \in Requests, CheckPort(r) PROVE KnowsStopped'
  <2>1. \A q \in Requests \ {r} : StoppedAsKnown(q)'
    BY <1>9, CheckPortLeads DEF Moved, Ended, Over, OthersStay, StoppedAsKnown, UpKnown, KnowsTracked, TrackedAsKnown, Track, RollBack, TearDown, InWay
  <2>2. StoppedAsKnown(r)'
    BY <1>9, CheckPortLeads DEF Moved, Ended, Over, OthersStay, StoppedAsKnown, UpKnown, KnowsTracked, TrackedAsKnown, Track, RollBack, TearDown, InWay
  <2>3. QED BY <2>1, <2>2 DEF KnowsStopped
<1>10. ASSUME NEW r \in Requests, Insert(r) PROVE KnowsStopped'
  <2>1. \A q \in Requests \ {r} : StoppedAsKnown(q)'
    BY <1>10, InsertLeads DEF Moved, Ended, Over, OthersStay, StoppedAsKnown, UpKnown, KnowsTracked, TrackedAsKnown, Track, RollBack, TearDown, InWay
  <2>2. StoppedAsKnown(r)'
    BY <1>10, InsertLeads DEF Moved, Ended, Over, OthersStay, StoppedAsKnown, UpKnown, KnowsTracked, TrackedAsKnown, Track, RollBack, TearDown, InWay
  <2>3. QED BY <2>1, <2>2 DEF KnowsStopped
<1>11. ASSUME NEW r \in Requests, Load(r) PROVE KnowsStopped'
  <2>1. \A q \in Requests \ {r} : StoppedAsKnown(q)'
    BY <1>11, LoadLeads DEF Moved, Ended, Over, OthersStay, StoppedAsKnown, UpKnown, KnowsTracked, TrackedAsKnown, Track, RollBack, TearDown, InWay
  <2>2. StoppedAsKnown(r)'
    BY <1>11, LoadLeads DEF Moved, Ended, Over, OthersStay, StoppedAsKnown, UpKnown, KnowsTracked, TrackedAsKnown, Track, RollBack, TearDown, InWay
  <2>3. QED BY <2>1, <2>2 DEF KnowsStopped
<1>12. ASSUME NEW r \in Requests, Deploy(r) PROVE KnowsStopped'
  <2>1. \A q \in Requests \ {r} : StoppedAsKnown(q)'
    BY <1>12, DeployLeads DEF Moved, Ended, Over, OthersStay, StoppedAsKnown, UpKnown, KnowsTracked, TrackedAsKnown, Track, RollBack, TearDown, InWay
  <2>2. StoppedAsKnown(r)'
    BY <1>12, DeployLeads DEF Moved, Ended, Over, OthersStay, StoppedAsKnown, UpKnown, KnowsTracked, TrackedAsKnown, Track, RollBack, TearDown, InWay
  <2>3. QED BY <2>1, <2>2 DEF KnowsStopped
<1>13. ASSUME NEW r \in Requests, DeployFails(r) PROVE KnowsStopped'
  <2>1. \A q \in Requests \ {r} : StoppedAsKnown(q)'
    BY <1>13, DeployFailsLeads DEF Moved, Ended, Over, OthersStay, StoppedAsKnown, UpKnown, KnowsTracked, TrackedAsKnown, Track, RollBack, TearDown, InWay
  <2>2. StoppedAsKnown(r)'
    BY <1>13, DeployFailsLeads DEF Moved, Ended, Over, OthersStay, StoppedAsKnown, UpKnown, KnowsTracked, TrackedAsKnown, Track, RollBack, TearDown, InWay
  <2>3. QED BY <2>1, <2>2 DEF KnowsStopped
<1>14. ASSUME NEW r \in Requests, FailCreate(r) PROVE KnowsStopped'
  <2>1. \A q \in Requests \ {r} : StoppedAsKnown(q)'
    BY <1>14, FailCreateLeads DEF Moved, Ended, Over, OthersStay, StoppedAsKnown, UpKnown, KnowsTracked, TrackedAsKnown, Track, RollBack, TearDown, InWay
  <2>2. StoppedAsKnown(r)'
    BY <1>14, FailCreateLeads DEF Moved, Ended, Over, OthersStay, StoppedAsKnown, UpKnown, KnowsTracked, TrackedAsKnown, Track, RollBack, TearDown, InWay
  <2>3. QED BY <2>1, <2>2 DEF KnowsStopped
<1>15. ASSUME NEW r \in Requests, Act(r) PROVE KnowsStopped'
  <2>1. \A q \in Requests \ {r} : StoppedAsKnown(q)'
    BY <1>15, ActLeads DEF Moved, Ended, Over, OthersStay, StoppedAsKnown, UpKnown, KnowsTracked, TrackedAsKnown, Track, RollBack, TearDown, InWay
  <2>2. StoppedAsKnown(r)'
    BY <1>15, ActLeads DEF Moved, Ended, Over, OthersStay, StoppedAsKnown, UpKnown, KnowsTracked, TrackedAsKnown, Track, RollBack, TearDown, InWay
  <2>3. QED BY <2>1, <2>2 DEF KnowsStopped
<1>16. ASSUME NEW r \in Requests, ActFails(r) PROVE KnowsStopped'
  <2>1. \A q \in Requests \ {r} : StoppedAsKnown(q)'
    BY <1>16, ActFailsLeads DEF Moved, Ended, Over, OthersStay, StoppedAsKnown, UpKnown, KnowsTracked, TrackedAsKnown, Track, RollBack, TearDown, InWay
  <2>2. StoppedAsKnown(r)'
    BY <1>16, ActFailsLeads DEF Moved, Ended, Over, OthersStay, StoppedAsKnown, UpKnown, KnowsTracked, TrackedAsKnown, Track, RollBack, TearDown, InWay
  <2>3. QED BY <2>1, <2>2 DEF KnowsStopped
<1>17. ASSUME NEW r \in Requests, Ask(r) PROVE KnowsStopped'
  <2>1. \A q \in Requests \ {r} : StoppedAsKnown(q)'
    BY <1>17, AskLeads DEF Moved, Ended, Over, OthersStay, StoppedAsKnown, UpKnown, KnowsTracked, TrackedAsKnown, Track, RollBack, TearDown, InWay
  <2>2. StoppedAsKnown(r)'
    BY <1>17, AskLeads DEF Moved, Ended, Over, OthersStay, StoppedAsKnown, UpKnown, KnowsTracked, TrackedAsKnown, Track, RollBack, TearDown, InWay
  <2>3. QED BY <2>1, <2>2 DEF KnowsStopped
<1>18. ASSUME NEW r \in Requests, Write(r) PROVE KnowsStopped'
  <2>1. \A q \in Requests \ {r} : StoppedAsKnown(q)'
    BY <1>18, WriteLeads DEF Moved, Ended, Over, OthersStay, StoppedAsKnown, UpKnown, KnowsTracked, TrackedAsKnown, Track, RollBack, TearDown, InWay
  <2>2. StoppedAsKnown(r)'
    BY <1>18, WriteLeads DEF Moved, Ended, Over, OthersStay, StoppedAsKnown, UpKnown, KnowsTracked, TrackedAsKnown, Track, RollBack, TearDown, InWay
  <2>3. QED BY <2>1, <2>2 DEF KnowsStopped
<1>19. ASSUME NEW r \in Requests, Remove(r) PROVE KnowsStopped'
  <2>1. \A q \in Requests \ {r} : StoppedAsKnown(q)'
    BY <1>19, RemoveLeads DEF Moved, Ended, Over, OthersStay, StoppedAsKnown, UpKnown, KnowsTracked, TrackedAsKnown, Track, RollBack, TearDown, InWay
  <2>2. StoppedAsKnown(r)'
    BY <1>19, RemoveLeads DEF Moved, Ended, Over, OthersStay, StoppedAsKnown, UpKnown, KnowsTracked, TrackedAsKnown, Track, RollBack, TearDown, InWay
  <2>3. QED BY <2>1, <2>2 DEF KnowsStopped
<1>20. ASSUME NEW r \in Requests, RemoveFails(r) PROVE KnowsStopped'
  <2>1. \A q \in Requests \ {r} : StoppedAsKnown(q)'
    BY <1>20, RemoveFailsLeads DEF Moved, Ended, Over, OthersStay, StoppedAsKnown, UpKnown, KnowsTracked, TrackedAsKnown, Track, RollBack, TearDown, InWay
  <2>2. StoppedAsKnown(r)'
    BY <1>20, RemoveFailsLeads DEF Moved, Ended, Over, OthersStay, StoppedAsKnown, UpKnown, KnowsTracked, TrackedAsKnown, Track, RollBack, TearDown, InWay
  <2>3. QED BY <2>1, <2>2 DEF KnowsStopped
<1>21. ASSUME NEW r \in Requests, Drop(r) PROVE KnowsStopped'
  <2>1. \A q \in Requests \ {r} : StoppedAsKnown(q)'
    BY <1>21, DropLeads DEF Moved, Ended, Over, OthersStay, StoppedAsKnown, UpKnown, KnowsTracked, TrackedAsKnown, Track, RollBack, TearDown, InWay
  <2>2. StoppedAsKnown(r)'
    BY <1>21, DropLeads DEF Moved, Ended, Over, OthersStay, StoppedAsKnown, UpKnown, KnowsTracked, TrackedAsKnown, Track, RollBack, TearDown, InWay
  <2>3. QED BY <2>1, <2>2 DEF KnowsStopped
<1>22. ASSUME NEW t \in Tunnels, Die(t) PROVE KnowsStopped'
  BY <1>22 DEF Die, HandsApart, At, KnowsStopped, StoppedAsKnown, UpKnown, KnowsTracked, TrackedAsKnown, Track, RollBack, TearDown, InWay
<1>23. ASSUME NEW t \in Tunnels, Rehydrate(t) PROVE KnowsStopped'
  BY <1>23 DEF Rehydrate, HandsApart, At, KnowsStopped, StoppedAsKnown, UpKnown, KnowsTracked, TrackedAsKnown, Track, RollBack, TearDown, InWay
<1>24. ASSUME NEW t \in Tunnels, RehydrateFails(t) PROVE KnowsStopped'
  BY <1>24 DEF RehydrateFails, HandsApart, At, KnowsStopped, StoppedAsKnown, UpKnown, KnowsTracked, TrackedAsKnown, Track, RollBack, InWay
<1>25. ASSUME Crash PROVE KnowsStopped'
  BY <1>25 DEF Crash, Idle, KnowsStopped, StoppedAsKnown, UpKnown, KnowsTracked, TrackedAsKnown, Track, RollBack, TearDown, InWay
<1>26. CASE UNCHANGED vars
  BY <1>26 DEF KnowsStopped, StoppedAsKnown, UpKnown, KnowsTracked, TrackedAsKnown, Track, RollBack, TearDown, InWay
<1>27. QED BY <1>1, <1>2, <1>3, <1>4, <1>5, <1>6, <1>7, <1>8, <1>9, <1>10, <1>11, <1>12, <1>13, <1>14, <1>15, <1>16, <1>17, <1>18, <1>19, <1>20, <1>21, <1>22, <1>23, <1>24, <1>25, <1>26 DEF Next, Step

-----------------------------------------------------------------------------
(* The types *)

RestTyped ==
    /\ tracked \in SUBSET Tunnels /\ up \in SUBSET Tunnels
    /\ boot \in SUBSET Tunnels /\ issued \in SUBSET Tunnels /\ survives \in BOOLEAN
    /\ mixed \in SUBSET Tunnels /\ adrift \in SUBSET Tunnels /\ missed \in SUBSET Tunnels
    /\ unremoved \in SUBSET Tunnels /\ stopped \in SUBSET Tunnels
    /\ raced \in BOOLEAN /\ requests \in 0..MaxRequests /\ crashes \in 0..MaxCrashes

RowTyped == row \in [Tunnels -> Rows \cup {NoRow}]
ReqTyped == req \in [Requests -> ReqType]

\* The type invariant, as its three parts.
LEMMA TypeParts == TypeOK <=> RowTyped /\ ReqTyped /\ RestTyped
  BY DEF TypeOK, RowTyped, ReqTyped, ReqType, RestTyped

\* A request that begins keeps the types.
LEMMA BeginTyped ==
  ASSUME TypeOK, NEW r \in Requests, NEW new \in ReqType, NEW ts \in SUBSET Tunnels,
         Begin(r, new, ts), issued' \in SUBSET Tunnels, stopped' \in SUBSET Tunnels
  PROVE  RowTyped' /\ ReqTyped' /\ RestTyped'
<1> USE TypeParts, ApiAssumption DEF engine
<1>1. RowTyped' /\ ReqTyped'
  BY DEF RowTyped, ReqTyped, Begin
<1>2. requests' \in 0..MaxRequests /\ crashes' \in 0..MaxCrashes
  BY DEF RestTyped, Begin
<1>3. raced' \in BOOLEAN
  BY DEF Begin
<1>4. mixed' \in SUBSET Tunnels
  BY DEF RestTyped, Begin
<1>5. /\ tracked' \in SUBSET Tunnels /\ up' \in SUBSET Tunnels /\ boot' \in SUBSET Tunnels
      /\ adrift' \in SUBSET Tunnels /\ missed' \in SUBSET Tunnels /\ unremoved' \in SUBSET Tunnels /\ survives' \in BOOLEAN
  BY DEF RestTyped, Begin
<1>6. QED BY <1>1, <1>2, <1>3, <1>4, <1>5 DEF RestTyped

\* One row that changes keeps the types.
LEMMA OneRowTyped ==
  ASSUME RowTyped, NEW t \in Tunnels, NEW new \in Rows \cup {NoRow}, row' = [row EXCEPT ![t] = new]
  PROVE  RowTyped'
  BY DEF RowTyped

\* Every step keeps the types.
LEMMA TypeStep ==
  ASSUME TypeOK, InTheirWay, BootWanted, [Next]_vars
  PROVE  TypeOK'
<1> SUFFICES RowTyped' /\ ReqTyped' /\ RestTyped'
  BY DEF RowTyped, ReqTyped, ReqType, RestTyped, TypeOK
<1> USE TypeParts, ApiAssumption DEF engine, history, bounds, vars
<1>1. ASSUME NEW r \in Requests, NEW t \in Tunnels, Create(r, t)
      PROVE  RowTyped' /\ ReqTyped' /\ RestTyped'
  <2>1. [Idle EXCEPT !.stage = "checking", !.kind = "create", !.action = "start", !.t = t] \in ReqType
    BY DEF Idle, ReqType, Actions, States, Statuses
  <2>2. issued' \in SUBSET Tunnels /\ stopped' \in SUBSET Tunnels
    BY <1>1 DEF Create, RestTyped
  <2>3. QED BY <1>1, <2>1, <2>2, BeginTyped DEF Create
<1>2. ASSUME NEW r \in Requests, NEW t \in Tunnels, Delete(r, t)
      PROVE  RowTyped' /\ ReqTyped' /\ RestTyped'
  <2>1. [Idle EXCEPT !.stage = "finding", !.kind = "delete", !.t = t] \in ReqType
    BY DEF Idle, ReqType, Actions, States, Statuses
  <2>2. issued' \in SUBSET Tunnels /\ stopped' \in SUBSET Tunnels
    BY <1>2 DEF Delete, RestTyped
  <2>3. QED BY <1>2, <2>1, <2>2, BeginTyped DEF Delete
<1>3. ASSUME NEW r \in Requests, NEW t \in Tunnels, NEW action \in Actions, Action(r, t, action)
      PROVE  RowTyped' /\ ReqTyped' /\ RestTyped'
  <2> DEFINE has == t \in tracked
             new == [Idle EXCEPT !.stage = "finding", !.action = action, !.t = t, !.has = has]
  <2>0. has \in BOOLEAN
    OBVIOUS
  <2>1. Begin(r, new, {t})
    BY <1>3 DEF Action
  <2> HIDE DEF has
  <2>2. new \in ReqType
    BY <2>0 DEF Idle, ReqType, Actions, States, Statuses
  <2>3. issued' \in SUBSET Tunnels /\ stopped' \in SUBSET Tunnels
    BY <1>3 DEF Action, RestTyped
  <2> HIDE DEF new
  <2>4. QED BY <2>1, <2>2, <2>3, BeginTyped
<1>4. ASSUME NEW r \in Requests, NEW ts \in SUBSET Tunnels, NEW action \in Actions, Batch(r, ts, action)
      PROVE  RowTyped' /\ ReqTyped' /\ RestTyped'
  <2>1. [Idle EXCEPT !.stage = "listing", !.kind = "batch", !.action = action, !.todo = ts] \in ReqType
    BY DEF Idle, ReqType, Actions, States, Statuses
  <2>2. issued' \in SUBSET Tunnels /\ stopped' \in SUBSET Tunnels
    BY <1>4 DEF Batch, RestTyped
  <2>3. QED BY <1>4, <2>1, <2>2, BeginTyped DEF Batch
<1>5. ASSUME NEW r \in Requests, Find(r) PROVE RowTyped' /\ ReqTyped' /\ RestTyped'
  <2>1. ReqTyped'
    <3>1. \/ Finish(r)
          \/ \E stage \in {"removing", "dropping", "checking", "acting", "writing"} : Goto(r, stage)
      <4>1. req[r].kind \in {"delete", "action"}
        BY <1>5 DEF Find, At, InTheirWay, InWay
      <4>2. QED BY <1>5, <4>1 DEF Find
    <3>2. QED BY <3>1, GotoTyped, FinishTyped DEF ReqTyped
  <2>2. RowTyped'
    BY <1>5 DEF Find, At, RowTyped
  <2>3. RestTyped'
    BY <1>5 DEF Find, At, RestTyped
  <2>4. QED BY <2>1, <2>2, <2>3
<1>6. ASSUME NEW r \in Requests, List(r) PROVE RowTyped' /\ ReqTyped' /\ RestTyped'
  <2>1. ReqTyped'
    <3> DEFINE found == {t \in req[r].todo : row[t] # NoRow}
               fetched == IF req[r].action = "stop" THEN {} ELSE found \ tracked
               new == [req[r] EXCEPT !.stage = "next", !.todo = found, !.fetched = fetched]
    <3>1. req[r] \in ReqType
      BY DEF ReqTyped
    <3>2. found \in SUBSET Tunnels /\ fetched \in SUBSET Tunnels
      BY <3>1 DEF ReqType
    <3>3. req' = [req EXCEPT ![r] = new]
      BY <1>6 DEF List
    <3> HIDE DEF found, fetched
    <3>4. new \in ReqType
      BY <3>1, <3>2 DEF ReqType
    <3> HIDE DEF new
    <3>5. QED BY <3>3, <3>4 DEF ReqTyped
  <2>2. RowTyped'
    BY <1>6 DEF List, At, RowTyped
  <2>3. RestTyped'
    BY <1>6 DEF List, At, RestTyped
  <2>4. QED BY <2>1, <2>2, <2>3
<1>7. ASSUME NEW r \in Requests, Turn(r) PROVE RowTyped' /\ ReqTyped' /\ RestTyped'
  <2>1. ReqTyped'
    BY <1>7 DEF Turn, At, ReqTyped, ReqType, Idle, Actions, States, Statuses
  <2>2. RowTyped'
    BY <1>7 DEF Turn, At, RowTyped
  <2>3. RestTyped'
    BY <1>7 DEF Turn, At, RestTyped
  <2>4. QED BY <2>1, <2>2, <2>3
<1>8. ASSUME NEW r \in Requests, BatchEnds(r) PROVE RowTyped' /\ ReqTyped' /\ RestTyped'
  <2>1. ReqTyped'
    BY <1>8 DEF BatchEnds, At, ReqTyped, ReqType, Idle, Actions, States, Statuses
  <2>2. RowTyped'
    BY <1>8 DEF BatchEnds, At, RowTyped
  <2>3. RestTyped'
    BY <1>8 DEF BatchEnds, At, RestTyped
  <2>4. QED BY <2>1, <2>2, <2>3
<1>9. ASSUME NEW r \in Requests, CheckPort(r) PROVE RowTyped' /\ ReqTyped' /\ RestTyped'
  <2>1. ReqTyped'
    BY <1>9, GotoTyped, FinishTyped DEF CheckPort, At, ReqTyped
  <2>2. RowTyped'
    BY <1>9 DEF CheckPort, At, RowTyped
  <2>3. RestTyped'
    BY <1>9 DEF CheckPort, At, RestTyped
  <2>4. QED BY <2>1, <2>2, <2>3
<1>10. ASSUME NEW r \in Requests, Insert(r) PROVE RowTyped' /\ ReqTyped' /\ RestTyped'
  <2>1. ReqTyped'
    BY <1>10, GotoTyped, FinishTyped DEF Insert, At, ReqTyped
  <2>2. RowTyped'
    <3>1. PICK auto \in BOOLEAN :
            row' = [row EXCEPT ![req[r].t] = [status |-> "starting", state |-> "starting",
                                              autostart |-> auto]]
      BY <1>10 DEF Insert
    <3>2. [status |-> "starting", state |-> "starting", autostart |-> auto] \in Rows
      BY DEF Rows, Statuses, States
    <3>3. req[r].t \in Tunnels
      BY <1>10 DEF Insert, At, InTheirWay, InWay
    <3>4. QED BY <3>1, <3>2, <3>3, OneRowTyped
  <2>3. RestTyped'
    BY <1>10 DEF Insert, At, RestTyped
  <2>4. QED BY <2>1, <2>2, <2>3
<1>11. ASSUME NEW r \in Requests, Load(r) PROVE RowTyped' /\ ReqTyped' /\ RestTyped'
  <2>1. ReqTyped'
    <3>1. Finish(r) \/ Goto(r, "deploying") \/ Goto(r, "failing")
      <4>1. req[r].kind \in {"create", "action", "batch"}
        BY <1>11 DEF Load, At, InTheirWay, InWay, ReqTyped, ReqType
      <4>2. QED BY <1>11, <4>1 DEF Load
    <3>2. QED BY <3>1, GotoTyped, FinishTyped DEF ReqTyped
  <2>2. RowTyped'
    BY <1>11 DEF Load, At, RowTyped
  <2>3. RestTyped'
    BY <1>11 DEF Load, At, RestTyped
  <2>4. QED BY <2>1, <2>2, <2>3
<1>12. ASSUME NEW r \in Requests, Deploy(r) PROVE RowTyped' /\ ReqTyped' /\ RestTyped'
  <2>1. ReqTyped'
    BY <1>12, GotoTyped, FinishTyped DEF Deploy, Track, At, ReqTyped
  <2>2. RowTyped'
    BY <1>12 DEF Deploy, Track, At, RowTyped
  <2>3. RestTyped'
    <3>1. req[r].t \in Tunnels
      BY <1>12 DEF Deploy, At, InTheirWay, InWay
    <3>2. QED BY <1>12, <3>1 DEF Deploy, Track, RestTyped
  <2>4. QED BY <2>1, <2>2, <2>3
<1>13. ASSUME NEW r \in Requests, DeployFails(r) PROVE RowTyped' /\ ReqTyped' /\ RestTyped'
  <2>1. ReqTyped'
    BY <1>13, GotoTyped, FinishTyped DEF DeployFails, RollBack, At, ReqTyped
  <2>2. RowTyped'
    BY <1>13 DEF DeployFails, RollBack, At, RowTyped
  <2>3. RestTyped'
    <3>1. req[r].t \in Tunnels
      BY <1>13 DEF DeployFails, At, InTheirWay, InWay
    <3>2. QED BY <1>13, <3>1 DEF DeployFails, RollBack, RestTyped
  <2>4. QED BY <2>1, <2>2, <2>3
<1>14. ASSUME NEW r \in Requests, FailCreate(r) PROVE RowTyped' /\ ReqTyped' /\ RestTyped'
  <2>1. ReqTyped'
    BY <1>14, GotoTyped, FinishTyped DEF FailCreate, At, ReqTyped
  <2>2. RowTyped'
    <3> DEFINE old == row[req[r].t]
               new == IF old = NoRow THEN NoRow
                      ELSE [old EXCEPT !.status = "stopped", !.state = "stopped"]
    <3>1. req[r].t \in Tunnels
      BY <1>14 DEF FailCreate, At, InTheirWay, InWay
    <3>2. old \in Rows \cup {NoRow}
      BY <3>1 DEF RowTyped
    <3>3. new \in Rows \cup {NoRow}
      BY <3>2 DEF Rows, Statuses, States
    <3>4. row' = [row EXCEPT ![req[r].t] = new]
      BY <1>14 DEF FailCreate
    <3> HIDE DEF new
    <3>5. QED BY <3>1, <3>3, <3>4, OneRowTyped
  <2>3. RestTyped'
    BY <1>14 DEF FailCreate, At, RestTyped
  <2>4. QED BY <2>1, <2>2, <2>3
<1>15. ASSUME NEW r \in Requests, Act(r) PROVE RowTyped' /\ ReqTyped' /\ RestTyped'
  <2>1. ReqTyped'
    BY <1>15, GotoTyped, FinishTyped DEF Act, At, ReqTyped
  <2>2. RowTyped'
    BY <1>15 DEF Act, At, RowTyped
  <2>3. RestTyped'
    <3>1. UNCHANGED <<tracked, boot, mixed, adrift, unremoved, stopped, raced, bounds>>
      BY <1>15, ActLeads
    <3>2. up' \in SUBSET Tunnels /\ missed' \in SUBSET Tunnels
      BY <1>15, ActLeads DEF TearDown, RestTyped
    <3>3. QED BY <3>1, <3>2 DEF RestTyped, bounds
  <2>4. QED BY <2>1, <2>2, <2>3
<1>16. ASSUME NEW r \in Requests, ActFails(r) PROVE RowTyped' /\ ReqTyped' /\ RestTyped'
  <2>1. ReqTyped'
    BY <1>16, GotoTyped, FinishTyped DEF ActFails, At, ReqTyped
  <2>2. RowTyped'
    BY <1>16 DEF ActFails, At, RowTyped
  <2>3. RestTyped'
    BY <1>16 DEF ActFails, At, RestTyped
  <2>4. QED BY <2>1, <2>2, <2>3
<1>17. ASSUME NEW r \in Requests, Ask(r) PROVE RowTyped' /\ ReqTyped' /\ RestTyped'
  <2>1. ReqTyped'
    <3>1. PICK answer \in {Truth(req[r].t), "stopped", "unknown", "degraded"} :
            req' = [req EXCEPT ![r].stage = "writing", ![r].answer = answer]
      BY <1>17 DEF Ask
    <3>2. req[r] \in ReqType /\ answer \in States
      BY DEF ReqTyped, Truth, States, Statuses
    <3>3. [req[r] EXCEPT !.stage = "writing", !.answer = answer] \in ReqType
      BY <3>2 DEF ReqType
    <3>4. QED BY <3>1, <3>3 DEF ReqTyped
  <2>2. RowTyped'
    BY <1>17 DEF Ask, At, RowTyped
  <2>3. RestTyped'
    BY <1>17 DEF Ask, At, RestTyped
  <2>4. QED BY <2>1, <2>2, <2>3
<1>18. ASSUME NEW r \in Requests, Write(r) PROVE RowTyped' /\ ReqTyped' /\ RestTyped'
  <2>1. ReqTyped'
    BY <1>18, GotoTyped, FinishTyped DEF Write, At, ReqTyped
  <2>2. RowTyped'
    <3>1. CASE row[req[r].t] = NoRow
      BY <1>18, <3>1 DEF Write, RowTyped
    <3>2. CASE row[req[r].t] # NoRow
      <4>1. req[r].t \in Tunnels
        BY <1>18 DEF Write, At, InTheirWay, InWay
      <4>2. row'[req[r].t] \in Rows /\ \A u \in Tunnels \ {req[r].t} : row'[u] = row[u]
        BY <1>18, <3>2, WriteLeads DEF RowBecomes
      <4>3. row' = [u \in Tunnels |-> row'[u]]
        BY <1>18, <3>2 DEF Write, RowTyped
      <4>4. \A u \in Tunnels : row'[u] \in Rows \cup {NoRow}
        BY <4>1, <4>2 DEF RowTyped
      <4>5. QED BY <4>3, <4>4 DEF RowTyped
    <3>3. QED BY <3>1, <3>2
  <2>3. RestTyped'
    <3>1. req[r].t \in Tunnels
      BY <1>18 DEF Write, At, InTheirWay, InWay
    <3>2. QED BY <1>18, <3>1 DEF Write, RestTyped
  <2>4. QED BY <2>1, <2>2, <2>3
<1>19. ASSUME NEW r \in Requests, Remove(r) PROVE RowTyped' /\ ReqTyped' /\ RestTyped'
  <2>1. ReqTyped'
    BY <1>19, GotoTyped, FinishTyped DEF Remove, TearDown, At, ReqTyped
  <2>2. RowTyped'
    BY <1>19 DEF Remove, TearDown, At, RowTyped
  <2>3. RestTyped'
    BY <1>19 DEF Remove, TearDown, At, RestTyped
  <2>4. QED BY <2>1, <2>2, <2>3
<1>20. ASSUME NEW r \in Requests, RemoveFails(r) PROVE RowTyped' /\ ReqTyped' /\ RestTyped'
  <2>1. ReqTyped'
    BY <1>20, GotoTyped, FinishTyped DEF RemoveFails, At, ReqTyped
  <2>2. RowTyped'
    BY <1>20 DEF RemoveFails, At, RowTyped
  <2>3. RestTyped'
    <3>1. req[r].t \in Tunnels
      BY <1>20 DEF RemoveFails, At, InTheirWay, InWay
    <3>2. QED BY <1>20, <3>1 DEF RemoveFails, RestTyped
  <2>4. QED BY <2>1, <2>2, <2>3
<1>21. ASSUME NEW r \in Requests, Drop(r) PROVE RowTyped' /\ ReqTyped' /\ RestTyped'
  <2>1. ReqTyped'
    BY <1>21, GotoTyped, FinishTyped DEF Drop, At, ReqTyped
  <2>2. RowTyped'
    <3>1. req[r].t \in Tunnels
      BY <1>21 DEF Drop, At, InTheirWay, InWay
    <3>2. QED BY <1>21, <3>1, OneRowTyped DEF Drop
  <2>3. RestTyped'
    BY <1>21 DEF Drop, At, RestTyped
  <2>4. QED BY <2>1, <2>2, <2>3
<1>22. ASSUME NEW t \in Tunnels, Die(t) PROVE RowTyped' /\ ReqTyped' /\ RestTyped'
  BY <1>22 DEF Die, Track, RowTyped, ReqTyped, RestTyped
<1>23. ASSUME NEW t \in Tunnels, Rehydrate(t) PROVE RowTyped' /\ ReqTyped' /\ RestTyped'
  BY <1>23 DEF Rehydrate, Track, RowTyped, ReqTyped, RestTyped
<1>24. ASSUME NEW t \in Tunnels, RehydrateFails(t) PROVE RowTyped' /\ ReqTyped' /\ RestTyped'
  <2>1. row[t] \in Rows
    BY <1>24 DEF RehydrateFails, BootWanted, Wanted, RowTyped
  <2>2. [row[t] EXCEPT !.state = "stopped"] \in Rows
    BY <2>1 DEF Rows, States, Statuses
  <2>3. RowTyped'
    BY <1>24, <2>2, OneRowTyped DEF RehydrateFails
  <2>4. ReqTyped' /\ RestTyped'
    BY <1>24 DEF RehydrateFails, RollBack, ReqTyped, RestTyped
  <2>5. QED BY <2>3, <2>4
<1>25. ASSUME Crash PROVE RowTyped' /\ ReqTyped' /\ RestTyped'
  <2>1. Idle \in ReqType
    BY DEF Idle, ReqType, Actions, States, Statuses
  <2>2. RowTyped' /\ ReqTyped'
    BY <1>25, <2>1 DEF Crash, RowTyped, ReqTyped
  <2>3. up' \in SUBSET Tunnels
    BY <1>25 DEF Crash, RestTyped
  <2>4. RestTyped'
    BY <1>25, <2>3 DEF Crash, RestTyped
  <2>5. QED BY <2>2, <2>4
<1>26. CASE UNCHANGED vars
  BY <1>26 DEF RowTyped, ReqTyped, RestTyped
<1>27. QED BY <1>1, <1>2, <1>3, <1>4, <1>5, <1>6, <1>7, <1>8, <1>9, <1>10, <1>11, <1>12, <1>13, <1>14, <1>15, <1>16, <1>17, <1>18, <1>19, <1>20, <1>21, <1>22, <1>23, <1>24, <1>25, <1>26 DEF Next, Step

-----------------------------------------------------------------------------
(* The rows against the engine *)

\* A rehydration that fails says so in the row, and changes no more of it.
LEMMA RehydrateFailsLeads ==
  ASSUME TypeOK, BootWanted, NEW t \in Tunnels, RehydrateFails(t)
  PROVE  /\ t \in boot /\ row[t] # NoRow /\ RowBecomes(t, row[t].status, "stopped")
         /\ UNCHANGED <<req, mixed, unremoved, stopped, raced, bounds>>
<1>1. t \in boot /\ row[t] \in Rows
  BY DEF RehydrateFails, BootWanted, Wanted, TypeOK
<1>2. /\ row'[t] = [row[t] EXCEPT !.state = "stopped"]
      /\ \A u \in Tunnels \ {t} : row'[u] = row[u]
  BY DEF RehydrateFails, TypeOK
<1>3. RowBecomes(t, row[t].status, "stopped")
  BY <1>1, <1>2 DEF RowBecomes, Rows, Statuses, States
<1>4. QED BY <1>1, <1>3, ApiAssumption DEF RehydrateFails

\* Every step keeps what a booting panel has to rehydrate true.
LEMMA BootWantedStep ==
  ASSUME TypeOK, InTheirWay, HandsApart, BootWanted, [Next]_vars
  PROVE  BootWanted'
<1> USE ApiAssumption DEF engine, history, bounds, vars
<1>1. ASSUME NEW r \in Requests, NEW t \in Tunnels, Create(r, t)
      PROVE  BootWanted'
  <2>1. Opened(r, "create", "start", "checking", t, FALSE, {t})
    BY <1>1, CreateLeads
  <2>2. QED BY <2>1 DEF Opened, BootWanted
<1>2. ASSUME NEW r \in Requests, NEW t \in Tunnels, Delete(r, t)
      PROVE  BootWanted'
  <2>1. Opened(r, "delete", "stop", "finding", t, FALSE, {t})
    BY <1>2, DeleteLeads
  <2>2. QED BY <2>1 DEF Opened, BootWanted
<1>3. ASSUME NEW r \in Requests, NEW t \in Tunnels, NEW action \in Actions, Action(r, t, action)
      PROVE  BootWanted'
  <2>1. Opened(r, "action", action, "finding", t, t \in tracked, {t})
    BY <1>3, ActionLeads
  <2>2. QED BY <2>1 DEF Opened, BootWanted
<1>4. ASSUME NEW r \in Requests, NEW ts \in SUBSET Tunnels, NEW action \in Actions, Batch(r, ts, action)
      PROVE  BootWanted'
  <2>1. Opened(r, "batch", action, "listing", NoTunnel, FALSE, ts)
    BY <1>4, BatchLeads
  <2>2. QED BY <2>1 DEF Opened, BootWanted
<1>5. ASSUME NEW r \in Requests, Find(r) PROVE BootWanted'
  <2>1. req[r].stage # "idle" /\ boot' = boot
    BY <1>5, FindLeads
  <2>2. QED BY <2>1 DEF BootWanted, HandsApart, At
<1>6. ASSUME NEW r \in Requests, List(r) PROVE BootWanted'
  <2>1. req[r].stage # "idle" /\ boot' = boot
    BY <1>6, ListLeads
  <2>2. QED BY <2>1 DEF BootWanted, HandsApart, At
<1>7. ASSUME NEW r \in Requests, Turn(r) PROVE BootWanted'
  <2>1. req[r].stage # "idle" /\ boot' = boot
    BY <1>7, TurnLeads
  <2>2. QED BY <2>1 DEF BootWanted, HandsApart, At
<1>8. ASSUME NEW r \in Requests, BatchEnds(r) PROVE BootWanted'
  <2>1. req[r].stage # "idle" /\ boot' = boot
    BY <1>8, BatchEndsLeads
  <2>2. QED BY <2>1 DEF BootWanted, HandsApart, At
<1>9. ASSUME NEW r \in Requests, CheckPort(r) PROVE BootWanted'
  <2>1. req[r].stage # "idle" /\ boot' = boot
    BY <1>9, CheckPortLeads
  <2>2. QED BY <2>1 DEF BootWanted, HandsApart, At
<1>10. ASSUME NEW r \in Requests, Insert(r) PROVE BootWanted'
  <2>1. req[r].stage # "idle" /\ boot' = boot
    BY <1>10, InsertLeads
  <2>2. QED BY <2>1 DEF BootWanted, HandsApart, At
<1>11. ASSUME NEW r \in Requests, Load(r) PROVE BootWanted'
  <2>1. req[r].stage # "idle" /\ boot' = boot
    BY <1>11, LoadLeads
  <2>2. QED BY <2>1 DEF BootWanted, HandsApart, At
<1>12. ASSUME NEW r \in Requests, Deploy(r) PROVE BootWanted'
  <2>1. req[r].stage # "idle" /\ boot' = boot
    BY <1>12, DeployLeads
  <2>2. QED BY <2>1 DEF BootWanted, HandsApart, At
<1>13. ASSUME NEW r \in Requests, DeployFails(r) PROVE BootWanted'
  <2>1. req[r].stage # "idle" /\ boot' = boot
    BY <1>13, DeployFailsLeads
  <2>2. QED BY <2>1 DEF BootWanted, HandsApart, At
<1>14. ASSUME NEW r \in Requests, FailCreate(r) PROVE BootWanted'
  <2>1. req[r].stage # "idle" /\ boot' = boot
    BY <1>14, FailCreateLeads
  <2>2. QED BY <2>1 DEF BootWanted, HandsApart, At
<1>15. ASSUME NEW r \in Requests, Act(r) PROVE BootWanted'
  <2>1. req[r].stage # "idle" /\ boot' = boot
    BY <1>15, ActLeads
  <2>2. QED BY <2>1 DEF BootWanted, HandsApart, At
<1>16. ASSUME NEW r \in Requests, ActFails(r) PROVE BootWanted'
  <2>1. req[r].stage # "idle" /\ boot' = boot
    BY <1>16, ActFailsLeads
  <2>2. QED BY <2>1 DEF BootWanted, HandsApart, At
<1>17. ASSUME NEW r \in Requests, Ask(r) PROVE BootWanted'
  <2>1. req[r].stage # "idle" /\ boot' = boot
    BY <1>17, AskLeads
  <2>2. QED BY <2>1 DEF BootWanted, HandsApart, At
<1>18. ASSUME NEW r \in Requests, Write(r) PROVE BootWanted'
  <2>1. req[r].stage # "idle" /\ boot' = boot
    BY <1>18, WriteLeads
  <2>2. QED BY <2>1 DEF BootWanted, HandsApart, At
<1>19. ASSUME NEW r \in Requests, Remove(r) PROVE BootWanted'
  <2>1. req[r].stage # "idle" /\ boot' = boot
    BY <1>19, RemoveLeads
  <2>2. QED BY <2>1 DEF BootWanted, HandsApart, At
<1>20. ASSUME NEW r \in Requests, RemoveFails(r) PROVE BootWanted'
  <2>1. req[r].stage # "idle" /\ boot' = boot
    BY <1>20, RemoveFailsLeads
  <2>2. QED BY <2>1 DEF BootWanted, HandsApart, At
<1>21. ASSUME NEW r \in Requests, Drop(r) PROVE BootWanted'
  <2>1. req[r].stage # "idle" /\ boot' = boot
    BY <1>21, DropLeads
  <2>2. QED BY <2>1 DEF BootWanted, HandsApart, At
<1>22. ASSUME NEW t \in Tunnels, Die(t) PROVE BootWanted'
  BY <1>22 DEF Die, BootWanted, Wanted
<1>23. ASSUME NEW t \in Tunnels, Rehydrate(t) PROVE BootWanted'
  BY <1>23 DEF Rehydrate, BootWanted, Wanted
<1>24. ASSUME NEW t \in Tunnels, RehydrateFails(t) PROVE BootWanted'
  BY <1>24 DEF RehydrateFails, BootWanted, Wanted, TypeOK
<1>25. ASSUME Crash PROVE BootWanted'
  BY <1>25 DEF Crash, BootWanted, Wanted
<1>26. CASE UNCHANGED vars
  BY <1>26 DEF BootWanted, Wanted
<1>27. QED BY <1>1, <1>2, <1>3, <1>4, <1>5, <1>6, <1>7, <1>8, <1>9, <1>10, <1>11, <1>12, <1>13, <1>14, <1>15, <1>16, <1>17, <1>18, <1>19, <1>20, <1>21, <1>22, <1>23, <1>24, <1>25, <1>26 DEF Next, Step

\* Every step keeps the rows that say running tracked.
LEMMA RunningKnownStep ==
  ASSUME TypeOK, InTheirWay, HandsApart, KnowsTracked, KnowsRow, BootWanted, RunningKnown, [Next]_vars
  PROVE  RunningKnown'
<1> SUFFICES ASSUME NEW u \in Tunnels, u \notin mixed'
             PROVE  RunsAsKnown(u)'
  BY DEF RunningKnown
<1>0. \A q \in Requests : TrackedAsKnown(q) /\ RowAsKnown(q) /\ InWay(req[q])
  BY DEF KnowsTracked, KnowsRow, InTheirWay
<1> USE <1>0, ApiAssumption, Apart, FieldsTyped DEF engine, history, bounds, vars
<1>1. ASSUME NEW r \in Requests, NEW t \in Tunnels, Create(r, t)
      PROVE  RunsAsKnown(u)'
  <2>1. Opened(r, "create", "start", "checking", t, FALSE, {t})
    BY <1>1, CreateLeads
  <2>2. QED BY <2>1 DEF Opened, OthersStay, RunningKnown, RunsAsKnown, TrackedAsKnown, RowAsKnown, RowBecomes, State, Desired, InWay, Track, RollBack, TearDown, At
<1>2. ASSUME NEW r \in Requests, NEW t \in Tunnels, Delete(r, t)
      PROVE  RunsAsKnown(u)'
  <2>1. Opened(r, "delete", "stop", "finding", t, FALSE, {t})
    BY <1>2, DeleteLeads
  <2>2. QED BY <2>1 DEF Opened, OthersStay, RunningKnown, RunsAsKnown, TrackedAsKnown, RowAsKnown, RowBecomes, State, Desired, InWay, Track, RollBack, TearDown, At
<1>3. ASSUME NEW r \in Requests, NEW t \in Tunnels, NEW action \in Actions, Action(r, t, action)
      PROVE  RunsAsKnown(u)'
  <2>1. Opened(r, "action", action, "finding", t, t \in tracked, {t})
    BY <1>3, ActionLeads
  <2>2. QED BY <2>1 DEF Opened, OthersStay, RunningKnown, RunsAsKnown, TrackedAsKnown, RowAsKnown, RowBecomes, State, Desired, InWay, Track, RollBack, TearDown, At
<1>4. ASSUME NEW r \in Requests, NEW ts \in SUBSET Tunnels, NEW action \in Actions, Batch(r, ts, action)
      PROVE  RunsAsKnown(u)'
  <2>1. Opened(r, "batch", action, "listing", NoTunnel, FALSE, ts)
    BY <1>4, BatchLeads
  <2>2. QED BY <2>1 DEF Opened, OthersStay, RunningKnown, RunsAsKnown, TrackedAsKnown, RowAsKnown, RowBecomes, State, Desired, InWay, Track, RollBack, TearDown, At
<1>5. ASSUME NEW r \in Requests, Find(r) PROVE RunsAsKnown(u)'
  BY <1>5, FindLeads DEF Moved, Ended, Over, OthersStay, RunningKnown, RunsAsKnown, TrackedAsKnown, RowAsKnown, RowBecomes, State, Desired, InWay, Track, RollBack, TearDown, At
<1>6. ASSUME NEW r \in Requests, List(r) PROVE RunsAsKnown(u)'
  BY <1>6, ListLeads DEF Moved, Ended, Over, OthersStay, RunningKnown, RunsAsKnown, TrackedAsKnown, RowAsKnown, RowBecomes, State, Desired, InWay, Track, RollBack, TearDown, At
<1>7. ASSUME NEW r \in Requests, Turn(r) PROVE RunsAsKnown(u)'
  BY <1>7, TurnLeads DEF Moved, Ended, Over, OthersStay, RunningKnown, RunsAsKnown, TrackedAsKnown, RowAsKnown, RowBecomes, State, Desired, InWay, Track, RollBack, TearDown, At
<1>8. ASSUME NEW r \in Requests, BatchEnds(r) PROVE RunsAsKnown(u)'
  BY <1>8, BatchEndsLeads DEF Moved, Ended, Over, OthersStay, RunningKnown, RunsAsKnown, TrackedAsKnown, RowAsKnown, RowBecomes, State, Desired, InWay, Track, RollBack, TearDown, At
<1>9. ASSUME NEW r \in Requests, CheckPort(r) PROVE RunsAsKnown(u)'
  BY <1>9, CheckPortLeads DEF Moved, Ended, Over, OthersStay, RunningKnown, RunsAsKnown, TrackedAsKnown, RowAsKnown, RowBecomes, State, Desired, InWay, Track, RollBack, TearDown, At
<1>10. ASSUME NEW r \in Requests, Insert(r) PROVE RunsAsKnown(u)'
  BY <1>10, InsertLeads DEF Moved, Ended, Over, OthersStay, RunningKnown, RunsAsKnown, TrackedAsKnown, RowAsKnown, RowBecomes, State, Desired, InWay, Track, RollBack, TearDown, At
<1>11. ASSUME NEW r \in Requests, Load(r) PROVE RunsAsKnown(u)'
  BY <1>11, LoadLeads DEF Moved, Ended, Over, OthersStay, RunningKnown, RunsAsKnown, TrackedAsKnown, RowAsKnown, RowBecomes, State, Desired, InWay, Track, RollBack, TearDown, At
<1>12. ASSUME NEW r \in Requests, Deploy(r) PROVE RunsAsKnown(u)'
  BY <1>12, DeployLeads DEF Moved, Ended, Over, OthersStay, RunningKnown, RunsAsKnown, TrackedAsKnown, RowAsKnown, RowBecomes, State, Desired, InWay, Track, RollBack, TearDown, At
<1>13. ASSUME NEW r \in Requests, DeployFails(r) PROVE RunsAsKnown(u)'
  BY <1>13, DeployFailsLeads DEF Moved, Ended, Over, OthersStay, RunningKnown, RunsAsKnown, TrackedAsKnown, RowAsKnown, RowBecomes, State, Desired, InWay, Track, RollBack, TearDown, At
<1>14. ASSUME NEW r \in Requests, FailCreate(r) PROVE RunsAsKnown(u)'
  BY <1>14, FailCreateLeads DEF Moved, Ended, Over, OthersStay, RunningKnown, RunsAsKnown, TrackedAsKnown, RowAsKnown, RowBecomes, State, Desired, InWay, Track, RollBack, TearDown, At
<1>15. ASSUME NEW r \in Requests, Act(r) PROVE RunsAsKnown(u)'
  BY <1>15, ActLeads DEF Moved, Ended, Over, OthersStay, RunningKnown, RunsAsKnown, TrackedAsKnown, RowAsKnown, RowBecomes, State, Desired, InWay, Track, RollBack, TearDown, At
<1>16. ASSUME NEW r \in Requests, ActFails(r) PROVE RunsAsKnown(u)'
  BY <1>16, ActFailsLeads DEF Moved, Ended, Over, OthersStay, RunningKnown, RunsAsKnown, TrackedAsKnown, RowAsKnown, RowBecomes, State, Desired, InWay, Track, RollBack, TearDown, At
<1>17. ASSUME NEW r \in Requests, Ask(r) PROVE RunsAsKnown(u)'
  BY <1>17, AskLeads DEF Moved, Ended, Over, OthersStay, RunningKnown, RunsAsKnown, TrackedAsKnown, RowAsKnown, RowBecomes, State, Desired, InWay, Track, RollBack, TearDown, At
<1>18. ASSUME NEW r \in Requests, Write(r) PROVE RunsAsKnown(u)'
  BY <1>18, WriteLeads DEF Moved, Ended, Over, OthersStay, RunningKnown, RunsAsKnown, TrackedAsKnown, RowAsKnown, RowBecomes, State, Desired, InWay, Track, RollBack, TearDown, At
<1>19. ASSUME NEW r \in Requests, Remove(r) PROVE RunsAsKnown(u)'
  BY <1>19, RemoveLeads DEF Moved, Ended, Over, OthersStay, RunningKnown, RunsAsKnown, TrackedAsKnown, RowAsKnown, RowBecomes, State, Desired, InWay, Track, RollBack, TearDown, At
<1>20. ASSUME NEW r \in Requests, RemoveFails(r) PROVE RunsAsKnown(u)'
  BY <1>20, RemoveFailsLeads DEF Moved, Ended, Over, OthersStay, RunningKnown, RunsAsKnown, TrackedAsKnown, RowAsKnown, RowBecomes, State, Desired, InWay, Track, RollBack, TearDown, At
<1>21. ASSUME NEW r \in Requests, Drop(r) PROVE RunsAsKnown(u)'
  BY <1>21, DropLeads DEF Moved, Ended, Over, OthersStay, RunningKnown, RunsAsKnown, TrackedAsKnown, RowAsKnown, RowBecomes, State, Desired, InWay, Track, RollBack, TearDown, At
<1>22. ASSUME NEW t \in Tunnels, Die(t) PROVE RunsAsKnown(u)'
  BY <1>22 DEF Die, HandsApart, TypeOK, RunningKnown, RunsAsKnown, TrackedAsKnown, RowAsKnown, RowBecomes, State, Desired, InWay, Track, RollBack, TearDown, At
<1>23. ASSUME NEW t \in Tunnels, Rehydrate(t) PROVE RunsAsKnown(u)'
  BY <1>23 DEF Rehydrate, HandsApart, TypeOK, RunningKnown, RunsAsKnown, TrackedAsKnown, RowAsKnown, RowBecomes, State, Desired, InWay, Track, RollBack, TearDown, At
<1>24. ASSUME NEW t \in Tunnels, RehydrateFails(t) PROVE RunsAsKnown(u)'
  BY <1>24 DEF RehydrateFails, HandsApart, TypeOK, RunningKnown, RunsAsKnown, TrackedAsKnown, RowAsKnown, RowBecomes, State, Desired, InWay, Track, RollBack, At
<1>25. ASSUME Crash PROVE RunsAsKnown(u)'
  BY <1>25 DEF Crash, Idle, Wanted, RunningKnown, RunsAsKnown, TrackedAsKnown, RowAsKnown, RowBecomes, State, Desired, InWay, Track, RollBack, TearDown, At
<1>26. CASE UNCHANGED vars
  BY <1>26 DEF RunningKnown, RunsAsKnown, TrackedAsKnown, RowAsKnown, RowBecomes, State, Desired, InWay, Track, RollBack, TearDown, At
<1>27. QED BY <1>1, <1>2, <1>3, <1>4, <1>5, <1>6, <1>7, <1>8, <1>9, <1>10, <1>11, <1>12, <1>13, <1>14, <1>15, <1>16, <1>17, <1>18, <1>19, <1>20, <1>21, <1>22, <1>23, <1>24, <1>25, <1>26 DEF Next, Step

\* Every step keeps the rows that say starting in the hands of a creation.
LEMMA StartingKnownStep ==
  ASSUME TypeOK, InTheirWay, HandsApart, KnowsRow, BootWanted, StartingKnown, [Next]_vars
  PROVE  StartingKnown'
<1> SUFFICES ASSUME crashes' = 0, NEW u \in Tunnels, u \notin mixed'
             PROVE  StartsAsKnown(u)'
  BY DEF StartingKnown
<1>0. crashes \in Nat /\ \A q \in Requests : RowAsKnown(q) /\ InWay(req[q])
  BY ApiAssumption DEF TypeOK, KnowsRow, InTheirWay
<1> USE <1>0, ApiAssumption, Apart, FieldsTyped DEF engine, history, bounds, vars
<1>1. ASSUME NEW r \in Requests, NEW t \in Tunnels, Create(r, t)
      PROVE  StartsAsKnown(u)'
  <2>1. Opened(r, "create", "start", "checking", t, FALSE, {t})
    BY <1>1, CreateLeads
  <2>2. QED BY <2>1 DEF Opened, OthersStay, StartingKnown, StartsAsKnown, RowAsKnown, RowBecomes, Status, State, Desired, InWay, At
<1>2. ASSUME NEW r \in Requests, NEW t \in Tunnels, Delete(r, t)
      PROVE  StartsAsKnown(u)'
  <2>1. Opened(r, "delete", "stop", "finding", t, FALSE, {t})
    BY <1>2, DeleteLeads
  <2>2. QED BY <2>1 DEF Opened, OthersStay, StartingKnown, StartsAsKnown, RowAsKnown, RowBecomes, Status, State, Desired, InWay, At
<1>3. ASSUME NEW r \in Requests, NEW t \in Tunnels, NEW action \in Actions, Action(r, t, action)
      PROVE  StartsAsKnown(u)'
  <2>1. Opened(r, "action", action, "finding", t, t \in tracked, {t})
    BY <1>3, ActionLeads
  <2>2. QED BY <2>1 DEF Opened, OthersStay, StartingKnown, StartsAsKnown, RowAsKnown, RowBecomes, Status, State, Desired, InWay, At
<1>4. ASSUME NEW r \in Requests, NEW ts \in SUBSET Tunnels, NEW action \in Actions, Batch(r, ts, action)
      PROVE  StartsAsKnown(u)'
  <2>1. Opened(r, "batch", action, "listing", NoTunnel, FALSE, ts)
    BY <1>4, BatchLeads
  <2>2. QED BY <2>1 DEF Opened, OthersStay, StartingKnown, StartsAsKnown, RowAsKnown, RowBecomes, Status, State, Desired, InWay, At
<1>5. ASSUME NEW r \in Requests, Find(r) PROVE StartsAsKnown(u)'
  BY <1>5, FindLeads DEF Moved, Ended, Over, OthersStay, StartingKnown, StartsAsKnown, RowAsKnown, RowBecomes, Status, State, Desired, InWay, At
<1>6. ASSUME NEW r \in Requests, List(r) PROVE StartsAsKnown(u)'
  BY <1>6, ListLeads DEF Moved, Ended, Over, OthersStay, StartingKnown, StartsAsKnown, RowAsKnown, RowBecomes, Status, State, Desired, InWay, At
<1>7. ASSUME NEW r \in Requests, Turn(r) PROVE StartsAsKnown(u)'
  BY <1>7, TurnLeads DEF Moved, Ended, Over, OthersStay, StartingKnown, StartsAsKnown, RowAsKnown, RowBecomes, Status, State, Desired, InWay, At
<1>8. ASSUME NEW r \in Requests, BatchEnds(r) PROVE StartsAsKnown(u)'
  BY <1>8, BatchEndsLeads DEF Moved, Ended, Over, OthersStay, StartingKnown, StartsAsKnown, RowAsKnown, RowBecomes, Status, State, Desired, InWay, At
<1>9. ASSUME NEW r \in Requests, CheckPort(r) PROVE StartsAsKnown(u)'
  BY <1>9, CheckPortLeads DEF Moved, Ended, Over, OthersStay, StartingKnown, StartsAsKnown, RowAsKnown, RowBecomes, Status, State, Desired, InWay, At
<1>10. ASSUME NEW r \in Requests, Insert(r) PROVE StartsAsKnown(u)'
  BY <1>10, InsertLeads DEF Moved, Ended, Over, OthersStay, StartingKnown, StartsAsKnown, RowAsKnown, RowBecomes, Status, State, Desired, InWay, At
<1>11. ASSUME NEW r \in Requests, Load(r) PROVE StartsAsKnown(u)'
  BY <1>11, LoadLeads DEF Moved, Ended, Over, OthersStay, StartingKnown, StartsAsKnown, RowAsKnown, RowBecomes, Status, State, Desired, InWay, At
<1>12. ASSUME NEW r \in Requests, Deploy(r) PROVE StartsAsKnown(u)'
  BY <1>12, DeployLeads DEF Moved, Ended, Over, OthersStay, StartingKnown, StartsAsKnown, RowAsKnown, RowBecomes, Status, State, Desired, InWay, At
<1>13. ASSUME NEW r \in Requests, DeployFails(r) PROVE StartsAsKnown(u)'
  BY <1>13, DeployFailsLeads DEF Moved, Ended, Over, OthersStay, StartingKnown, StartsAsKnown, RowAsKnown, RowBecomes, Status, State, Desired, InWay, At
<1>14. ASSUME NEW r \in Requests, FailCreate(r) PROVE StartsAsKnown(u)'
  BY <1>14, FailCreateLeads DEF Moved, Ended, Over, OthersStay, StartingKnown, StartsAsKnown, RowAsKnown, RowBecomes, Status, State, Desired, InWay, At
<1>15. ASSUME NEW r \in Requests, Act(r) PROVE StartsAsKnown(u)'
  BY <1>15, ActLeads DEF Moved, Ended, Over, OthersStay, StartingKnown, StartsAsKnown, RowAsKnown, RowBecomes, Status, State, Desired, InWay, At
<1>16. ASSUME NEW r \in Requests, ActFails(r) PROVE StartsAsKnown(u)'
  BY <1>16, ActFailsLeads DEF Moved, Ended, Over, OthersStay, StartingKnown, StartsAsKnown, RowAsKnown, RowBecomes, Status, State, Desired, InWay, At
<1>17. ASSUME NEW r \in Requests, Ask(r) PROVE StartsAsKnown(u)'
  BY <1>17, AskLeads DEF Moved, Ended, Over, OthersStay, StartingKnown, StartsAsKnown, RowAsKnown, RowBecomes, Status, State, Desired, InWay, At
<1>18. ASSUME NEW r \in Requests, Write(r) PROVE StartsAsKnown(u)'
  BY <1>18, WriteLeads DEF Moved, Ended, Over, OthersStay, StartingKnown, StartsAsKnown, RowAsKnown, RowBecomes, Status, State, Desired, InWay, At
<1>19. ASSUME NEW r \in Requests, Remove(r) PROVE StartsAsKnown(u)'
  BY <1>19, RemoveLeads DEF Moved, Ended, Over, OthersStay, StartingKnown, StartsAsKnown, RowAsKnown, RowBecomes, Status, State, Desired, InWay, At
<1>20. ASSUME NEW r \in Requests, RemoveFails(r) PROVE StartsAsKnown(u)'
  BY <1>20, RemoveFailsLeads DEF Moved, Ended, Over, OthersStay, StartingKnown, StartsAsKnown, RowAsKnown, RowBecomes, Status, State, Desired, InWay, At
<1>21. ASSUME NEW r \in Requests, Drop(r) PROVE StartsAsKnown(u)'
  BY <1>21, DropLeads DEF Moved, Ended, Over, OthersStay, StartingKnown, StartsAsKnown, RowAsKnown, RowBecomes, Status, State, Desired, InWay, At
<1>22. ASSUME NEW t \in Tunnels, Die(t) PROVE StartsAsKnown(u)'
  BY <1>22 DEF Die, HandsApart, TypeOK, StartingKnown, StartsAsKnown, RowAsKnown, RowBecomes, Status, State, Desired, InWay, At
<1>23. ASSUME NEW t \in Tunnels, Rehydrate(t) PROVE StartsAsKnown(u)'
  BY <1>23 DEF Rehydrate, HandsApart, TypeOK, StartingKnown, StartsAsKnown, RowAsKnown, RowBecomes, Status, State, Desired, InWay, At
<1>24. ASSUME NEW t \in Tunnels, RehydrateFails(t) PROVE StartsAsKnown(u)'
  <2>1. \A q \in Requests : req[q].stage = "idle"
    BY <1>24 DEF RehydrateFails, HandsApart, At
  <2>2. QED BY <1>24, <2>1, RehydrateFailsLeads DEF StartingKnown, StartsAsKnown, RowBecomes
<1>25. ASSUME Crash PROVE StartsAsKnown(u)'
  BY <1>25 DEF Crash, Idle, Wanted, StartingKnown, StartsAsKnown, RowAsKnown, RowBecomes, Status, State, Desired, InWay, At
<1>26. CASE UNCHANGED vars
  BY <1>26 DEF StartingKnown, StartsAsKnown, RowAsKnown, RowBecomes, Status, State, Desired, InWay, At
<1>27. QED BY <1>1, <1>2, <1>3, <1>4, <1>5, <1>6, <1>7, <1>8, <1>9, <1>10, <1>11, <1>12, <1>13, <1>14, <1>15, <1>16, <1>17, <1>18, <1>19, <1>20, <1>21, <1>22, <1>23, <1>24, <1>25, <1>26 DEF Next, Step

\* Every step keeps a row to what runs.
LEMMA GhostKnownStep ==
  ASSUME TypeOK, InTheirWay, HandsApart, UpKnown, KnowsTracked, KnowsRow, BootWanted, GhostKnown, [Next]_vars
  PROVE  GhostKnown'
<1> SUFFICES ASSUME NEW u \in Tunnels, u \in up', u \notin mixed', u \notin unremoved', u \notin adrift',
                    u \notin missed'
             PROVE  row'[u] # NoRow
  BY TypeStep DEF GhostKnown, TypeOK
<1>0. \A q \in Requests : TrackedAsKnown(q) /\ RowAsKnown(q) /\ InWay(req[q])
  BY DEF KnowsTracked, KnowsRow, InTheirWay
<1> USE <1>0, ApiAssumption, Apart, FieldsTyped DEF engine, history, bounds, vars
<1>1. ASSUME NEW r \in Requests, NEW t \in Tunnels, Create(r, t)
      PROVE  row'[u] # NoRow
  <2>1. Opened(r, "create", "start", "checking", t, FALSE, {t})
    BY <1>1, CreateLeads
  <2>2. QED BY <2>1 DEF Opened, OthersStay, GhostKnown, UpKnown, TrackedAsKnown, RowAsKnown, RowBecomes, InWay, BootWanted, Wanted, Track, RollBack, TearDown, At
<1>2. ASSUME NEW r \in Requests, NEW t \in Tunnels, Delete(r, t)
      PROVE  row'[u] # NoRow
  <2>1. Opened(r, "delete", "stop", "finding", t, FALSE, {t})
    BY <1>2, DeleteLeads
  <2>2. QED BY <2>1 DEF Opened, OthersStay, GhostKnown, UpKnown, TrackedAsKnown, RowAsKnown, RowBecomes, InWay, BootWanted, Wanted, Track, RollBack, TearDown, At
<1>3. ASSUME NEW r \in Requests, NEW t \in Tunnels, NEW action \in Actions, Action(r, t, action)
      PROVE  row'[u] # NoRow
  <2>1. Opened(r, "action", action, "finding", t, t \in tracked, {t})
    BY <1>3, ActionLeads
  <2>2. QED BY <2>1 DEF Opened, OthersStay, GhostKnown, UpKnown, TrackedAsKnown, RowAsKnown, RowBecomes, InWay, BootWanted, Wanted, Track, RollBack, TearDown, At
<1>4. ASSUME NEW r \in Requests, NEW ts \in SUBSET Tunnels, NEW action \in Actions, Batch(r, ts, action)
      PROVE  row'[u] # NoRow
  <2>1. Opened(r, "batch", action, "listing", NoTunnel, FALSE, ts)
    BY <1>4, BatchLeads
  <2>2. QED BY <2>1 DEF Opened, OthersStay, GhostKnown, UpKnown, TrackedAsKnown, RowAsKnown, RowBecomes, InWay, BootWanted, Wanted, Track, RollBack, TearDown, At
<1>5. ASSUME NEW r \in Requests, Find(r) PROVE row'[u] # NoRow
  BY <1>5, FindLeads DEF Moved, Ended, Over, OthersStay, GhostKnown, UpKnown, TrackedAsKnown, RowAsKnown, RowBecomes, InWay, BootWanted, Wanted, Track, RollBack, TearDown, At
<1>6. ASSUME NEW r \in Requests, List(r) PROVE row'[u] # NoRow
  BY <1>6, ListLeads DEF Moved, Ended, Over, OthersStay, GhostKnown, UpKnown, TrackedAsKnown, RowAsKnown, RowBecomes, InWay, BootWanted, Wanted, Track, RollBack, TearDown, At
<1>7. ASSUME NEW r \in Requests, Turn(r) PROVE row'[u] # NoRow
  BY <1>7, TurnLeads DEF Moved, Ended, Over, OthersStay, GhostKnown, UpKnown, TrackedAsKnown, RowAsKnown, RowBecomes, InWay, BootWanted, Wanted, Track, RollBack, TearDown, At
<1>8. ASSUME NEW r \in Requests, BatchEnds(r) PROVE row'[u] # NoRow
  BY <1>8, BatchEndsLeads DEF Moved, Ended, Over, OthersStay, GhostKnown, UpKnown, TrackedAsKnown, RowAsKnown, RowBecomes, InWay, BootWanted, Wanted, Track, RollBack, TearDown, At
<1>9. ASSUME NEW r \in Requests, CheckPort(r) PROVE row'[u] # NoRow
  BY <1>9, CheckPortLeads DEF Moved, Ended, Over, OthersStay, GhostKnown, UpKnown, TrackedAsKnown, RowAsKnown, RowBecomes, InWay, BootWanted, Wanted, Track, RollBack, TearDown, At
<1>10. ASSUME NEW r \in Requests, Insert(r) PROVE row'[u] # NoRow
  BY <1>10, InsertLeads DEF Moved, Ended, Over, OthersStay, GhostKnown, UpKnown, TrackedAsKnown, RowAsKnown, RowBecomes, InWay, BootWanted, Wanted, Track, RollBack, TearDown, At
<1>11. ASSUME NEW r \in Requests, Load(r) PROVE row'[u] # NoRow
  BY <1>11, LoadLeads DEF Moved, Ended, Over, OthersStay, GhostKnown, UpKnown, TrackedAsKnown, RowAsKnown, RowBecomes, InWay, BootWanted, Wanted, Track, RollBack, TearDown, At
<1>12. ASSUME NEW r \in Requests, Deploy(r) PROVE row'[u] # NoRow
  BY <1>12, DeployLeads DEF Moved, Ended, Over, OthersStay, GhostKnown, UpKnown, TrackedAsKnown, RowAsKnown, RowBecomes, InWay, BootWanted, Wanted, Track, RollBack, TearDown, At
<1>13. ASSUME NEW r \in Requests, DeployFails(r) PROVE row'[u] # NoRow
  BY <1>13, DeployFailsLeads DEF Moved, Ended, Over, OthersStay, GhostKnown, UpKnown, TrackedAsKnown, RowAsKnown, RowBecomes, InWay, BootWanted, Wanted, Track, RollBack, TearDown, At
<1>14. ASSUME NEW r \in Requests, FailCreate(r) PROVE row'[u] # NoRow
  BY <1>14, FailCreateLeads DEF Moved, Ended, Over, OthersStay, GhostKnown, UpKnown, TrackedAsKnown, RowAsKnown, RowBecomes, InWay, BootWanted, Wanted, Track, RollBack, TearDown, At
<1>15. ASSUME NEW r \in Requests, Act(r) PROVE row'[u] # NoRow
  BY <1>15, ActLeads DEF Moved, Ended, Over, OthersStay, GhostKnown, UpKnown, TrackedAsKnown, RowAsKnown, RowBecomes, InWay, BootWanted, Wanted, Track, RollBack, TearDown, At
<1>16. ASSUME NEW r \in Requests, ActFails(r) PROVE row'[u] # NoRow
  BY <1>16, ActFailsLeads DEF Moved, Ended, Over, OthersStay, GhostKnown, UpKnown, TrackedAsKnown, RowAsKnown, RowBecomes, InWay, BootWanted, Wanted, Track, RollBack, TearDown, At
<1>17. ASSUME NEW r \in Requests, Ask(r) PROVE row'[u] # NoRow
  BY <1>17, AskLeads DEF Moved, Ended, Over, OthersStay, GhostKnown, UpKnown, TrackedAsKnown, RowAsKnown, RowBecomes, InWay, BootWanted, Wanted, Track, RollBack, TearDown, At
<1>18. ASSUME NEW r \in Requests, Write(r) PROVE row'[u] # NoRow
  BY <1>18, WriteLeads DEF Moved, Ended, Over, OthersStay, GhostKnown, UpKnown, TrackedAsKnown, RowAsKnown, RowBecomes, InWay, BootWanted, Wanted, Track, RollBack, TearDown, At
<1>19. ASSUME NEW r \in Requests, Remove(r) PROVE row'[u] # NoRow
  BY <1>19, RemoveLeads DEF Moved, Ended, Over, OthersStay, GhostKnown, UpKnown, TrackedAsKnown, RowAsKnown, RowBecomes, InWay, BootWanted, Wanted, Track, RollBack, TearDown, At
<1>20. ASSUME NEW r \in Requests, RemoveFails(r) PROVE row'[u] # NoRow
  BY <1>20, RemoveFailsLeads DEF Moved, Ended, Over, OthersStay, GhostKnown, UpKnown, TrackedAsKnown, RowAsKnown, RowBecomes, InWay, BootWanted, Wanted, Track, RollBack, TearDown, At
<1>21. ASSUME NEW r \in Requests, Drop(r) PROVE row'[u] # NoRow
  BY <1>21, DropLeads DEF Moved, Ended, Over, OthersStay, GhostKnown, UpKnown, TrackedAsKnown, RowAsKnown, RowBecomes, InWay, BootWanted, Wanted, Track, RollBack, TearDown, At
<1>22. ASSUME NEW t \in Tunnels, Die(t) PROVE row'[u] # NoRow
  BY <1>22 DEF Die, HandsApart, TypeOK, GhostKnown, UpKnown, TrackedAsKnown, RowAsKnown, RowBecomes, InWay, BootWanted, Wanted, Track, RollBack, TearDown, At
<1>23. ASSUME NEW t \in Tunnels, Rehydrate(t) PROVE row'[u] # NoRow
  BY <1>23 DEF Rehydrate, HandsApart, TypeOK, GhostKnown, UpKnown, TrackedAsKnown, RowAsKnown, RowBecomes, InWay, BootWanted, Wanted, Track, RollBack, TearDown, At
<1>24. ASSUME NEW t \in Tunnels, RehydrateFails(t) PROVE row'[u] # NoRow
  BY <1>24 DEF RehydrateFails, HandsApart, TypeOK, GhostKnown, UpKnown, TrackedAsKnown, RowAsKnown, RowBecomes, InWay, BootWanted, Wanted, Track, RollBack, At
<1>25. ASSUME Crash PROVE row'[u] # NoRow
  BY <1>25 DEF Crash, Idle, Wanted, GhostKnown, UpKnown, TrackedAsKnown, RowAsKnown, RowBecomes, InWay, BootWanted, Wanted, Track, RollBack, TearDown, At
<1>26. CASE UNCHANGED vars
  BY <1>26 DEF GhostKnown, UpKnown, TrackedAsKnown, RowAsKnown, RowBecomes, InWay, BootWanted, Wanted, Track, RollBack, TearDown, At
<1>27. QED BY <1>1, <1>2, <1>3, <1>4, <1>5, <1>6, <1>7, <1>8, <1>9, <1>10, <1>11, <1>12, <1>13, <1>14, <1>15, <1>16, <1>17, <1>18, <1>19, <1>20, <1>21, <1>22, <1>23, <1>24, <1>25, <1>26 DEF Next, Step

\* Every step keeps the stopped tunnels stopped.
LEMMA StoppedKnownStep ==
  ASSUME TypeOK, InTheirWay, HandsApart, UpKnown, KnowsStopped, BootWanted, StoppedKnown, [Next]_vars
  PROVE  StoppedKnown'
<1> SUFFICES ASSUME NEW u \in Tunnels, u \in stopped', u \notin mixed', u \notin missed'
             PROVE  StaysStopped(u)'
  BY TypeStep DEF StoppedKnown, TypeOK
<1>0. \A q \in Requests : StoppedAsKnown(q) /\ InWay(req[q])
  BY DEF KnowsStopped, InTheirWay
<1> USE <1>0, ApiAssumption, Apart, FieldsTyped DEF engine, history, bounds, vars
<1>1. ASSUME NEW r \in Requests, NEW t \in Tunnels, Create(r, t)
      PROVE  StaysStopped(u)'
  <2>1. Opened(r, "create", "start", "checking", t, FALSE, {t}) /\ stopped' = stopped \ {t}
    BY <1>1, CreateLeads
  <2>2. StaysStopped(u)
    BY <2>1 DEF Opened, StoppedKnown
  <2>3. \A q \in Requests : u \in Scope(q)' => req'[q].kind = "delete"
    BY <2>1, <2>2 DEF Opened, OthersStay, StaysStopped, Scope
  <2>4. QED BY <2>1, <2>2, <2>3 DEF Opened, StaysStopped
<1>2. ASSUME NEW r \in Requests, NEW t \in Tunnels, Delete(r, t)
      PROVE  StaysStopped(u)'
  <2>1. Opened(r, "delete", "stop", "finding", t, FALSE, {t}) /\ stopped' = stopped
    BY <1>2, DeleteLeads
  <2>2. StaysStopped(u)
    BY <2>1 DEF Opened, StoppedKnown
  <2>3. \A q \in Requests : u \in Scope(q)' => req'[q].kind = "delete"
    BY <2>1, <2>2 DEF Opened, OthersStay, StaysStopped, Scope
  <2>4. QED BY <2>1, <2>2, <2>3 DEF Opened, StaysStopped
<1>3. ASSUME NEW r \in Requests, NEW t \in Tunnels, NEW action \in Actions, Action(r, t, action)
      PROVE  StaysStopped(u)'
  <2>1. Opened(r, "action", action, "finding", t, t \in tracked, {t}) /\ stopped' = stopped \ {t}
    BY <1>3, ActionLeads
  <2>2. StaysStopped(u)
    BY <2>1 DEF Opened, StoppedKnown
  <2>3. \A q \in Requests : u \in Scope(q)' => req'[q].kind = "delete"
    BY <2>1, <2>2 DEF Opened, OthersStay, StaysStopped, Scope
  <2>4. QED BY <2>1, <2>2, <2>3 DEF Opened, StaysStopped
<1>4. ASSUME NEW r \in Requests, NEW ts \in SUBSET Tunnels, NEW action \in Actions, Batch(r, ts, action)
      PROVE  StaysStopped(u)'
  <2>1. Opened(r, "batch", action, "listing", NoTunnel, FALSE, ts) /\ stopped' = stopped \ ts
    BY <1>4, BatchLeads
  <2>2. StaysStopped(u)
    BY <2>1 DEF Opened, StoppedKnown
  <2>3. \A q \in Requests : u \in Scope(q)' => req'[q].kind = "delete"
    BY <2>1, <2>2 DEF Opened, OthersStay, StaysStopped, Scope
  <2>4. QED BY <2>1, <2>2, <2>3 DEF Opened, StaysStopped
<1>5. ASSUME NEW r \in Requests, Find(r) PROVE StaysStopped(u)'
  BY <1>5, FindLeads DEF Moved, Ended, Over, OthersStay, StoppedKnown, StaysStopped, StoppedAsKnown, RowBecomes, State, Desired, InWay, BootWanted, Wanted, Scope, Track, RollBack, TearDown, At
<1>6. ASSUME NEW r \in Requests, List(r) PROVE StaysStopped(u)'
  BY <1>6, ListLeads DEF Moved, Ended, Over, OthersStay, StoppedKnown, StaysStopped, StoppedAsKnown, RowBecomes, State, Desired, InWay, BootWanted, Wanted, Scope, Track, RollBack, TearDown, At
<1>7. ASSUME NEW r \in Requests, Turn(r) PROVE StaysStopped(u)'
  BY <1>7, TurnLeads DEF Moved, Ended, Over, OthersStay, StoppedKnown, StaysStopped, StoppedAsKnown, RowBecomes, State, Desired, InWay, BootWanted, Wanted, Scope, Track, RollBack, TearDown, At
<1>8. ASSUME NEW r \in Requests, BatchEnds(r) PROVE StaysStopped(u)'
  BY <1>8, BatchEndsLeads DEF Moved, Ended, Over, OthersStay, StoppedKnown, StaysStopped, StoppedAsKnown, RowBecomes, State, Desired, InWay, BootWanted, Wanted, Scope, Track, RollBack, TearDown, At
<1>9. ASSUME NEW r \in Requests, CheckPort(r) PROVE StaysStopped(u)'
  BY <1>9, CheckPortLeads DEF Moved, Ended, Over, OthersStay, StoppedKnown, StaysStopped, StoppedAsKnown, RowBecomes, State, Desired, InWay, BootWanted, Wanted, Scope, Track, RollBack, TearDown, At
<1>10. ASSUME NEW r \in Requests, Insert(r) PROVE StaysStopped(u)'
  BY <1>10, InsertLeads DEF Moved, Ended, Over, OthersStay, StoppedKnown, StaysStopped, StoppedAsKnown, RowBecomes, State, Desired, InWay, BootWanted, Wanted, Scope, Track, RollBack, TearDown, At
<1>11. ASSUME NEW r \in Requests, Load(r) PROVE StaysStopped(u)'
  BY <1>11, LoadLeads DEF Moved, Ended, Over, OthersStay, StoppedKnown, StaysStopped, StoppedAsKnown, RowBecomes, State, Desired, InWay, BootWanted, Wanted, Scope, Track, RollBack, TearDown, At
<1>12. ASSUME NEW r \in Requests, Deploy(r) PROVE StaysStopped(u)'
  BY <1>12, DeployLeads DEF Moved, Ended, Over, OthersStay, StoppedKnown, StaysStopped, StoppedAsKnown, RowBecomes, State, Desired, InWay, BootWanted, Wanted, Scope, Track, RollBack, TearDown, At
<1>13. ASSUME NEW r \in Requests, DeployFails(r) PROVE StaysStopped(u)'
  BY <1>13, DeployFailsLeads DEF Moved, Ended, Over, OthersStay, StoppedKnown, StaysStopped, StoppedAsKnown, RowBecomes, State, Desired, InWay, BootWanted, Wanted, Scope, Track, RollBack, TearDown, At
<1>14. ASSUME NEW r \in Requests, FailCreate(r) PROVE StaysStopped(u)'
  BY <1>14, FailCreateLeads DEF Moved, Ended, Over, OthersStay, StoppedKnown, StaysStopped, StoppedAsKnown, RowBecomes, State, Desired, InWay, BootWanted, Wanted, Scope, Track, RollBack, TearDown, At
<1>15. ASSUME NEW r \in Requests, Act(r) PROVE StaysStopped(u)'
  BY <1>15, ActLeads DEF Moved, Ended, Over, OthersStay, StoppedKnown, StaysStopped, StoppedAsKnown, RowBecomes, State, Desired, InWay, BootWanted, Wanted, Scope, Track, RollBack, TearDown, At
<1>16. ASSUME NEW r \in Requests, ActFails(r) PROVE StaysStopped(u)'
  BY <1>16, ActFailsLeads DEF Moved, Ended, Over, OthersStay, StoppedKnown, StaysStopped, StoppedAsKnown, RowBecomes, State, Desired, InWay, BootWanted, Wanted, Scope, Track, RollBack, TearDown, At
<1>17. ASSUME NEW r \in Requests, Ask(r) PROVE StaysStopped(u)'
  BY <1>17, AskLeads DEF Moved, Ended, Over, OthersStay, StoppedKnown, StaysStopped, StoppedAsKnown, RowBecomes, State, Desired, InWay, BootWanted, Wanted, Scope, Track, RollBack, TearDown, At
<1>18. ASSUME NEW r \in Requests, Write(r) PROVE StaysStopped(u)'
  BY <1>18, WriteLeads DEF Moved, Ended, Over, OthersStay, StoppedKnown, StaysStopped, StoppedAsKnown, RowBecomes, State, Desired, InWay, BootWanted, Wanted, Scope, Track, RollBack, TearDown, At
<1>19. ASSUME NEW r \in Requests, Remove(r) PROVE StaysStopped(u)'
  BY <1>19, RemoveLeads DEF Moved, Ended, Over, OthersStay, StoppedKnown, StaysStopped, StoppedAsKnown, RowBecomes, State, Desired, InWay, BootWanted, Wanted, Scope, Track, RollBack, TearDown, At
<1>20. ASSUME NEW r \in Requests, RemoveFails(r) PROVE StaysStopped(u)'
  BY <1>20, RemoveFailsLeads DEF Moved, Ended, Over, OthersStay, StoppedKnown, StaysStopped, StoppedAsKnown, RowBecomes, State, Desired, InWay, BootWanted, Wanted, Scope, Track, RollBack, TearDown, At
<1>21. ASSUME NEW r \in Requests, Drop(r) PROVE StaysStopped(u)'
  BY <1>21, DropLeads DEF Moved, Ended, Over, OthersStay, StoppedKnown, StaysStopped, StoppedAsKnown, RowBecomes, State, Desired, InWay, BootWanted, Wanted, Scope, Track, RollBack, TearDown, At
<1>22. ASSUME NEW t \in Tunnels, Die(t) PROVE StaysStopped(u)'
  BY <1>22 DEF Die, HandsApart, TypeOK, StoppedKnown, StaysStopped, StoppedAsKnown, RowBecomes, State, Desired, InWay, BootWanted, Wanted, Scope, Track, RollBack, TearDown, At
<1>23. ASSUME NEW t \in Tunnels, Rehydrate(t) PROVE StaysStopped(u)'
  BY <1>23 DEF Rehydrate, HandsApart, TypeOK, StoppedKnown, StaysStopped, StoppedAsKnown, RowBecomes, State, Desired, InWay, BootWanted, Wanted, Scope, Track, RollBack, TearDown, At
<1>24. ASSUME NEW t \in Tunnels, RehydrateFails(t) PROVE StaysStopped(u)'
  BY <1>24 DEF RehydrateFails, HandsApart, TypeOK, StoppedKnown, StaysStopped, StoppedAsKnown, RowBecomes, State, Desired, InWay, BootWanted, Wanted, Scope, Track, RollBack, At
<1>25. ASSUME Crash PROVE StaysStopped(u)'
  BY <1>25 DEF Crash, Idle, Wanted, StoppedKnown, StaysStopped, StoppedAsKnown, RowBecomes, State, Desired, InWay, BootWanted, Wanted, Scope, Track, RollBack, TearDown, At
<1>26. CASE UNCHANGED vars
  BY <1>26 DEF StoppedKnown, StaysStopped, StoppedAsKnown, RowBecomes, State, Desired, InWay, BootWanted, Wanted, Scope, Track, RollBack, TearDown, At
<1>27. QED BY <1>1, <1>2, <1>3, <1>4, <1>5, <1>6, <1>7, <1>8, <1>9, <1>10, <1>11, <1>12, <1>13, <1>14, <1>15, <1>16, <1>17, <1>18, <1>19, <1>20, <1>21, <1>22, <1>23, <1>24, <1>25, <1>26 DEF Next, Step

\* Every step keeps the port in one hand.
LEMMA PortKnownStep ==
  ASSUME TypeOK, InTheirWay, HandsApart, BootWanted, PortKnown, [Next]_vars
  PROVE  PortKnown'
<1>0. \A q \in Requests : InWay(req[q])
  BY DEF InTheirWay
<1> USE <1>0,  ApiAssumption, Apart, FieldsTyped DEF engine, history, bounds, vars
<1>1. ASSUME NEW r \in Requests, NEW t \in Tunnels, Create(r, t)
      PROVE  PortKnown'
  <2>1. Opened(r, "create", "start", "checking", t, FALSE, {t})
    BY <1>1, CreateLeads
  <2>2. ~raced' => ~raced /\ \A q \in Requests : req[q].stage = "idle"
    BY <2>1 DEF Opened, At
  <2>3. \A q \in Requests : ~raced' => PortFree(q)'
    BY <2>1, <2>2 DEF Opened, OthersStay, PortFree
  <2>4. \A u \in Tunnels : Holds(u)' <=> Holds(u)
    BY <2>1 DEF Opened, Holds
  <2>5. QED BY <2>2, <2>3, <2>4 DEF PortKnown
<1>2. ASSUME NEW r \in Requests, NEW t \in Tunnels, Delete(r, t)
      PROVE  PortKnown'
  <2>1. Opened(r, "delete", "stop", "finding", t, FALSE, {t})
    BY <1>2, DeleteLeads
  <2>2. ~raced' => ~raced /\ \A q \in Requests : req[q].stage = "idle"
    BY <2>1 DEF Opened, At
  <2>3. \A q \in Requests : ~raced' => PortFree(q)'
    BY <2>1, <2>2 DEF Opened, OthersStay, PortFree
  <2>4. \A u \in Tunnels : Holds(u)' <=> Holds(u)
    BY <2>1 DEF Opened, Holds
  <2>5. QED BY <2>2, <2>3, <2>4 DEF PortKnown
<1>3. ASSUME NEW r \in Requests, NEW t \in Tunnels, NEW action \in Actions, Action(r, t, action)
      PROVE  PortKnown'
  <2>1. Opened(r, "action", action, "finding", t, t \in tracked, {t})
    BY <1>3, ActionLeads
  <2>2. ~raced' => ~raced /\ \A q \in Requests : req[q].stage = "idle"
    BY <2>1 DEF Opened, At
  <2>3. \A q \in Requests : ~raced' => PortFree(q)'
    BY <2>1, <2>2 DEF Opened, OthersStay, PortFree
  <2>4. \A u \in Tunnels : Holds(u)' <=> Holds(u)
    BY <2>1 DEF Opened, Holds
  <2>5. QED BY <2>2, <2>3, <2>4 DEF PortKnown
<1>4. ASSUME NEW r \in Requests, NEW ts \in SUBSET Tunnels, NEW action \in Actions, Batch(r, ts, action)
      PROVE  PortKnown'
  <2>1. Opened(r, "batch", action, "listing", NoTunnel, FALSE, ts)
    BY <1>4, BatchLeads
  <2>2. ~raced' => ~raced /\ \A q \in Requests : req[q].stage = "idle"
    BY <2>1 DEF Opened, At
  <2>3. \A q \in Requests : ~raced' => PortFree(q)'
    BY <2>1, <2>2 DEF Opened, OthersStay, PortFree
  <2>4. \A u \in Tunnels : Holds(u)' <=> Holds(u)
    BY <2>1 DEF Opened, Holds
  <2>5. QED BY <2>2, <2>3, <2>4 DEF PortKnown
<1>5. ASSUME NEW r \in Requests, Find(r) PROVE PortKnown'
  BY <1>5, FindLeads DEF Moved, Ended, Over, OthersStay, PortKnown, PortFree, Holds, RowBecomes, Status, Desired, InWay, At
<1>6. ASSUME NEW r \in Requests, List(r) PROVE PortKnown'
  BY <1>6, ListLeads DEF Moved, Ended, Over, OthersStay, PortKnown, PortFree, Holds, RowBecomes, Status, Desired, InWay, At
<1>7. ASSUME NEW r \in Requests, Turn(r) PROVE PortKnown'
  BY <1>7, TurnLeads DEF Moved, Ended, Over, OthersStay, PortKnown, PortFree, Holds, RowBecomes, Status, Desired, InWay, At
<1>8. ASSUME NEW r \in Requests, BatchEnds(r) PROVE PortKnown'
  BY <1>8, BatchEndsLeads DEF Moved, Ended, Over, OthersStay, PortKnown, PortFree, Holds, RowBecomes, Status, Desired, InWay, At
<1>9. ASSUME NEW r \in Requests, CheckPort(r) PROVE PortKnown'
  <2>1. \A u \in Tunnels : Holds(u)' <=> Holds(u)
    BY <1>9, CheckPortLeads DEF Holds
  <2>2. \A q \in Requests \ {r} : PortFree(q) => PortFree(q)'
    BY <1>9, <2>1, CheckPortLeads DEF PortFree, Ended, Over, Moved, OthersStay
  <2>3. CASE Ended(r)
    BY <1>9, <2>1, <2>2, <2>3, CheckPortLeads DEF PortKnown, PortFree, Ended, Over
  <2>4. CASE ~Ended(r)
    <3>1. \A u \in Tunnels \ {req[r].t} : ~Holds(u)
      BY <1>9, <2>4, CheckPortLeads
    <3>2. req'[r].t = req[r].t
      BY <1>9, <2>4, CheckPortLeads DEF Moved
    <3>3. PortFree(r)'
      BY <2>1, <3>1, <3>2 DEF PortFree
    <3>4. QED BY <1>9, <2>1, <2>2, <3>3, CheckPortLeads DEF PortKnown
  <2>5. QED BY <2>3, <2>4
<1>10. ASSUME NEW r \in Requests, Insert(r) PROVE PortKnown'
  <2> SUFFICES ASSUME ~raced'
               PROVE  /\ \A t, u \in Tunnels : Holds(t)' /\ Holds(u)' => t = u
                      /\ \A q \in Requests : PortFree(q)'
    BY DEF PortKnown
  <2>1. ~raced /\ Moved(r, "loading") /\ req[r].stage = "inserting" /\ req[r].action = "start"
    BY <1>10, InsertLeads DEF InWay
  <2>2. \A q \in Requests \ {r} : req[q].stage = "idle"
    BY <2>1 DEF HandsApart, At
  <2>3. \A u \in Tunnels \ {req[r].t} : ~Holds(u)
    BY <2>1 DEF PortKnown, PortFree
  <2>4. \A u \in Tunnels \ {req[r].t} : ~Holds(u)'
    BY <1>10, <2>3, InsertLeads DEF RowBecomes, Holds
  <2>5. \A q \in Requests : PortFree(q)'
    BY <2>1, <2>2, <2>4 DEF PortFree, Moved, OthersStay
  <2>6. QED BY <2>4, <2>5
<1>11. ASSUME NEW r \in Requests, Load(r) PROVE PortKnown'
  BY <1>11, LoadLeads DEF Moved, Ended, Over, OthersStay, PortKnown, PortFree, Holds, RowBecomes, Status, Desired, InWay, At
<1>12. ASSUME NEW r \in Requests, Deploy(r) PROVE PortKnown'
  BY <1>12, DeployLeads DEF Moved, Ended, Over, OthersStay, PortKnown, PortFree, Holds, RowBecomes, Status, Desired, InWay, At
<1>13. ASSUME NEW r \in Requests, DeployFails(r) PROVE PortKnown'
  BY <1>13, DeployFailsLeads DEF Moved, Ended, Over, OthersStay, PortKnown, PortFree, Holds, RowBecomes, Status, Desired, InWay, At
<1>14. ASSUME NEW r \in Requests, FailCreate(r) PROVE PortKnown'
  BY <1>14, FailCreateLeads DEF Moved, Ended, Over, OthersStay, PortKnown, PortFree, Holds, RowBecomes, Status, Desired, InWay, At
<1>15. ASSUME NEW r \in Requests, Act(r) PROVE PortKnown'
  BY <1>15, ActLeads DEF Moved, Ended, Over, OthersStay, PortKnown, PortFree, Holds, RowBecomes, Status, Desired, InWay, At
<1>16. ASSUME NEW r \in Requests, ActFails(r) PROVE PortKnown'
  BY <1>16, ActFailsLeads DEF Moved, Ended, Over, OthersStay, PortKnown, PortFree, Holds, RowBecomes, Status, Desired, InWay, At
<1>17. ASSUME NEW r \in Requests, Ask(r) PROVE PortKnown'
  BY <1>17, AskLeads DEF Moved, Ended, Over, OthersStay, PortKnown, PortFree, Holds, RowBecomes, Status, Desired, InWay, At
<1>18. ASSUME NEW r \in Requests, Write(r) PROVE PortKnown'
  <2> SUFFICES ASSUME ~raced'
               PROVE  /\ \A t, u \in Tunnels : Holds(t)' /\ Holds(u)' => t = u
                      /\ \A q \in Requests : PortFree(q)'
    BY DEF PortKnown
  <2>1. ~raced /\ Ended(r) /\ req[r].stage = "writing" /\ req[r].kind # "delete"
    BY <1>18, WriteLeads DEF InWay
  <2>2. \A q \in Requests \ {r} : req[q].stage = "idle"
    BY <2>1 DEF HandsApart, At
  <2>3. \A q \in Requests : PortFree(q)'
    BY <2>1, <2>2 DEF PortFree, Ended, Over, OthersStay
  <2>4. \A u \in Tunnels \ {req[r].t} : Holds(u)' <=> Holds(u)
    BY <1>18, WriteLeads DEF RowBecomes, Holds
  <2>5. CASE req[r].action = "stop"
    <3>1. Status(req[r]) = "stopped"
      BY <2>5 DEF Status, Desired, InWay
    <3>2. \A u \in Tunnels : u = req[r].t => ~Holds(u)' \/ Holds(u)
      BY <1>18, <3>1, WriteLeads DEF RowBecomes, Holds
    <3>3. \A t, u \in Tunnels : Holds(t) /\ Holds(u) => t = u
      BY <2>1 DEF PortKnown
    <3>4. QED BY <2>3, <2>4, <3>2, <3>3
  <2>6. CASE req[r].action # "stop"
    <3>1. \A u \in Tunnels \ {req[r].t} : ~Holds(u)
      BY <2>1, <2>6 DEF PortKnown, PortFree
    <3>2. QED BY <2>3, <2>4, <3>1
  <2>7. QED BY <2>5, <2>6
<1>19. ASSUME NEW r \in Requests, Remove(r) PROVE PortKnown'
  BY <1>19, RemoveLeads DEF Moved, Ended, Over, OthersStay, PortKnown, PortFree, Holds, RowBecomes, Status, Desired, InWay, At
<1>20. ASSUME NEW r \in Requests, RemoveFails(r) PROVE PortKnown'
  BY <1>20, RemoveFailsLeads DEF Moved, Ended, Over, OthersStay, PortKnown, PortFree, Holds, RowBecomes, Status, Desired, InWay, At
<1>21. ASSUME NEW r \in Requests, Drop(r) PROVE PortKnown'
  BY <1>21, DropLeads DEF Moved, Ended, Over, OthersStay, PortKnown, PortFree, Holds, RowBecomes, Status, Desired, InWay, At
<1>22. ASSUME NEW t \in Tunnels, Die(t) PROVE PortKnown'
  BY <1>22 DEF Die, PortKnown, PortFree, Holds, RowBecomes, Status, Desired, InWay, At
<1>23. ASSUME NEW t \in Tunnels, Rehydrate(t) PROVE PortKnown'
  BY <1>23 DEF Rehydrate, PortKnown, PortFree, Holds, RowBecomes, Status, Desired, InWay, At
<1>24. ASSUME NEW t \in Tunnels, RehydrateFails(t) PROVE PortKnown'
  <2>1. \A u \in Tunnels : Holds(u)' <=> Holds(u)
    BY <1>24, RehydrateFailsLeads DEF RowBecomes, Holds
  <2>2. QED BY <1>24, <2>1, RehydrateFailsLeads DEF PortKnown, PortFree
<1>25. ASSUME Crash PROVE PortKnown'
  BY <1>25 DEF Crash, Idle, PortKnown, PortFree, Holds, RowBecomes, Status, Desired, InWay, At
<1>26. CASE UNCHANGED vars
  BY <1>26 DEF PortKnown, PortFree, Holds, RowBecomes, Status, Desired, InWay, At
<1>27. QED BY <1>1, <1>2, <1>3, <1>4, <1>5, <1>6, <1>7, <1>8, <1>9, <1>10, <1>11, <1>12, <1>13, <1>14, <1>15, <1>16, <1>17, <1>18, <1>19, <1>20, <1>21, <1>22, <1>23, <1>24, <1>25, <1>26 DEF Next, Step

-----------------------------------------------------------------------------
(* The theorems *)

\* Nothing is in hand, tracked or running at first.
LEMMA Initially ==
  ASSUME Init
  PROVE  IInv
<1> USE ApiAssumption DEF Init, Idle
<1>1. TypeOK
  <2>1. Idle \in ReqType
    BY DEF ReqType, Actions, States, Statuses
  <2>2. RowTyped /\ ReqTyped
    BY <2>1 DEF RowTyped, ReqTyped
  <2>3. raced \in BOOLEAN /\ survives \in BOOLEAN
    OBVIOUS
  <2>4. requests \in 0..MaxRequests /\ crashes \in 0..MaxCrashes
    OBVIOUS
  <2>5. RestTyped
    BY <2>3, <2>4 DEF RestTyped
  <2>6. QED BY <2>2, <2>5, TypeParts
<1>2. InTheirWay /\ HandsApart /\ UpKnown
  BY DEF InTheirWay, InWay, HandsApart, Scope, At, UpKnown
<1>3. KnowsTracked /\ KnowsRow /\ KnowsStopped
  BY DEF KnowsTracked, TrackedAsKnown, KnowsRow, RowAsKnown, KnowsStopped, StoppedAsKnown
<1>4. BootWanted /\ RunningKnown /\ StartingKnown /\ GhostKnown /\ StoppedKnown
  BY DEF BootWanted, RunningKnown, RunsAsKnown, StartingKnown, StartsAsKnown, GhostKnown, StoppedKnown
<1>5. PortKnown
  BY DEF PortKnown, PortFree, Holds
<1>6. QED BY <1>1, <1>2, <1>3, <1>4, <1>5 DEF IInv

\* The invariant holds throughout (apps/web/app/api/tunnels, instrumentation.ts).
THEOREM Invariance == Spec => []IInv
<1>1. Init => IInv
  BY Initially
<1>2. IInv /\ [Next]_vars => IInv'
  BY TypeStep, WayStep, HandsStep, UpStep, KnowsTrackedStep, KnowsRowStep, KnowsStoppedStep,
     BootWantedStep, RunningKnownStep, StartingKnownStep, GhostKnownStep, StoppedKnownStep,
     PortKnownStep DEF IInv
<1>3. QED BY <1>1, <1>2, PTL DEF Spec

\* Every variable keeps to its type.
THEOREM TypeCorrect == Spec => []TypeOK
<1>1. IInv => TypeOK
  BY DEF IInv
<1>2. QED BY <1>1, Invariance, PTL

\* A row that says running belongs to a tunnel the engine tracks, unless
\* requests on it overlapped (instrumentation.ts:30-43).
THEOREM RunningTracked == Spec => []RunningIsTracked
<1>1. IInv => RunningIsTracked
  <2> SUFFICES ASSUME IInv, NEW t \in Tunnels, t \notin mixed, Quiet(t),
                      row[t] # NoRow, row[t].state = "running"
               PROVE  t \in tracked
    BY DEF RunningIsTracked
  <2>1. boot = {} /\ \A r \in Requests : ~(At(r, "dropping") /\ req[r].t = t)
    BY DEF Quiet, Scope, At
  <2>2. QED BY <2>1 DEF IInv, RunningKnown, RunsAsKnown
<1>2. QED BY <1>1, Invariance, PTL

\* Only a creation in flight leaves a row that says starting, until the panel
\* dies in one (tunnels/route.ts:112-114).
THEOREM StartingCreates == Spec => []StartingIsCreating
<1>1. IInv => StartingIsCreating
  <2> SUFFICES ASSUME IInv, crashes = 0, NEW t \in Tunnels, t \notin mixed, Quiet(t), row[t] # NoRow
               PROVE  row[t].state # "starting" /\ row[t].status # "starting"
    BY DEF StartingIsCreating
  <2>1. \A r \in Requests : req[r].stage # "idle" => req[r].t # t
    BY DEF Quiet, Scope
  <2>2. QED BY <2>1 DEF IInv, StartingKnown, StartsAsKnown
<1>2. QED BY <1>1, Invariance, PTL

\* No process runs without a row, but for removals that failed, units of a
\* panel that died and overlapping requests (tunnels/[id]/route.ts:76-85).
THEOREM GhostFree == Spec => []NoGhost
<1>1. IInv => NoGhost
  BY DEF IInv, GhostKnown, NoGhost
<1>2. QED BY <1>1, Invariance, PTL

\* A stop that returned ok stays a stop, over restarts of the panel
\* (actions/route.ts, instrumentation.ts).
THEOREM StopKept == Spec => []StopIsKept
<1>1. IInv => StopIsKept
  BY DEF IInv, TypeOK, StoppedKnown, StaysStopped, StopIsKept
<1>2. QED BY <1>1, Invariance, PTL

\* When requests take turns, no two rows hold one port
\* (tunnels/route.ts:101-110, actions/route.ts:55-67).
THEOREM PortHeld == Spec => []PortHeldOnce
<1>1. IInv => PortHeldOnce
  <2> DEFINE H == {t \in Tunnels : Holds(t)}
  <2> SUFFICES ASSUME IInv, ~raced
               PROVE  Cardinality(H) <= 1
    BY DEF PortHeldOnce
  <2>1. \A t, u \in H : t = u
    BY DEF IInv, PortKnown
  <2>2. CASE H = {}
    BY <2>2, FS_EmptySet
  <2>3. CASE H # {}
    <3>1. PICK t \in H : TRUE
      BY <2>3
    <3>2. H = {t}
      BY <2>1, <3>1
    <3>3. QED BY <3>2, FS_Singleton
  <2>4. QED BY <2>2, <2>3
<1>2. QED BY <1>1, Invariance, PTL
=============================================================================
