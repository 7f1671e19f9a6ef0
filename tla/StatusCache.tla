----------------------------- MODULE StatusCache -----------------------------
(***************************************************************************)
(* What TunnelEngine.status() answers (packages/tunnel-core/src/engine.ts) *)
(* for one tunnel: a memo of the answer, a memo of processes found dead,   *)
(* probes that take time or never answer, processes that die, and the      *)
(* lifecycle operations, which clear both memos when they end.             *)
(*                                                                         *)
(* Time passes in ticks; every instant is kept as its age.  Left out: the  *)
(* reverse probe, 3x-ui tunnels, and the size limits of the memos, which   *)
(* one tunnel does not reach.                                              *)
(*                                                                         *)
(* The names of what QueryCache has as well differ from those there, so    *)
(* that Caches_proofs can extend both.                                     *)
(***************************************************************************)
EXTENDS Integers, FiniteSets

CONSTANTS
    Procs,          \* processes of the tunnel
    Callers,        \* concurrent calls of status()
    StatusTTL,      \* STATUS_CACHE_TTL
    ProcTTL,        \* PROCESS_RUNNING_CACHE_TTL
    ProbeTimeout    \* IS_RUNNING_TIMEOUT_MS

ASSUME StatusAssumption ==
    /\ IsFiniteSet(Procs) /\ Procs # {}
    /\ StatusTTL \in Nat \ {0} /\ ProcTTL \in Nat \ {0} /\ ProbeTimeout \in Nat \ {0}

\* How old an answer may be, at worst; ages beyond that are not told apart.
UpLimit == StatusTTL + ProbeTimeout
DownLimit == StatusTTL + ProcTTL + 2 * ProbeTimeout

VARIABLES
    tracked,    \* this.runtimes has the tunnel
    alive,      \* processes that run
    memo,       \* statusCache: the last status computed, or none
    memoAge,    \* its age
    deadAge,    \* processRunningCache: age of the `false` of each process; ProcTTL if expired
    call,       \* each call: idle, or what it knows of each process
    callAge,    \* time since the call began to probe
    op,         \* the lifecycle operation in progress
    todo,       \* processes it has still to start or stop
    given,      \* the answer this step gives, or none
    upAge,      \* history: time since each process was last alive
    downAge,    \* history: time since each process was last not alive
    wasUp,      \* history: processes alive at some time since the memos were last
                \* cleared; all of them, if a call was computing then
    wasDown     \* history: the same of processes not alive

memos == <<memo, memoAge, deadAge>>
history == <<upAge, downAge, wasUp, wasDown>>
statusVars == <<tracked, alive, memos, call, callAge, op, todo, given, history>>

Statuses == {"running", "degraded", "stopped"}
Idle == [p \in Procs |-> "idle"]

StatusTypeOK ==
    /\ tracked \in BOOLEAN /\ alive \in SUBSET Procs
    /\ memo \in Statuses \cup {"none"} /\ memoAge \in 0..StatusTTL
    /\ deadAge \in [Procs -> 0..ProcTTL]
    /\ call \in [Callers -> [Procs -> {"idle", "asked", "up", "down", "true", "false"}]]
    /\ callAge \in [Callers -> 0..ProbeTimeout]
    /\ op \in {"none", "start", "stop", "deploy", "remove"} /\ todo \in SUBSET Procs
    /\ given \in Statuses \cup {"none"}
    /\ upAge \in [Procs -> 0..UpLimit] /\ downAge \in [Procs -> 0..DownLimit]
    /\ wasUp \in SUBSET Procs /\ wasDown \in SUBSET Procs

StatusInit ==
    /\ tracked = TRUE /\ alive = Procs
    /\ memo = "none" /\ memoAge = StatusTTL /\ deadAge = [p \in Procs |-> ProcTTL]
    /\ call = [c \in Callers |-> Idle] /\ callAge = [c \in Callers |-> 0]
    /\ op = "none" /\ todo = {} /\ given = "none"
    /\ upAge = [p \in Procs |-> 0] /\ downAge = [p \in Procs |-> DownLimit]
    /\ wasUp = Procs /\ wasDown = {}

-----------------------------------------------------------------------------
(* Time and processes *)

Older(age, limit) == IF age < limit THEN age + 1 ELSE limit
Computing(c) == call[c] # Idle
Waits(c) == \E p \in Procs : call[c][p] \in {"asked", "up", "down"}

\* Probes without a timeout.
MutTick ==
    /\ memoAge' = Older(memoAge, StatusTTL)
    /\ memo' = IF memoAge' = StatusTTL THEN "none" ELSE memo
    /\ deadAge' = [p \in Procs |-> Older(deadAge[p], ProcTTL)]
    /\ upAge' = [p \in Procs |-> IF p \in alive THEN 0 ELSE Older(upAge[p], UpLimit)]
    /\ downAge' = [p \in Procs |-> IF p \in alive THEN Older(downAge[p], DownLimit) ELSE 0]
    /\ given' = "none"
    /\ UNCHANGED <<tracked, alive, call, callAge, op, todo, wasUp, wasDown>>

\* No probe waits longer than its timeout, and a finished call returns at once.
Tick ==
    /\ \A c \in Callers : Computing(c) => Waits(c) /\ callAge[c] < ProbeTimeout
    /\ memoAge' = Older(memoAge, StatusTTL)
    /\ memo' = IF memoAge' = StatusTTL THEN "none" ELSE memo
    /\ deadAge' = [p \in Procs |-> Older(deadAge[p], ProcTTL)]
    /\ callAge' = [c \in Callers |-> IF Computing(c) THEN callAge[c] + 1 ELSE 0]
    /\ upAge' = [p \in Procs |-> IF p \in alive THEN 0 ELSE Older(upAge[p], UpLimit)]
    /\ downAge' = [p \in Procs |-> IF p \in alive THEN Older(downAge[p], DownLimit) ELSE 0]
    /\ given' = "none"
    /\ UNCHANGED <<tracked, alive, call, op, todo, wasUp, wasDown>>

Give(status) == given' = status
Silent == given' = "none"

Becomes(now) ==
    /\ alive' = now
    /\ upAge' = [p \in Procs |-> IF p \in now THEN 0 ELSE upAge[p]]
    /\ downAge' = [p \in Procs |-> IF p \in now THEN downAge[p] ELSE 0]
    /\ wasUp' = wasUp \cup now
    /\ wasDown' = wasDown \cup (Procs \ now)

Die(p) ==
    /\ p \in alive
    /\ Becomes(alive \ {p})
    /\ Silent
    /\ UNCHANGED <<tracked, memos, call, callAge, op, todo>>

\* systemd, or the handle of a child, starts a process again.
Respawn(p) ==
    /\ p \notin alive /\ tracked
    /\ Becomes(alive \cup {p})
    /\ Silent
    /\ UNCHANGED <<tracked, memos, call, callAge, op, todo>>

-----------------------------------------------------------------------------
(* status() *)

\* The memo answers, or there is no runtime to compute a status of; that
\* answer is memoised, too.
Answer ==
    /\ IF memo # "none"
       THEN Give(memo) /\ UNCHANGED <<memo, memoAge>>
       ELSE ~tracked /\ Give("stopped") /\ memo' = "stopped" /\ memoAge' = 0
    /\ UNCHANGED <<tracked, alive, deadAge, call, callAge, op, todo, history>>

\* A recomputation that memoises the memoised answer again.
MutCompute(c) ==
    /\ ~Computing(c) /\ memo = "none" /\ tracked
    /\ call' = [call EXCEPT ![c] =
                    [p \in Procs |-> IF deadAge[p] < ProcTTL THEN "false" ELSE "asked"]]
    /\ deadAge' = [p \in Procs |-> IF deadAge[p] < ProcTTL THEN 0 ELSE ProcTTL]
    /\ Silent
    /\ UNCHANGED <<tracked, alive, memo, memoAge, callAge, op, todo, history>>

\* computeStatus() begins: processes in the memo of the dead are not asked.
Compute(c) ==
    /\ ~Computing(c) /\ memo = "none" /\ tracked
    /\ call' = [call EXCEPT ![c] =
                    [p \in Procs |-> IF deadAge[p] < ProcTTL THEN "false" ELSE "asked"]]
    /\ Silent
    /\ UNCHANGED <<tracked, alive, memos, callAge, op, todo, history>>

\* handle.isRunning() looks; its answer is still on the way.
Look(c, p) ==
    /\ call[c][p] = "asked"
    /\ call' = [call EXCEPT ![c][p] = IF p \in alive THEN "up" ELSE "down"]
    /\ Silent
    /\ UNCHANGED <<tracked, alive, memos, callAge, op, todo, history>>

\* The answer arrives: only a negative one is memoised.
Hear(c, p) ==
    /\ call[c][p] \in {"up", "down"}
    /\ LET running == call[c][p] = "up" IN
        /\ call' = [call EXCEPT ![c][p] = IF running THEN "true" ELSE "false"]
        /\ deadAge' = [deadAge EXCEPT ![p] = IF running THEN ProcTTL ELSE 0]
    /\ Silent
    /\ UNCHANGED <<tracked, alive, memo, memoAge, callAge, op, todo, history>>

\* A probe that fails, or does not answer in time, counts as not running; the
\* history takes it for a moment the process was down.
NoAnswer(c, p) ==
    /\ call[c][p] \in {"asked", "up", "down"}
    /\ call' = [call EXCEPT ![c][p] = "false"]
    /\ deadAge' = [deadAge EXCEPT ![p] = 0]
    /\ downAge' = [downAge EXCEPT ![p] = 0] /\ wasDown' = wasDown \cup {p}
    /\ Silent
    /\ UNCHANGED <<tracked, alive, memo, memoAge, callAge, op, todo, upAge, wasUp>>

Verdict(known) ==
    CASE \A p \in Procs : known[p] = "true"  -> "running"
      [] \A p \in Procs : known[p] = "false" -> "stopped"
      [] OTHER -> "degraded"

\* The status is memoised whatever has happened since the call began.
Computed(c) ==
    /\ Computing(c) /\ ~Waits(c)
    /\ memo' = Verdict(call[c]) /\ memoAge' = 0
    /\ Give(Verdict(call[c]))
    /\ call' = [call EXCEPT ![c] = Idle] /\ callAge' = [callAge EXCEPT ![c] = 0]
    /\ UNCHANGED <<tracked, alive, deadAge, op, todo, history>>

-----------------------------------------------------------------------------
(* Lifecycle operations, one at a time *)

BeginOperation(kind) ==
    /\ op = "none" /\ (kind = "deploy") # tracked
    /\ op' = kind /\ todo' = Procs
    /\ Silent
    /\ UNCHANGED <<tracked, alive, memos, call, callAge, history>>

Advance(p) ==
    /\ p \in todo /\ todo' = todo \ {p}
    /\ Becomes(IF op \in {"start", "deploy"} THEN alive \cup {p} ELSE alive \ {p})
    /\ Silent
    /\ UNCHANGED <<tracked, memos, call, callAge, op>>

\* An invalidation that leaves the memo of the dead alone.
MutInvalidateStatus ==
    /\ memo' = "none" /\ memoAge' = StatusTTL /\ UNCHANGED deadAge
    /\ LET spanned == \E c \in Callers : Computing(c) IN
        /\ wasUp' = IF spanned THEN Procs ELSE alive
        /\ wasDown' = IF spanned THEN Procs ELSE Procs \ alive

\* invalidateStatus(): both memos lose what they hold of the tunnel.
InvalidateStatus ==
    /\ memo' = "none" /\ memoAge' = StatusTTL /\ deadAge' = [p \in Procs |-> ProcTTL]
    /\ LET spanned == \E c \in Callers : Computing(c) IN
        /\ wasUp' = IF spanned THEN Procs ELSE alive
        /\ wasDown' = IF spanned THEN Procs ELSE Procs \ alive

End ==
    /\ op # "none" /\ todo = {}
    /\ tracked' = CASE op = "remove" -> FALSE [] op = "deploy" -> TRUE [] OTHER -> tracked
    /\ op' = "none"
    /\ InvalidateStatus /\ Silent
    /\ UNCHANGED <<alive, call, callAge, todo, upAge, downAge>>

\* The operation throws and clears nothing; a deploy has rolled back.
Fail ==
    /\ op # "none"
    /\ Becomes(IF op = "deploy" THEN {} ELSE alive)
    /\ op' = "none" /\ todo' = {}
    /\ Silent
    /\ UNCHANGED <<tracked, memos, call, callAge>>

StatusNext ==
    \/ Tick \/ Answer \/ End \/ Fail
    \/ \E p \in Procs : Die(p) \/ Respawn(p) \/ Advance(p)
    \/ \E kind \in {"start", "stop", "deploy", "remove"} : BeginOperation(kind)
    \/ \E c \in Callers : Compute(c) \/ Computed(c)
    \/ \E c \in Callers, p \in Procs : Look(c, p) \/ Hear(c, p) \/ NoAnswer(c, p)

StatusSpec == StatusInit /\ [][StatusNext]_statusVars

-----------------------------------------------------------------------------
(* Correctness *)

\* A tunnel reported running had every process alive within the life of the
\* memo and the time one probe may take: no interleaving of calls refreshes an
\* old positive answer (engine.ts:232-246, 735-760).
RunningIsRecent ==
    given = "running" => \A p \in Procs : upAge[p] < UpLimit

\* A tunnel not reported running had a process down, or one that did not
\* answer, within the lives of both memos and the time of two probes: a
\* negative answer is not refreshed for ever, either.
NotRunningIsRecent ==
    tracked /\ given \in {"stopped", "degraded"} =>
        \E p \in Procs : downAge[p] < DownLimit

\* Once a start, stop, deploy or remove has returned, an answer is about the
\* time after it, if no call was computing when it returned: `wasUp` and
\* `wasDown` leave out only those returns (engine.ts:204-206,
\* 580-596, 608-620).
FreshAfterOperation ==
    /\ given = "running" => wasUp = Procs
    /\ tracked /\ given \in {"stopped", "degraded"} => wasDown # {}
=============================================================================
