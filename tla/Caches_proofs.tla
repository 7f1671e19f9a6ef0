--------------------------- MODULE Caches_proofs ----------------------------
(***************************************************************************)
(* Proofs about StatusCache, for any processes, callers and times, and     *)
(* about QueryCache, for any keys, namespaces and bounds.  No definition   *)
(* of one model is used for the other.                                     *)
(*                                                                         *)
(* StatusCache: an answer is made of findings that a call, the memo of the *)
(* dead and the memo of the status have held in turn.  Each is no older    *)
(* than the process has been otherwise, plus the time it may have been     *)
(* held so far (UpKnown, DownKnown), and of the time since the memos were  *)
(* last cleared.                                                           *)
(*                                                                         *)
(* QueryCache: that readers see writes is not inductive alone: a           *)
(* computation keeps its generation when it is dropped, so one has to know *)
(* that a dropped computation is never current again (SingleFlight), for   *)
(* which the generations have to grow (GenerationsGrow).                   *)
(***************************************************************************)
EXTENDS StatusCache, QueryCache, FiniteSetTheorems, TLAPS

-----------------------------------------------------------------------------
(* The inductive invariant *)

\* A call asks after every process; a memo past its life is no memo.
Ages ==
    /\ \A c \in Callers : Computing(c) => \A p \in Procs : call[c][p] # "idle"
    /\ memo # "none" => memoAge < StatusTTL

\* Whatever says that a process is up is no older than the process has been
\* down, and is of the time since the memos were cleared.
UpKnown ==
    /\ \A p \in alive : upAge[p] = 0 /\ p \in wasUp
    /\ \A c \in Callers, p \in Procs : call[c][p] \in {"up", "true"} =>
        upAge[p] <= callAge[c] /\ p \in wasUp
    /\ memo = "running" => \A p \in Procs :
        upAge[p] <= memoAge + ProbeTimeout /\ p \in wasUp

\* The same of what says that it is down, with the time that the memo of the dead
\* adds.
DownKnown ==
    /\ \A p \in Procs \ alive : downAge[p] = 0 /\ p \in wasDown
    /\ \A p \in Procs : deadAge[p] < ProcTTL =>
        downAge[p] <= deadAge[p] + ProbeTimeout /\ p \in wasDown
    /\ \A c \in Callers, p \in Procs :
        /\ call[c][p] = "down" => downAge[p] <= callAge[c] /\ p \in wasDown
        /\ call[c][p] = "false" =>
            downAge[p] < ProcTTL + ProbeTimeout + callAge[c] /\ p \in wasDown
    /\ tracked /\ memo \in {"stopped", "degraded"} => \E p \in Procs :
        downAge[p] < memoAge + ProcTTL + 2 * ProbeTimeout /\ p \in wasDown

StatusIInv ==
    /\ StatusTypeOK /\ Ages /\ UpKnown /\ DownKnown
    /\ RunningIsRecent /\ NotRunningIsRecent /\ FreshAfterOperation

-----------------------------------------------------------------------------
(* It holds, and every step keeps it *)

\* It holds as the tunnel has been deployed.
LEMMA StatusInitInvariant == StatusInit => StatusIInv
<1> SUFFICES ASSUME StatusInit PROVE StatusIInv
  OBVIOUS
<1> USE StatusAssumption DEF StatusInit
<1>1. StatusTypeOK
  BY DEF StatusTypeOK, Idle, Statuses, UpLimit, DownLimit
<1>2. Ages /\ UpKnown /\ DownKnown
  BY DEF Ages, UpKnown, DownKnown, Computing, Idle
<1>3. RunningIsRecent /\ NotRunningIsRecent /\ FreshAfterOperation
  BY DEF RunningIsRecent, NotRunningIsRecent, FreshAfterOperation
<1>4. QED BY <1>1, <1>2, <1>3 DEF StatusIInv

\* Every step keeps the types.
LEMMA StatusTypeStep ==
  ASSUME StatusTypeOK, [StatusNext]_statusVars
  PROVE  StatusTypeOK'
<1> USE StatusAssumption DEF memos, history, Silent, Give
<1>1. ASSUME Tick PROVE StatusTypeOK'
  BY <1>1 DEF Tick, StatusTypeOK, Statuses, Older, Idle, UpLimit, DownLimit, Computing, Waits
<1>2. ASSUME Answer PROVE StatusTypeOK'
  BY <1>2 DEF Answer, StatusTypeOK, Statuses, UpLimit, DownLimit
<1>3. ASSUME End PROVE StatusTypeOK'
  <2>1. tracked' \in BOOLEAN
    <3>1. tracked' \in {TRUE, FALSE, tracked}
      BY <1>3, Zenon DEF End
    <3>2. QED BY <3>1 DEF StatusTypeOK
  <2>2. UNCHANGED <<alive, call, callAge, todo, upAge, downAge>> /\ op' = "none" /\ given' = "none"
    BY <1>3 DEF End
  <2>3. /\ memo' = "none" /\ memoAge' = StatusTTL /\ deadAge' = [p \in Procs |-> ProcTTL]
        /\ wasUp' \in SUBSET Procs /\ wasDown' \in SUBSET Procs
    BY <1>3 DEF End, InvalidateStatus, StatusTypeOK
  <2>4. QED BY <2>1, <2>2, <2>3 DEF StatusTypeOK, Statuses
<1>4. ASSUME Fail PROVE StatusTypeOK'
  BY <1>4 DEF Fail, Becomes, StatusTypeOK, Statuses, UpLimit, DownLimit
<1>5. ASSUME NEW p \in Procs, Die(p) PROVE StatusTypeOK'
  BY <1>5 DEF Die, Becomes, StatusTypeOK, Statuses, UpLimit, DownLimit
<1>6. ASSUME NEW p \in Procs, Respawn(p) PROVE StatusTypeOK'
  BY <1>6 DEF Respawn, Becomes, StatusTypeOK, Statuses, UpLimit, DownLimit
<1>7. ASSUME NEW p \in Procs, Advance(p) PROVE StatusTypeOK'
  BY <1>7 DEF Advance, Becomes, StatusTypeOK, Statuses, UpLimit, DownLimit
<1>8. ASSUME NEW kind \in {"start", "stop", "deploy", "remove"}, BeginOperation(kind) PROVE StatusTypeOK'
  BY <1>8 DEF BeginOperation, StatusTypeOK, Statuses, UpLimit, DownLimit
<1>9. ASSUME NEW c \in Callers, Compute(c) PROVE StatusTypeOK'
  BY <1>9 DEF Compute, StatusTypeOK, Statuses, Idle, UpLimit, DownLimit, Computing
<1>10. ASSUME NEW c \in Callers, Computed(c) PROVE StatusTypeOK'
  BY <1>10 DEF Computed, StatusTypeOK, Statuses, Idle, UpLimit, DownLimit, Computing, Waits, Verdict
<1>11. ASSUME NEW c \in Callers, NEW p \in Procs, Look(c, p) PROVE StatusTypeOK'
  BY <1>11 DEF Look, StatusTypeOK, Statuses, UpLimit, DownLimit
<1>12. ASSUME NEW c \in Callers, NEW p \in Procs, Hear(c, p) PROVE StatusTypeOK'
  BY <1>12 DEF Hear, StatusTypeOK, Statuses, UpLimit, DownLimit
<1>13. ASSUME NEW c \in Callers, NEW p \in Procs, NoAnswer(c, p) PROVE StatusTypeOK'
  BY <1>13 DEF NoAnswer, StatusTypeOK, Statuses, UpLimit, DownLimit
<1>14. CASE UNCHANGED statusVars
  BY <1>14 DEF statusVars, StatusTypeOK, Statuses, UpLimit, DownLimit
<1>15. QED BY <1>1, <1>2, <1>3, <1>4, <1>5, <1>6, <1>7, <1>8, <1>9, <1>10, <1>11, <1>12, <1>13, <1>14 DEF StatusNext

\* Every step keeps calls complete and memos young.
LEMMA AgesStep ==
  ASSUME StatusTypeOK, Ages, [StatusNext]_statusVars
  PROVE  Ages'
<1> USE StatusAssumption DEF memos, history, Silent, Give
<1>1. ASSUME Tick PROVE Ages'
  BY <1>1 DEF Tick, StatusTypeOK, Ages, Computing, Idle, Older
<1>2. ASSUME Answer PROVE Ages'
  BY <1>2 DEF Answer, StatusTypeOK, Ages, Computing, Idle
<1>3. ASSUME End PROVE Ages'
  BY <1>3 DEF End, InvalidateStatus, StatusTypeOK, Ages, Computing, Idle
<1>4. ASSUME Fail PROVE Ages'
  BY <1>4 DEF Fail, Becomes, StatusTypeOK, Ages, Computing, Idle
<1>5. ASSUME NEW p \in Procs, Die(p) PROVE Ages'
  BY <1>5 DEF Die, Becomes, StatusTypeOK, Ages, Computing, Idle
<1>6. ASSUME NEW p \in Procs, Respawn(p) PROVE Ages'
  BY <1>6 DEF Respawn, Becomes, StatusTypeOK, Ages, Computing, Idle
<1>7. ASSUME NEW p \in Procs, Advance(p) PROVE Ages'
  BY <1>7 DEF Advance, Becomes, StatusTypeOK, Ages, Computing, Idle
<1>8. ASSUME NEW kind \in {"start", "stop", "deploy", "remove"}, BeginOperation(kind) PROVE Ages'
  BY <1>8 DEF BeginOperation, StatusTypeOK, Ages, Computing, Idle
<1>9. ASSUME NEW c \in Callers, Compute(c) PROVE Ages'
  BY <1>9 DEF Compute, StatusTypeOK, Ages, Computing, Idle
<1>10. ASSUME NEW c \in Callers, Computed(c) PROVE Ages'
  BY <1>10 DEF Computed, StatusTypeOK, Ages, Computing, Idle, Verdict
<1>11. ASSUME NEW c \in Callers, NEW p \in Procs, Look(c, p) PROVE Ages'
  BY <1>11 DEF Look, StatusTypeOK, Ages, Computing, Idle
<1>12. ASSUME NEW c \in Callers, NEW p \in Procs, Hear(c, p) PROVE Ages'
  BY <1>12 DEF Hear, StatusTypeOK, Ages, Computing, Idle
<1>13. ASSUME NEW c \in Callers, NEW p \in Procs, NoAnswer(c, p) PROVE Ages'
  BY <1>13 DEF NoAnswer, StatusTypeOK, Ages, Computing, Idle
<1>14. CASE UNCHANGED statusVars
  BY <1>14 DEF statusVars, StatusTypeOK, Ages, Computing, Idle
<1>15. QED BY <1>1, <1>2, <1>3, <1>4, <1>5, <1>6, <1>7, <1>8, <1>9, <1>10, <1>11, <1>12, <1>13, <1>14 DEF StatusNext

\* Every step keeps what says that a process is up.
LEMMA UpStep ==
  ASSUME StatusTypeOK, Ages, UpKnown, [StatusNext]_statusVars
  PROVE  UpKnown'
<1> USE StatusAssumption DEF memos, history, Silent, Give
<1>1. ASSUME Tick PROVE UpKnown'
  BY <1>1 DEF Tick, StatusTypeOK, Ages, UpKnown, Computing, Idle, Older, UpLimit
<1>2. ASSUME Answer PROVE UpKnown'
  BY <1>2 DEF Answer, StatusTypeOK, Ages, UpKnown, Computing, Idle, UpLimit
<1>3. ASSUME End PROVE UpKnown'
  BY <1>3 DEF End, InvalidateStatus, StatusTypeOK, Ages, UpKnown, Computing, Idle, UpLimit
<1>4. ASSUME Fail PROVE UpKnown'
  BY <1>4 DEF Fail, Becomes, StatusTypeOK, Ages, UpKnown, Computing, Idle, UpLimit
<1>5. ASSUME NEW p \in Procs, Die(p) PROVE UpKnown'
  BY <1>5 DEF Die, Becomes, StatusTypeOK, Ages, UpKnown, Computing, Idle, UpLimit
<1>6. ASSUME NEW p \in Procs, Respawn(p) PROVE UpKnown'
  BY <1>6 DEF Respawn, Becomes, StatusTypeOK, Ages, UpKnown, Computing, Idle, UpLimit
<1>7. ASSUME NEW p \in Procs, Advance(p) PROVE UpKnown'
  BY <1>7 DEF Advance, Becomes, StatusTypeOK, Ages, UpKnown, Computing, Idle, UpLimit
<1>8. ASSUME NEW kind \in {"start", "stop", "deploy", "remove"}, BeginOperation(kind) PROVE UpKnown'
  BY <1>8 DEF BeginOperation, StatusTypeOK, Ages, UpKnown, Computing, Idle, UpLimit
<1>9. ASSUME NEW c \in Callers, Compute(c) PROVE UpKnown'
  BY <1>9 DEF Compute, StatusTypeOK, Ages, UpKnown, Computing, Idle, UpLimit
<1>10. ASSUME NEW c \in Callers, Computed(c) PROVE UpKnown'
  BY <1>10 DEF Computed, StatusTypeOK, Ages, UpKnown, Computing, Idle, Verdict, UpLimit
<1>11. ASSUME NEW c \in Callers, NEW p \in Procs, Look(c, p) PROVE UpKnown'
  BY <1>11 DEF Look, StatusTypeOK, Ages, UpKnown, Computing, Idle, UpLimit
<1>12. ASSUME NEW c \in Callers, NEW p \in Procs, Hear(c, p) PROVE UpKnown'
  BY <1>12 DEF Hear, StatusTypeOK, Ages, UpKnown, Computing, Idle, UpLimit
<1>13. ASSUME NEW c \in Callers, NEW p \in Procs, NoAnswer(c, p) PROVE UpKnown'
  BY <1>13 DEF NoAnswer, StatusTypeOK, Ages, UpKnown, Computing, Idle, UpLimit
<1>14. CASE UNCHANGED statusVars
  BY <1>14 DEF statusVars, StatusTypeOK, Ages, UpKnown, Computing, Idle, UpLimit
<1>15. QED BY <1>1, <1>2, <1>3, <1>4, <1>5, <1>6, <1>7, <1>8, <1>9, <1>10, <1>11, <1>12, <1>13, <1>14 DEF StatusNext

\* Every step keeps what says that a process is down.
LEMMA DownStep ==
  ASSUME StatusTypeOK, Ages, DownKnown, [StatusNext]_statusVars
  PROVE  DownKnown'
<1> USE StatusAssumption DEF memos, history, Silent, Give
<1>1. ASSUME Tick PROVE DownKnown'
  BY <1>1 DEF Tick, StatusTypeOK, Ages, DownKnown, Computing, Idle, Older, DownLimit, Waits
<1>2. ASSUME Answer PROVE DownKnown'
  BY <1>2 DEF Answer, StatusTypeOK, Ages, DownKnown, Computing, Idle, DownLimit
<1>3. ASSUME End PROVE DownKnown'
  BY <1>3 DEF End, InvalidateStatus, StatusTypeOK, Ages, DownKnown, Computing, Idle, DownLimit
<1>4. ASSUME Fail PROVE DownKnown'
  BY <1>4 DEF Fail, Becomes, StatusTypeOK, Ages, DownKnown, Computing, Idle, DownLimit
<1>5. ASSUME NEW p \in Procs, Die(p) PROVE DownKnown'
  BY <1>5 DEF Die, Becomes, StatusTypeOK, Ages, DownKnown, Computing, Idle, DownLimit
<1>6. ASSUME NEW p \in Procs, Respawn(p) PROVE DownKnown'
  BY <1>6 DEF Respawn, Becomes, StatusTypeOK, Ages, DownKnown, Computing, Idle, DownLimit
<1>7. ASSUME NEW p \in Procs, Advance(p) PROVE DownKnown'
  BY <1>7 DEF Advance, Becomes, StatusTypeOK, Ages, DownKnown, Computing, Idle, DownLimit
<1>8. ASSUME NEW kind \in {"start", "stop", "deploy", "remove"}, BeginOperation(kind) PROVE DownKnown'
  BY <1>8 DEF BeginOperation, StatusTypeOK, Ages, DownKnown, Computing, Idle, DownLimit
<1>9. ASSUME NEW c \in Callers, Compute(c) PROVE DownKnown'
  BY <1>9 DEF Compute, StatusTypeOK, Ages, DownKnown, Computing, Idle, DownLimit
<1>10. ASSUME NEW c \in Callers, Computed(c) PROVE DownKnown'
  BY <1>10 DEF Computed, StatusTypeOK, Ages, DownKnown, Computing, Idle, Verdict, DownLimit, Waits
<1>11. ASSUME NEW c \in Callers, NEW p \in Procs, Look(c, p) PROVE DownKnown'
  BY <1>11 DEF Look, StatusTypeOK, Ages, DownKnown, Computing, Idle, DownLimit
<1>12. ASSUME NEW c \in Callers, NEW p \in Procs, Hear(c, p) PROVE DownKnown'
  BY <1>12 DEF Hear, StatusTypeOK, Ages, DownKnown, Computing, Idle, DownLimit
<1>13. ASSUME NEW c \in Callers, NEW p \in Procs, NoAnswer(c, p) PROVE DownKnown'
  BY <1>13 DEF NoAnswer, StatusTypeOK, Ages, DownKnown, Computing, Idle, DownLimit
<1>14. CASE UNCHANGED statusVars
  BY <1>14 DEF statusVars, StatusTypeOK, Ages, DownKnown, Computing, Idle, DownLimit
<1>15. QED BY <1>1, <1>2, <1>3, <1>4, <1>5, <1>6, <1>7, <1>8, <1>9, <1>10, <1>11, <1>12, <1>13, <1>14 DEF StatusNext

\* What the runs check of an answer.
AnswersTrue == RunningIsRecent /\ NotRunningIsRecent /\ FreshAfterOperation

\* An answer is recent, and of the time since the memos were cleared.
LEMMA GivenStep ==
  ASSUME StatusTypeOK, Ages, UpKnown, DownKnown, AnswersTrue, [StatusNext]_statusVars
  PROVE  AnswersTrue'
<1> USE StatusAssumption DEF memos, history, Silent, Give
<1>1. ASSUME Tick PROVE AnswersTrue'
  BY <1>1 DEF Tick, AnswersTrue, RunningIsRecent, NotRunningIsRecent, FreshAfterOperation
<1>2. ASSUME Answer PROVE AnswersTrue'
  <2>1. CASE memo = "none"
    <3>1. given' = "stopped" /\ ~tracked'
      BY <1>2, <2>1 DEF Answer
    <3>2. QED BY <3>1 DEF AnswersTrue, RunningIsRecent, NotRunningIsRecent, FreshAfterOperation
  <2>2. CASE memo # "none"
    <3>1. given' = memo /\ UNCHANGED <<tracked, upAge, downAge, wasUp, wasDown>>
      BY <1>2, <2>2 DEF Answer
    <3>2. memoAge \in 0..(StatusTTL - 1)
      BY <2>2 DEF Ages, StatusTypeOK
    <3>3. (RunningIsRecent /\ NotRunningIsRecent)'
      BY <3>1, <3>2 DEF UpKnown, DownKnown, RunningIsRecent, NotRunningIsRecent, UpLimit, DownLimit, StatusTypeOK
    <3>4. FreshAfterOperation'
      BY <3>1 DEF UpKnown, DownKnown, FreshAfterOperation, StatusTypeOK
    <3>5. QED BY <3>3, <3>4 DEF AnswersTrue
  <2>3. QED BY <2>1, <2>2
<1>3. ASSUME End PROVE AnswersTrue'
  BY <1>3 DEF End, InvalidateStatus, AnswersTrue, RunningIsRecent, NotRunningIsRecent, FreshAfterOperation
<1>4. ASSUME Fail PROVE AnswersTrue'
  BY <1>4 DEF Fail, Becomes, AnswersTrue, RunningIsRecent, NotRunningIsRecent, FreshAfterOperation
<1>5. ASSUME NEW p \in Procs, Die(p) PROVE AnswersTrue'
  BY <1>5 DEF Die, Becomes, AnswersTrue, RunningIsRecent, NotRunningIsRecent, FreshAfterOperation
<1>6. ASSUME NEW p \in Procs, Respawn(p) PROVE AnswersTrue'
  BY <1>6 DEF Respawn, Becomes, AnswersTrue, RunningIsRecent, NotRunningIsRecent, FreshAfterOperation
<1>7. ASSUME NEW p \in Procs, Advance(p) PROVE AnswersTrue'
  BY <1>7 DEF Advance, Becomes, AnswersTrue, RunningIsRecent, NotRunningIsRecent, FreshAfterOperation
<1>8. ASSUME NEW kind \in {"start", "stop", "deploy", "remove"}, BeginOperation(kind) PROVE AnswersTrue'
  BY <1>8 DEF BeginOperation, AnswersTrue, RunningIsRecent, NotRunningIsRecent, FreshAfterOperation
<1>9. ASSUME NEW c \in Callers, Compute(c) PROVE AnswersTrue'
  BY <1>9 DEF Compute, AnswersTrue, RunningIsRecent, NotRunningIsRecent, FreshAfterOperation
<1>10. ASSUME NEW c \in Callers, Computed(c) PROVE AnswersTrue'
  <2>1. given' = Verdict(call[c]) /\ UNCHANGED <<tracked, upAge, downAge, wasUp, wasDown>>
    BY <1>10 DEF Computed
  <2>2. \A p \in Procs : call[c][p] \in {"true", "false"}
    BY <1>10 DEF Computed, Ages, Waits, StatusTypeOK
  <2>3. callAge[c] \in 0..ProbeTimeout
    BY DEF StatusTypeOK
  <2>4. CASE \A p \in Procs : call[c][p] = "true"
    <3>1. given' = "running"
      BY <2>1, <2>4 DEF Verdict
    <3>2. \A p \in Procs : upAge[p] \in Nat /\ upAge[p] <= callAge[c] /\ p \in wasUp
      BY <2>4 DEF UpKnown, StatusTypeOK
    <3>3. QED
      BY <2>1, <2>3, <3>1, <3>2
      DEF AnswersTrue, RunningIsRecent, NotRunningIsRecent, FreshAfterOperation, UpLimit, StatusTypeOK
  <2>5. CASE ~ \A p \in Procs : call[c][p] = "true"
    <3>1. given' # "running"
      BY <2>1, <2>5 DEF Verdict
    <3>2. PICK p \in Procs : call[c][p] = "false"
      BY <2>2, <2>5
    <3>3. downAge[p] \in Nat /\ downAge[p] < ProcTTL + ProbeTimeout + callAge[c] /\ p \in wasDown
      BY <3>2 DEF DownKnown, StatusTypeOK
    <3>4. downAge[p] < DownLimit
      BY <2>3, <3>3 DEF DownLimit
    <3>5. QED
      BY <2>1, <3>1, <3>3, <3>4
      DEF AnswersTrue, RunningIsRecent, NotRunningIsRecent, FreshAfterOperation
  <2>6. QED BY <2>4, <2>5
<1>11. ASSUME NEW c \in Callers, NEW p \in Procs, Look(c, p) PROVE AnswersTrue'
  BY <1>11 DEF Look, AnswersTrue, RunningIsRecent, NotRunningIsRecent, FreshAfterOperation
<1>12. ASSUME NEW c \in Callers, NEW p \in Procs, Hear(c, p) PROVE AnswersTrue'
  BY <1>12 DEF Hear, AnswersTrue, RunningIsRecent, NotRunningIsRecent, FreshAfterOperation
<1>13. ASSUME NEW c \in Callers, NEW p \in Procs, NoAnswer(c, p) PROVE AnswersTrue'
  BY <1>13 DEF NoAnswer, AnswersTrue, RunningIsRecent, NotRunningIsRecent, FreshAfterOperation
<1>14. CASE UNCHANGED statusVars
  BY <1>14 DEF statusVars, AnswersTrue, RunningIsRecent, NotRunningIsRecent, FreshAfterOperation
<1>15. QED BY <1>1, <1>2, <1>3, <1>4, <1>5, <1>6, <1>7, <1>8, <1>9, <1>10, <1>11, <1>12, <1>13, <1>14 DEF StatusNext

\* Every step keeps the invariant.
LEMMA StatusStepInvariant == StatusIInv /\ [StatusNext]_statusVars => StatusIInv'
  BY StatusTypeStep, AgesStep, UpStep, DownStep, GivenStep DEF StatusIInv, AnswersTrue

-----------------------------------------------------------------------------
(* The theorems *)

\* The inductive invariant holds in every reachable state, however calls,
\* probes, deaths and operations interleave (status() and computeStatus(),
\* engine.ts:601-620, 735-840).
THEOREM StatusInvariance == StatusSpec => []StatusIInv
  BY StatusInitInvariant, StatusStepInvariant, PTL DEF StatusSpec

\* Every reachable state of the memos and the calls is of its type.
THEOREM StatusTypeCorrect == StatusSpec => []StatusTypeOK
  BY StatusInvariance, PTL DEF StatusIInv

\* "Running" is no older than the life of the memo and one probe.
THEOREM RunningRecent == StatusSpec => []RunningIsRecent
  BY StatusInvariance, PTL DEF StatusIInv

\* An answer other than "running" is no older than the lives of both memos and
\* two probes.
THEOREM NotRunningRecent == StatusSpec => []NotRunningIsRecent
  BY StatusInvariance, PTL DEF StatusIInv

\* An answer is about the time since the last operation returned, if no call was
\* computing when it did.
THEOREM AnswersFresh == StatusSpec => []FreshAfterOperation
  BY StatusInvariance, PTL DEF StatusIInv

-----------------------------------------------------------------------------
(* The query cache: the inductive invariant *)

\* No computation is of a generation yet to come.
GenerationsGrow ==
    ~blown => \A i \in Comps : Running(i) => comp[i].gen <= generation[comp[i].key]

\* No invalidation is of a version yet to come.
FloorReached == \A k \in Keys : floor[k] <= version

QueryIInv == TypeOK /\ GenerationsGrow /\ SingleFlight /\ FloorReached /\ ReadersSeeWrites

-----------------------------------------------------------------------------

\* The cache starts empty, in a state of the inductive invariant.
LEMMA QueryInitInvariant == Init => QueryIInv
<1> SUFFICES ASSUME Init PROVE QueryIInv
    OBVIOUS
<1> USE CacheAssumption
<1>0. blown \in BOOLEAN
    BY DEF Init
<1>1. TypeOK
    BY <1>0, 0 \in 0..MaxVersion, 0 \in 0..MaxGeneration DEF Init, TypeOK, Versions
<1>2. \A i \in Comps : ~Running(i)
    BY DEF Init, Running
<1>3. GenerationsGrow
    BY <1>2 DEF GenerationsGrow
<1>4. SingleFlight
    BY <1>2 DEF Init, SingleFlight
<1>5. FloorReached /\ ReadersSeeWrites
    BY DEF Init, FloorReached, ReadersSeeWrites, ReadsCurrent
<1>6. QED
    BY <1>1, <1>3, <1>4, <1>5 DEF QueryIInv

\* Every step keeps the types.
LEMMA QueryTypeStep == TypeOK /\ [Next]_vars => TypeOK'
<1> SUFFICES ASSUME TypeOK, [Next]_vars PROVE TypeOK'
    OBVIOUS
<1> USE CacheAssumption DEF TypeOK, Versions, Job
<1>1. CASE Write
    BY <1>1 DEF Write
<1>2. ASSUME NEW k \in Keys, Expire(k) PROVE TypeOK'
    BY <1>2 DEF Expire
<1>3. ASSUME NEW k \in Keys, NEW i \in Comps, Begin(k, i) PROVE TypeOK'
    BY <1>3 DEF Begin, NewJob
<1>4. ASSUME NEW i \in Comps, Query(i) PROVE TypeOK'
    BY <1>4 DEF Query, Running
<1>5. ASSUME NEW i \in Comps, Resolve(i) PROVE TypeOK'
  <2>1. comp[i] \in Job
    BY <1>5 DEF Resolve, Running
  <2>2. comp' \in [Comps -> Job \cup {None}] /\ inflight' \in [Keys -> Comps \cup {None}]
    BY <1>5, <2>1 DEF Resolve, Settles
  <2>3. store' \in [Keys -> Versions \cup {None}] /\ fresh' \in SUBSET Keys
    BY <1>5, <2>1 DEF Resolve, StoreEntry, Stored
  <2>4. QED
    BY <1>5, <2>2, <2>3 DEF Resolve
<1>6. ASSUME NEW i \in Comps, Reject(i) PROVE TypeOK'
    BY <1>6 DEF Reject, Settles, Running
<1>7. ASSUME NEW ns \in Namespaces, Invalidate(ns) PROVE TypeOK'
  <2>1. generation' \in [Keys -> 0..MaxGeneration]
    BY <1>7 DEF Invalidate
  <2>2. QED
    BY <1>7, <2>1 DEF Invalidate, DropInflight
<1>8. CASE InvalidateAll
  <2>1. blown' \in BOOLEAN
    BY <1>8, Zenon DEF InvalidateAll
  <2>2. QED
    BY <1>8, <2>1 DEF InvalidateAll
<1>9. CASE UNCHANGED vars
    BY <1>9 DEF vars
<1>10. QED
    BY <1>1, <1>2, <1>3, <1>4, <1>5, <1>6, <1>7, <1>8, <1>9 DEF Next

-----------------------------------------------------------------------------

\* An invalidation takes the version of its moment, which only grows.
LEMMA FloorStep == TypeOK /\ FloorReached /\ [Next]_vars => FloorReached'
<1> SUFFICES ASSUME TypeOK, FloorReached, [Next]_vars PROVE FloorReached'
    OBVIOUS
<1> USE CacheAssumption DEF FloorReached, TypeOK, Versions
<1>1. CASE Write
    BY <1>1 DEF Write
<1>2. CASE InvalidateAll
    BY <1>2 DEF InvalidateAll
<1>3. ASSUME NEW ns \in Namespaces, Invalidate(ns) PROVE FloorReached'
    BY <1>3 DEF Invalidate
<1>4. CASE UNCHANGED <<version, floor>>
    BY <1>4
<1>5. QED
    BY <1>1, <1>2, <1>3, <1>4 DEF Next, vars, Expire, Begin, Query, Resolve, Reject

\* Every step keeps exactly the joinable computation of a key current.
LEMMA FlightStep ==
    TypeOK /\ GenerationsGrow /\ SingleFlight /\ [Next]_vars
        => GenerationsGrow' /\ SingleFlight'
<1> SUFFICES ASSUME TypeOK, GenerationsGrow, SingleFlight, [Next]_vars, ~blown'
             PROVE  GenerationsGrow' /\ SingleFlight'
    BY DEF GenerationsGrow, SingleFlight
<1> DEFINE Grow(i) == Running(i) => comp[i].gen <= generation[comp[i].key]
           Flight(i) == \A k \in Keys :
                inflight[k] = i <=> Running(i) /\ comp[i].key = k /\ Current(i)
<1>0. ~blown
    BY DEF Next, vars, Write, InvalidateAll, Expire, Begin, Query, Resolve, Reject, Invalidate
<1>h. \A i \in Comps : Grow(i) /\ Flight(i)
    BY <1>0 DEF GenerationsGrow, SingleFlight
<1>t. \A i \in Comps : Running(i) => comp[i] \in Job
    BY DEF TypeOK, Running
<1> SUFFICES ASSUME NEW i \in Comps PROVE Grow(i)' /\ Flight(i)'
    BY DEF GenerationsGrow, SingleFlight
<1> USE CacheAssumption DEF Running, Current, Job
<1>1. CASE UNCHANGED <<inflight, generation, comp>>
    BY <1>1, <1>h
<1>2. ASSUME NEW l \in Keys, NEW j \in Comps, Begin(l, j) PROVE Grow(i)' /\ Flight(i)'
  <2>1. comp'[j] = NewJob(l) /\ comp'[j] # None /\ inflight'[l] = j
    BY <1>2 DEF Begin, NewJob, TypeOK
  <2>2. CASE i = j
    BY <1>2, <1>h, <2>1, <2>2 DEF Begin, Miss, NewJob, TypeOK
  <2>3. CASE i # j
    BY <1>2, <1>h, <1>t, <2>1, <2>3 DEF Begin, Miss, TypeOK
  <2>4. QED
    BY <2>2, <2>3
<1>3. ASSUME NEW j \in Comps, Query(j) PROVE Grow(i)' /\ Flight(i)'
  <2>1. comp'[i] # None <=> comp[i] # None
    BY <1>3, <1>t DEF Query, TypeOK, Versions
  <2>2. Running(i) => comp'[i].key = comp[i].key /\ comp'[i].gen = comp[i].gen
    BY <1>3, <1>t DEF Query, TypeOK
  <2>3. QED
    BY <1>3, <1>h, <1>t, <2>1, <2>2 DEF Query
<1>4. ASSUME NEW j \in Comps, Running(j), Settles(j), UNCHANGED generation
      PROVE Grow(i)' /\ Flight(i)'
  <2>1. CASE i = j
    BY <1>4, <1>h, <1>t, <2>1 DEF Settles, TypeOK
  <2>2. CASE i # j
    BY <1>4, <1>h, <1>t, <2>2 DEF Settles, TypeOK
  <2>3. QED
    BY <2>1, <2>2
<1>5. ASSUME NEW ns \in Namespaces, Invalidate(ns) PROVE Grow(i)' /\ Flight(i)'
    BY <1>5, <1>h, <1>t DEF Invalidate, DropInflight, TypeOK
<1>6. CASE InvalidateAll
    BY <1>6, <1>h DEF InvalidateAll
<1>7. QED
    BY <1>1, <1>2, <1>3, <1>4, <1>5, <1>6
       DEF Next, vars, Write, Expire, Resolve, Reject

\* No step leaves a reader with a value older than the last invalidation.
LEMMA ReadStep == QueryIInv /\ [Next]_vars => ReadersSeeWrites'
<1> SUFFICES ASSUME QueryIInv, [Next]_vars, ~blown', NEW k \in Keys PROVE ReadsCurrent(k)'
    BY DEF ReadersSeeWrites
<1>0. ~blown
    BY DEF Next, vars, Write, InvalidateAll, Expire, Begin, Query, Resolve, Reject, Invalidate
<1>h. \A l \in Keys : ReadsCurrent(l)
    BY <1>0 DEF QueryIInv, ReadersSeeWrites
<1>f. \A l \in Keys, i \in Comps :
        inflight[l] = i <=> Running(i) /\ comp[i].key = l /\ Current(i)
    BY <1>0 DEF QueryIInv, SingleFlight
<1>t. TypeOK /\ FloorReached
    BY DEF QueryIInv
<1> USE CacheAssumption DEF ReadsCurrent
<1>1. CASE UNCHANGED <<store, inflight, comp, floor>>
    BY <1>1, <1>h
<1>2. ASSUME NEW l \in Keys, NEW j \in Comps, Begin(l, j) PROVE ReadsCurrent(k)'
    BY <1>2, <1>h, <1>f, <1>t DEF Begin, NewJob, TypeOK, Running
<1>3. ASSUME NEW j \in Comps, Query(j) PROVE ReadsCurrent(k)'
    BY <1>3, <1>h, <1>t DEF Query, TypeOK, FloorReached, Versions
<1>4. ASSUME NEW j \in Comps, Resolve(j) PROVE ReadsCurrent(k)'
  <2>1. comp[j] \in Job /\ comp[j].got # None
    BY <1>4, <1>t DEF Resolve, Running, TypeOK
  <2>2. ASSUME NEW i \in Comps, inflight'[k] = i, comp'[i].got # None
        PROVE  comp'[i].got >= floor'[k]
    BY <1>4, <1>h, <1>f, <1>t, <2>1, <2>2 DEF Resolve, Settles, TypeOK, Job
  <2>3. store'[k] = store[k] \/ store'[k] = None \/ (k = comp[j].key /\ Current(j) /\ store'[k] = comp[j].got)
    BY <1>4, <1>t, <2>1 DEF Resolve, StoreEntry, TypeOK, Job
  <2>4. store'[k] # None => store'[k] >= floor'[k]
    BY <1>4, <1>h, <1>f, <2>1, <2>3 DEF Resolve, Job
  <2>5. QED
    BY <2>2, <2>4
<1>5. ASSUME NEW j \in Comps, Reject(j) PROVE ReadsCurrent(k)'
    BY <1>5, <1>h, <1>f, <1>t DEF Reject, Settles, TypeOK, Job, Running
<1>6. ASSUME NEW ns \in Namespaces, Invalidate(ns) PROVE ReadsCurrent(k)'
    BY <1>6, <1>h, <1>t DEF Invalidate, DropInflight, TypeOK
<1>7. CASE InvalidateAll
    BY <1>7 DEF InvalidateAll
<1>8. QED
    BY <1>1, <1>2, <1>3, <1>4, <1>5, <1>6, <1>7 DEF Next, vars, Write, Expire

-----------------------------------------------------------------------------

\* Every step preserves the inductive invariant.
LEMMA QueryStepInvariant == QueryIInv /\ [Next]_vars => QueryIInv'
BY QueryTypeStep, FloorStep, FlightStep, ReadStep DEF QueryIInv

\* The inductive invariant holds in every reachable state, for any number of
\* readers, writers and computations (cached and invalidateCache, 49-111).
THEOREM QueryInvariance == Spec => []QueryIInv
BY QueryInitInvariant, QueryStepInvariant, PTL DEF Spec

\* Every reachable state of the cache is of its type, whatever the namespaces
\* and the number of computations.
THEOREM QueryTypeCorrect == Spec => []TypeOK
BY QueryInvariance, PTL DEF QueryIInv

\* Of the computations of a key exactly the one new callers join may store its
\* value: a computation dropped by an invalidation is never current again.
THEOREM OneComputationCounts == Spec => []SingleFlight
BY QueryInvariance, PTL DEF QueryIInv

\* No invalidation of a namespace can be overtaken by a read that began before
\* it: neither the store nor the computation to join is older.
THEOREM InvalidationHonoured == Spec => []ReadersSeeWrites
BY QueryInvariance, PTL DEF QueryIInv

-----------------------------------------------------------------------------
(* The size of the store *)

\* That the store is finite is part of its bound.
StoreFits == IsFiniteSet(Stored) /\ StoreBounded

\* An entry that is stored takes a free place, its own, or that of another.
LEMMA StoreEntryFits ==
    ASSUME TypeOK, StoreFits, NEW k \in Keys, NEW v \in Versions, StoreEntry(k, v)
    PROVE  StoreFits'
<1> USE DEF StoreFits, StoreBounded
<1>0. v # None /\ MaxEntries \in Nat
    BY CacheAssumption DEF Versions
<1>1. CASE k \in Stored
  <2>1. Stored' = Stored
    BY <1>0, <1>1 DEF StoreEntry, Stored, TypeOK
  <2>2. QED
    BY <2>1
<1>2. CASE k \notin Stored /\ Cardinality(Stored) < MaxEntries
  <2>1. Stored' = Stored \cup {k}
    BY <1>0, <1>2, FS_CardinalityType DEF StoreEntry, Stored, TypeOK
  <2>2. IsFiniteSet(Stored \cup {k}) /\ Cardinality(Stored \cup {k}) = Cardinality(Stored) + 1
    BY <1>2, FS_AddElement
  <2>3. Cardinality(Stored) \in Nat
    BY FS_CardinalityType
  <2>4. Cardinality(Stored) + 1 <= MaxEntries
    BY <1>0, <1>2, <2>3
  <2>5. QED
    BY <2>1, <2>2, <2>4
<1>3. CASE k \notin Stored /\ ~(Cardinality(Stored) < MaxEntries)
  <2>1. PICK old \in Stored : store' = [store EXCEPT ![old] = None, ![k] = v]
    BY <1>3 DEF StoreEntry
  <2>2. Stored' = (Stored \ {old}) \cup {k}
    BY <1>0, <1>3, <2>1 DEF Stored, TypeOK
  <2>3. IsFiniteSet(Stored \ {old}) /\ Cardinality(Stored \ {old}) = Cardinality(Stored) - 1
    BY <2>1, FS_RemoveElement
  <2>4. /\ IsFiniteSet((Stored \ {old}) \cup {k})
        /\ Cardinality((Stored \ {old}) \cup {k}) = Cardinality(Stored \ {old}) + 1
    BY <1>3, <2>3, FS_AddElement
  <2>5. Cardinality(Stored) \in Nat
    BY FS_CardinalityType
  <2>6. Cardinality((Stored \ {old}) \cup {k}) <= MaxEntries
    BY <1>0, <2>3, <2>4, <2>5
  <2>7. QED
    BY <2>2, <2>4, <2>6
<1>4. QED
    BY <1>1, <1>2, <1>3

\* Every other step keeps the entries or removes some.
LEMMA StoreStep == TypeOK /\ StoreFits /\ [Next]_vars => StoreFits'
<1> SUFFICES ASSUME TypeOK, StoreFits, [Next]_vars PROVE StoreFits'
    OBVIOUS
<1>1. ASSUME Stored' \subseteq Stored PROVE StoreFits'
    BY <1>1, CacheAssumption, FS_Subset, FS_CardinalityType DEF StoreFits, StoreBounded
<1>2. ASSUME NEW i \in Comps, Resolve(i) PROVE StoreFits'
  <2>1. comp[i] \in Job /\ comp[i].key \in Keys /\ comp[i].got \in Versions
    BY <1>2 DEF Resolve, Running, TypeOK, Job
  <2>2. CASE StoreEntry(comp[i].key, comp[i].got)
    BY <2>1, <2>2, StoreEntryFits
  <2>3. CASE UNCHANGED store
    BY <1>1, <2>3 DEF Stored
  <2>4. QED
    BY <1>2, <2>2, <2>3 DEF Resolve
<1>3. ASSUME NEW ns \in Namespaces, Invalidate(ns) PROVE StoreFits'
    BY <1>1, <1>3 DEF Invalidate, Stored
<1>4. CASE InvalidateAll
    BY <1>1, <1>4 DEF InvalidateAll, Stored
<1>5. CASE UNCHANGED store
    BY <1>1, <1>5 DEF Stored
<1>6. QED
    BY <1>2, <1>3, <1>4, <1>5 DEF Next, vars, Write, Expire, Begin, Query, Reject

\* However overwrites, evictions and invalidations follow one another, the store
\* never outgrows MAX_ENTRIES (storeEntry, query-cache.ts:37-47).
THEOREM StoreStaysBounded == Spec => []StoreBounded
<1>1. Init => StoreFits
  <2>1. Init => Stored = {}
    BY DEF Init, Stored
  <2>2. IsFiniteSet({}) /\ Cardinality({}) <= MaxEntries
    BY CacheAssumption, FS_EmptySet
  <2>3. QED
    BY <2>1, <2>2 DEF StoreFits, StoreBounded
<1>2. StoreFits => StoreBounded
    BY DEF StoreFits
<1>3. QED
    BY <1>1, <1>2, StoreStep, QueryTypeCorrect, PTL DEF Spec
=============================================================================
