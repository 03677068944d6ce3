----------------------- MODULE GenerationControlProofs -----------------------
(* Proofs, for every set of processes, callers and rows and for every set of *)
(* faults, of the safety invariants of GenerationControl.                     *)
EXTENDS GenerationControl, FiniteSetTheorems, TLAPS



-----------------------------------------------------------------------------
(* Type correctness *)

\* A report keeps the type of the status.
LEMMA ProgressTypes ==
    ASSUME NEW s \in StatusType, NEW k \in 0..100
    PROVE  Progressed(s, k) \in StatusType
BY DEF Progressed, StatusType, States

\* So do the calls that end a generation, or ask for its end.
LEMMA StatusTypes ==
    ASSUME NEW s \in StatusType
    PROVE  /\ Completed(s) \in StatusType
           /\ Failed(s) \in StatusType
           /\ Cancelled(s) \in StatusType
           /\ Requested(s) \in StatusType
           /\ Left(s) \in StatusType
<1>1. Completed(s) \in StatusType
  BY DEF Completed, StatusType, States
<1>2. Failed(s) \in StatusType
  BY DEF Failed, Ended, StatusType, States
<1>3. Cancelled(s) \in StatusType
  BY DEF Cancelled, Ended, StatusType, States
<1>4. Requested(s) \in StatusType
  BY DEF Requested, StatusType, States
<1>5. Left(s) \in StatusType
  BY DEF Left, StatusType, States
<1>6. QED
  BY <1>1, <1>2, <1>3, <1>4, <1>5

\* The two statuses that depend on nothing have that type.
LEMMA ConstantStatusTypes == Started \in StatusType /\ IdleStatus \in StatusType
BY DEF Started, IdleStatus, StatusType, States

\* A caller that reports has begun a phase.
ReportInv == \A c \in Callers : pc[c] = "report" => phase[c] # 0

\* Type correctness of the steps of one caller.
LEMMA CallerTypeStep ==
    ASSUME TypeOK, ReportInv, NEW c \in Callers, CallerStep(c)
    PROVE  TypeOK'
<1> USE ProcOfAssumption, KindAssumption, PhaseAssumption
<1> USE DEF TypeOK, procVars, dbVars, Goto, Return, Pcs, Outcomes
<1>p. ProcOf[c] \in Procs /\ Status(c) \in StatusType
  BY DEF Status
<1>s. ASSUME NEW s \in StatusType, SetStatus(c, s)
      PROVE  status' \in [Procs -> StatusType]
  BY <1>p, <1>s DEF SetStatus
<1>1. CASE BeginCron(c) \/ BeginSync(c) \/ BeginStream(c)
  BY <1>1 DEF BeginCron, BeginSync, BeginStream
<1>2. CASE StartGeneration(c)
  <2>1. CASE Status(c).inProgress
    BY <1>2, <2>1 DEF StartGeneration
  <2>2. CASE ~Status(c).inProgress
    <3>1. status' \in [Procs -> StatusType]
      BY <1>2, <2>2, <1>s, ConstantStatusTypes DEF StartGeneration
    <3>2. QED
      BY <1>2, <2>2, <3>1 DEF StartGeneration
  <2>3. QED
    BY <2>1, <2>2
<1>3. CASE Connect(c) \/ ConnectRaises(c)
  BY <1>3 DEF Connect, ConnectRaises
<1>4. CASE Acquire(c)
  BY <1>4, <1>p DEF Acquire
<1>5. CASE CheckFlag(c)
  BY <1>5, <1>p DEF CheckFlag
<1>6. CASE Claim(c)
  BY <1>6, <1>p DEF Claim, RowStates
<1>7. CASE ClaimRejected(c) \/ ClaimFails(c)
  BY <1>7, <1>p DEF ClaimRejected, ClaimFails, Unlock
<1>8. CASE OpenRaises(c)
  BY <1>8 DEF OpenRaises
<1>9. CASE Checkpoint(c)
  <2>1. CASE Status(c).cancel
    <3>1. status' \in [Procs -> StatusType]
      BY <1>9, <2>1, <1>p, <1>s, StatusTypes DEF Checkpoint
    <3>2. QED
      BY <1>9, <2>1, <3>1 DEF Checkpoint
  <2>2. CASE ~Status(c).cancel
    <3>1. phase[c] + 1 \in 0..NPhases
      BY <1>9 DEF Checkpoint
    <3>2. phase' = [phase EXCEPT ![c] = phase[c] + 1]
      BY <1>9, <2>2 DEF Checkpoint
    <3>3. phase' \in [Callers -> 0..NPhases]
      BY <3>1, <3>2
    <3>4. QED
      BY <1>9, <2>2, <3>3 DEF Checkpoint
  <2>3. QED
    BY <2>1, <2>2
<1>10. CASE ReportPhase(c)
  <2>1. SetStatus(c, Progressed(Status(c), PhasePercent[phase[c]]))
    BY <1>10 DEF ReportPhase
  <2>2. phase[c] \in 1..NPhases
    BY <1>10 DEF ReportPhase, ReportInv
  <2>3. PhasePercent[phase[c]] \in 0..100
    BY <2>2
  <2>4. status' \in [Procs -> StatusType]
    BY <2>1, <2>3, <1>p, <1>s, ProgressTypes
  <2>5. QED
    BY <1>10, <2>4 DEF ReportPhase
<1>11. CASE PhaseRaises(c)
  BY <1>11 DEF PhaseRaises
<1>12. CASE FinalizeRun(c)
  BY <1>12 DEF FinalizeRun, Saved, RowStates
<1>13. CASE Finish(c)
  <2>1. status' \in [Procs -> StatusType]
    BY <1>13, <1>p, <1>s, ProgressTypes DEF Finish
  <2>2. QED
    BY <1>13, <2>1 DEF Finish
<1>14. CASE SaveEnd(c)
  BY <1>14 DEF SaveEnd, Saved, RowStates
<1>15. CASE Release(c)
  BY <1>15, <1>p DEF Release, Unlock
<1>16. CASE MarkResult(c)
  <2>1. PICK s \in Marks(c, Status(c)) : SetStatus(c, s)
    BY <1>16 DEF MarkResult
  <2>2. s \in {Completed(Status(c)), Failed(Status(c)), Status(c),
               Left(Status(c))}
    BY <2>1, Zenon DEF Marks
  <2>3. s \in StatusType
    BY <1>p, <2>2, StatusTypes
  <2>4. status' \in [Procs -> StatusType]
    BY <2>1, <2>3, <1>s
  <2>5. QED
    BY <1>16, <2>4 DEF MarkResult
<1>17. QED
  BY <1>1, <1>2, <1>3, <1>4, <1>5, <1>6, <1>7, <1>8, <1>9, <1>10, <1>11,
     <1>12, <1>13, <1>14, <1>15, <1>16 DEF CallerStep, Advance

\* Type correctness of the steps of the user, the clock and the processes.
LEMMA EnvironmentTypeStep ==
    ASSUME TypeOK,
           \/ \E p \in Procs : RequestCancellation(p) \/ Crash(p) \/ Startup(p)
           \/ \E r \in Runs : RowAges(r) \/ PruneRow(r)
           \/ ClearAllRuns
    PROVE  TypeOK'
<1> USE DEF TypeOK, procVars, dbVars, callerVars
<1>1. CASE \E p \in Procs : RequestCancellation(p)
  <2>1. PICK p \in Procs : RequestCancellation(p)
    BY <1>1
  <2>2. Requested(status[p]) \in StatusType
    BY StatusTypes
  <2>3. QED
    BY <2>1, <2>2 DEF RequestCancellation
<1>2. CASE \E p \in Procs : Crash(p)
  BY <1>2, PhaseAssumption, ConstantStatusTypes DEF Crash, Pcs, Outcomes
<1>3. CASE \E p \in Procs : Startup(p)
  BY <1>3 DEF Startup, RowStates
<1>4. CASE \E r \in Runs : RowAges(r) \/ PruneRow(r)
  BY <1>4 DEF RowAges, PruneRow, RowStates
<1>5. CASE ClearAllRuns
  BY <1>5 DEF ClearAllRuns, RowStates
<1>6. QED
  BY <1>1, <1>2, <1>3, <1>4, <1>5

\* Every step keeps ReportInv.
LEMMA ReportStep ==
    ASSUME TypeOK, ReportInv, [Next]_vars
    PROVE  ReportInv'
<1> USE DEF TypeOK, ReportInv, procVars, dbVars, callerVars, Goto
<1>1. CASE UNCHANGED vars
  BY <1>1 DEF vars
<1>2. ASSUME NEW c \in Callers, Checkpoint(c)
      PROVE  ReportInv'
  BY <1>2, PhaseAssumption DEF Checkpoint
<1>3. ASSUME NEW c \in Callers, CallerStep(c), ~Checkpoint(c)
      PROVE  ReportInv'
  BY <1>3 DEF CallerStep, Advance, BeginCron, BeginSync, BeginStream,
     StartGeneration, Connect, ConnectRaises, Acquire, CheckFlag, Claim,
     ClaimRejected, ClaimFails, OpenRaises, ReportPhase, PhaseRaises,
     FinalizeRun, Finish, SaveEnd, Release, MarkResult
<1>4. ASSUME NEW p \in Procs,
             RequestCancellation(p) \/ Crash(p) \/ Startup(p)
      PROVE  ReportInv'
  BY <1>4 DEF RequestCancellation, Crash, Startup
<1>5. ASSUME NEW r \in Runs, RowAges(r) \/ PruneRow(r)
      PROVE  ReportInv'
  BY <1>5 DEF RowAges, PruneRow
<1>6. CASE ClearAllRuns
  BY <1>6 DEF ClearAllRuns
<1>7. QED
  BY <1>1, <1>2, <1>3, <1>4, <1>5, <1>6 DEF Next

\* Every variable keeps its type; in particular the percentage that pollers
\* read stays between 0 and 100, and a caller never reports a phase that does
\* not exist (the progress callbacks of consumers/generation.py).
THEOREM TypeCorrect == Spec => [](TypeOK /\ ReportInv)
<1>1. Init => TypeOK /\ ReportInv
  BY PhaseAssumption, ConstantStatusTypes
     DEF Init, TypeOK, ReportInv, RowStates, Pcs, Outcomes
<1>2. TypeOK /\ ReportInv /\ [Next]_vars => (TypeOK /\ ReportInv)'
  <2> SUFFICES ASSUME TypeOK, ReportInv, [Next]_vars
               PROVE  TypeOK'
    BY ReportStep
  <2>1. CASE UNCHANGED vars
    BY <2>1 DEF vars, TypeOK
  <2>2. CASE Next
    BY <2>2, CallerTypeStep, EnvironmentTypeStep DEF Next
  <2>3. QED
    BY <2>1, <2>2
<1>3. QED
  BY <1>1, <1>2, PTL DEF Spec

-----------------------------------------------------------------------------
(* Mutual exclusion *)

\* Whoever is in the guarded part holds the lock of its process.  The converse
\* fails: a caller that raised while opening the database has left with it.
LockInv == \A c \in Callers : pc[c] \in Holding => lock[ProcOf[c]] = c

\* The steps of a caller that neither take nor give back the lock.
LEMMA LockKept ==
    ASSUME TypeOK, LockInv, NEW c \in Callers, lock' = lock,
           NEW l, Goto(c, l), l \in Holding => pc[c] \in Holding
    PROVE  LockInv'
BY DEF TypeOK, LockInv, Goto

\* Every step keeps LockInv.
LEMMA LockStep ==
    ASSUME TypeOK, LockInv, [Next]_vars
    PROVE  LockInv'
<1> USE ProcOfAssumption, SentinelAssumption
<1> USE DEF procVars, dbVars, callerVars
<1>1. CASE UNCHANGED vars
  BY <1>1 DEF vars, LockInv
<1>2. ASSUME NEW c \in Callers, Acquire(c)
      PROVE  LockInv'
  BY <1>2 DEF Acquire, LockInv, Goto, TypeOK, Holding
<1>3. ASSUME NEW c \in Callers, pc[c] \in Holding, Goto(c, "returned"),
             lock' = [lock EXCEPT ![ProcOf[c]] = NoCaller]
      PROVE  LockInv'
  BY <1>3 DEF LockInv, Goto, TypeOK, Holding
<1>4. ASSUME NEW c \in Callers, CheckFlag(c)
      PROVE  LockInv'
  <2>1. CASE running[ProcOf[c]]
    BY <1>3, <1>4, <2>1 DEF CheckFlag, Holding
  <2>2. CASE ~running[ProcOf[c]]
    BY <1>4, <2>2, LockKept DEF CheckFlag, Holding
  <2>3. QED
    BY <2>1, <2>2
<1>5. ASSUME NEW c \in Callers,
             ClaimRejected(c) \/ ClaimFails(c) \/ Release(c)
      PROVE  LockInv'
  BY <1>3, <1>5 DEF ClaimRejected, ClaimFails, Release, Unlock, Holding
<1>6. ASSUME NEW c \in Callers,
             BeginCron(c) \/ BeginSync(c) \/ BeginStream(c)
                \/ StartGeneration(c) \/ Connect(c) \/ ConnectRaises(c)
                \/ OpenRaises(c) \/ MarkResult(c)
      PROVE  LockInv'
  <2>1. lock' = lock
    BY <1>6 DEF BeginCron, BeginSync, BeginStream, StartGeneration, Connect,
       ConnectRaises, OpenRaises, MarkResult
  <2>2. \E l : Goto(c, l) /\ l \notin Holding
    BY <1>6 DEF BeginCron, BeginSync, BeginStream, StartGeneration, Connect,
       ConnectRaises, OpenRaises, MarkResult, Holding
  <2>3. QED
    BY <2>1, <2>2, LockKept
<1>7. ASSUME NEW c \in Callers,
             Claim(c) \/ Checkpoint(c) \/ ReportPhase(c) \/ PhaseRaises(c)
                \/ FinalizeRun(c) \/ Finish(c) \/ SaveEnd(c)
      PROVE  LockInv'
  <2>1. lock' = lock /\ pc[c] \in Holding
    BY <1>7 DEF Claim, Checkpoint, ReportPhase, PhaseRaises, FinalizeRun,
       Finish, SaveEnd, Holding, Working
  <2>2. \E l : Goto(c, l)
    BY <1>7 DEF Claim, Checkpoint, ReportPhase, PhaseRaises, FinalizeRun,
       Finish, SaveEnd
  <2>3. QED
    BY <2>1, <2>2, LockKept
<1>8. ASSUME NEW p \in Procs, Crash(p)
      PROVE  LockInv'
  BY <1>8 DEF Crash, LockInv, TypeOK, Holding
<1>9. CASE (\E p \in Procs : RequestCancellation(p) \/ Startup(p))
             \/ (\E r \in Runs : RowAges(r) \/ PruneRow(r)) \/ ClearAllRuns
  BY <1>9 DEF RequestCancellation, Startup, RowAges, PruneRow, ClearAllRuns,
     LockInv
<1>10. QED
  BY <1>1, <1>2, <1>4, <1>5, <1>6, <1>7, <1>8, <1>9
     DEF Next, CallerStep, Advance

\* Two callers of one process are never both past _generation_lock in
\* run_full_generation, for any number of callers, any faults and crashes.
THEOREM MutualExclusionHolds == Spec => []MutualExclusion
<1>1. Init => LockInv
  BY DEF Init, LockInv, Holding
<1>2. LockInv => MutualExclusion
  BY DEF LockInv, MutualExclusion
<1>3. QED
  BY <1>1, <1>2, LockStep, TypeCorrect, PTL DEF Spec

-----------------------------------------------------------------------------
(* The database guard *)

AtMostOneFresh == \A r, s \in FreshRunning : r = s

\* Every step keeps AtMostOneFresh: only Claim adds a row, behind its guard.
LEMMA FreshStep ==
    ASSUME TypeOK, AtMostOneFresh, [Next]_vars
    PROVE  AtMostOneFresh'
<1> USE DEF procVars, dbVars, callerVars
<1>1. SUFFICES ASSUME ~(\E c \in Callers : Claim(c))
               PROVE  FreshRunning' \subseteq FreshRunning
  <2>1. ASSUME NEW c \in Callers, Claim(c)
        PROVE  AtMostOneFresh'
    <3>1. PICK r \in Runs : rows' = [rows EXCEPT ![r] = "running"]
                           /\ fresh' = fresh \cup {r}
      BY <2>1 DEF Claim
    <3>2. FreshRunning' \subseteq FreshRunning \cup {r}
      BY <3>1 DEF FreshRunning, TypeOK
    <3>3. FreshRunning = {}
      BY <2>1 DEF Claim
    <3>4. QED
      BY <3>2, <3>3 DEF AtMostOneFresh
  <2>2. QED
    BY <2>1 DEF AtMostOneFresh
<1>2. CASE UNCHANGED vars
  BY <1>2 DEF vars, FreshRunning
<1>3. ASSUME NEW c \in Callers, FinalizeRun(c) \/ SaveEnd(c)
      PROVE  FreshRunning' \subseteq FreshRunning
  <2>1. \/ rows' = rows
        \/ \E s \in {"completed", "cancelled", "failed"} :
              rows' = [rows EXCEPT ![run[c]] = s]
    BY <1>3 DEF FinalizeRun, SaveEnd, Saved
  <2>2. fresh' = fresh
    BY <1>3 DEF FinalizeRun, SaveEnd
  <2>3. QED
    BY <2>1, <2>2 DEF FreshRunning, TypeOK
<1>4. ASSUME NEW c \in Callers, CallerStep(c), ~(FinalizeRun(c) \/ SaveEnd(c))
      PROVE  FreshRunning' \subseteq FreshRunning
  <2>1. rows' = rows /\ fresh' = fresh
    BY <1>1, <1>4 DEF CallerStep, Advance, BeginCron, BeginSync, BeginStream,
       StartGeneration, Connect, ConnectRaises, Acquire, CheckFlag,
       ClaimRejected, ClaimFails, OpenRaises, Checkpoint, ReportPhase,
       PhaseRaises, Finish, Release, MarkResult
  <2>2. QED
    BY <2>1 DEF FreshRunning
<1>5. ASSUME NEW p \in Procs, RequestCancellation(p) \/ Crash(p) \/ Startup(p)
      PROVE  FreshRunning' \subseteq FreshRunning
  BY <1>5 DEF RequestCancellation, Crash, Startup, FreshRunning, TypeOK
<1>6. ASSUME NEW r \in Runs, RowAges(r) \/ PruneRow(r)
      PROVE  FreshRunning' \subseteq FreshRunning
  BY <1>6 DEF RowAges, PruneRow, FreshRunning, TypeOK
<1>7. CASE ClearAllRuns
  BY <1>7 DEF ClearAllRuns, FreshRunning
<1>8. QED
  BY <1>2, <1>3, <1>4, <1>5, <1>6, <1>7 DEF Next

\* "BEGIN IMMEDIATE ... prevents race conditions where two processes both pass
\* the check": over all processes, and with saves lost, rows cleared and
\* processes restarted, at most one row of the last five minutes is running.
THEOREM OneFreshRunningRowHolds == Spec => []OneFreshRunningRow
<1>1. Init => AtMostOneFresh
  BY DEF Init, AtMostOneFresh, FreshRunning
<1>2. AtMostOneFresh => OneFreshRunningRow
  <2>1. ASSUME FreshRunning = {}
        PROVE  OneFreshRunningRow
    BY <2>1, FS_EmptySet DEF OneFreshRunningRow
  <2>2. ASSUME NEW r \in FreshRunning, FreshRunning = {r}
        PROVE  OneFreshRunningRow
    <3>1. Cardinality({r}) = 1
      BY FS_Singleton
    <3>2. QED
      BY <2>2, <3>1 DEF OneFreshRunningRow
  <2>3. QED
    BY <2>1, <2>2 DEF AtMostOneFresh
<1>3. QED
  BY <1>1, <1>2, FreshStep, TypeCorrect, PTL DEF Spec

-----------------------------------------------------------------------------
(* Runs and their rows *)

Early  == {"idle", "start", "connect", "acquire", "flag", "claim"}
HasRow == {"check", "report", "last", "saveCancelled", "saveFailed", "release"}

\* A row is remembered by one caller only, from Claim to MarkResult.
RunInv ==
    \A c \in Callers :
        /\ pc[c] \in HasRow => run[c] \in Runs
        /\ pc[c] \in Early => run[c] = NoRun
        /\ pc[c] \notin {"release", "returned"} => res[c] = "none"
        /\ res[c] \in {"ok", "cancelled"} => run[c] \in Runs
        /\ \A d \in Callers : run[c] = run[d] /\ run[c] # NoRun => c = d

\* Every step keeps RunInv.
LEMMA RunStep ==
    ASSUME TypeOK, RunInv, [Next]_vars
    PROVE  RunInv'
<1> USE SentinelAssumption
<1> USE DEF procVars, dbVars, callerVars, TypeOK, RunInv, Goto, Return, Early,
            HasRow
<1>1. CASE UNCHANGED vars
  BY <1>1 DEF vars
<1>2. ASSUME NEW c \in Callers, Claim(c)
      PROVE  RunInv'
  BY <1>2 DEF Claim, NewRow
<1>3. ASSUME NEW c \in Callers, MarkResult(c)
      PROVE  RunInv'
  BY <1>3 DEF MarkResult
<1>4. ASSUME NEW c \in Callers,
             BeginCron(c) \/ BeginSync(c) \/ BeginStream(c)
                \/ StartGeneration(c) \/ Connect(c) \/ ConnectRaises(c)
                \/ Acquire(c) \/ CheckFlag(c)
      PROVE  RunInv'
  BY <1>4 DEF BeginCron, BeginSync, BeginStream, StartGeneration, Connect,
     ConnectRaises, Acquire, CheckFlag
<1>5. ASSUME NEW c \in Callers,
             ClaimRejected(c) \/ ClaimFails(c) \/ OpenRaises(c)
                \/ Checkpoint(c) \/ ReportPhase(c) \/ PhaseRaises(c)
      PROVE  RunInv'
  BY <1>5 DEF ClaimRejected, ClaimFails, OpenRaises, Checkpoint, ReportPhase,
     PhaseRaises, Working
<1>6. ASSUME NEW c \in Callers,
             FinalizeRun(c) \/ Finish(c) \/ SaveEnd(c) \/ Release(c)
      PROVE  RunInv'
  BY <1>6 DEF FinalizeRun, Finish, SaveEnd, Release
<1>7. ASSUME NEW p \in Procs,
             RequestCancellation(p) \/ Crash(p) \/ Startup(p)
      PROVE  RunInv'
  BY <1>7 DEF RequestCancellation, Crash, Startup
<1>8. CASE (\E r \in Runs : RowAges(r) \/ PruneRow(r)) \/ ClearAllRuns
  BY <1>8 DEF RowAges, PruneRow, ClearAllRuns
<1>9. QED
  BY <1>1, <1>2, <1>3, <1>4, <1>5, <1>6, <1>7, <1>8
     DEF Next, CallerStep, Advance

\* What the row of a run says at each point of the run.
RowInv ==
    \A c \in Callers :
        /\ pc[c] \in {"check", "report", "saveCancelled"}
              => rows[run[c]] # "completed"
        /\ pc[c] = "last" => rows[run[c]] \in {"completed", "none"}
        /\ res[c] = "ok" => rows[run[c]] \in {"completed", "none"}
        /\ res[c] = "cancelled" => rows[run[c]] # "completed"

\* Every step keeps RowInv, given the caller's knowledge of its row.
LEMMA RowStep ==
    ASSUME TypeOK, RunInv, RowInv, [Next]_vars
    PROVE  RowInv'
<1> USE SentinelAssumption
<1> USE DEF procVars, dbVars, callerVars, TypeOK, RowInv, RunInv, Goto, Return,
            HasRow, Early
<1>1. CASE UNCHANGED vars
  BY <1>1 DEF vars
<1>2. ASSUME NEW c \in Callers, Claim(c)
      PROVE  RowInv'
  BY <1>2 DEF Claim, NewRow
<1>3. ASSUME NEW c \in Callers, MarkResult(c)
      PROVE  RowInv'
  BY <1>3 DEF MarkResult
<1>4. ASSUME NEW c \in Callers,
             BeginCron(c) \/ BeginSync(c) \/ BeginStream(c)
                \/ StartGeneration(c) \/ Connect(c) \/ ConnectRaises(c)
                \/ Acquire(c) \/ CheckFlag(c) \/ ClaimRejected(c)
                \/ ClaimFails(c) \/ OpenRaises(c)
      PROVE  RowInv'
  BY <1>4 DEF BeginCron, BeginSync, BeginStream, StartGeneration, Connect,
     ConnectRaises, Acquire, CheckFlag, ClaimRejected, ClaimFails, OpenRaises
<1>5. ASSUME NEW c \in Callers,
             Checkpoint(c) \/ ReportPhase(c) \/ PhaseRaises(c) \/ Release(c)
      PROVE  RowInv'
  BY <1>5 DEF Checkpoint, ReportPhase, PhaseRaises, Release
<1>6. ASSUME NEW c \in Callers, FinalizeRun(c)
      PROVE  RowInv'
  BY <1>6 DEF FinalizeRun, Saved
<1>7. ASSUME NEW c \in Callers, Finish(c)
      PROVE  RowInv'
  BY <1>7 DEF Finish
<1>8. ASSUME NEW c \in Callers, SaveEnd(c)
      PROVE  RowInv'
  BY <1>8 DEF SaveEnd, Saved
<1>9. ASSUME NEW p \in Procs,
              RequestCancellation(p) \/ Crash(p) \/ Startup(p)
       PROVE  RowInv'
  BY <1>9 DEF RequestCancellation, Crash, Startup
<1>10. CASE (\E r \in Runs : RowAges(r) \/ PruneRow(r)) \/ ClearAllRuns
  BY <1>10 DEF RowAges, PruneRow, ClearAllRuns
<1>11. QED
  BY <1>1, <1>2, <1>3, <1>4, <1>5, <1>6, <1>7, <1>8, <1>9, <1>10
     DEF Next, CallerStep, Advance

\* What a caller is told and what its row says agree in every reachable state.
LEMMA RowsAreKnown == Spec => [](TypeOK /\ RunInv /\ RowInv)
<1>1. Init => RunInv /\ RowInv
  BY DEF Init, RunInv, RowInv, HasRow, Early
<1>2. QED
  BY <1>1, RunStep, RowStep, TypeCorrect, PTL DEF Spec

\* A caller told "ok" has a completed row, and no later save, claim, restart of
\* any process or other caller takes that back.
THEOREM SuccessIsRecordedHolds == Spec => []SuccessIsRecorded
<1>1. RowInv => SuccessIsRecorded
  BY DEF RowInv, SuccessIsRecorded
<1>2. QED
  BY <1>1, RowsAreKnown, PTL

\* A run whose cancellation was handled is never recorded as completed, however
\* its caller, the others and the restarts interleave.
THEOREM CancelledRunNotCompletedHolds == Spec => []CancelledRunNotCompleted
<1>1. RowInv => CancelledRunNotCompleted
  BY DEF RowInv, CancelledRunNotCompleted
<1>2. QED
  BY <1>1, RowsAreKnown, PTL

-----------------------------------------------------------------------------
(* Somebody is still to end what in_progress says *)

\* A step of c that leaves the other callers and processes alone keeps the
\* promise when c ends the generation, raises out of its task, owes the end
\* after the step, or did not owe it before.
LEMMA OwedKept ==
    ASSUME TypeOK, InProgressIsOwed, NEW c \in Callers,
           \A d \in Callers \ {c} : pc'[d] = pc[d] /\ res'[d] = res[d],
           \A p \in Procs \ {ProcOf[c]} : status'[p] = status[p],
           status'[ProcOf[c]].inProgress =>
               \/ status'[ProcOf[c]].left
               \/ Owes(c)'
               \/ /\ status[ProcOf[c]].inProgress
                  /\ status[ProcOf[c]].left => status'[ProcOf[c]].left
                  /\ ~Owes(c)
    PROVE  InProgressIsOwed'
<1> SUFFICES ASSUME NEW p \in Procs, status'[p].inProgress, ~status'[p].left
             PROVE  \E d \in Callers : ProcOf[d] = p /\ Owes(d)'
  BY DEF InProgressIsOwed
<1>1. \A d \in Callers \ {c} : Owes(d)' <=> Owes(d)
  BY DEF Owes
<1>2. CASE p # ProcOf[c]
  <2>1. PICK d \in Callers : ProcOf[d] = p /\ Owes(d)
    BY <1>2 DEF InProgressIsOwed
  <2>2. QED
    BY <2>1, <1>1, <1>2
<1>3. CASE p = ProcOf[c] /\ ~Owes(c)'
  <2>1. PICK d \in Callers : ProcOf[d] = p /\ Owes(d)
    BY <1>3 DEF InProgressIsOwed
  <2>2. d # c
    BY <1>3, <2>1
  <2>3. QED
    BY <2>1, <2>2, <1>1
<1>4. QED
  BY <1>2, <1>3

\* Every step of a caller keeps the promise.
LEMMA OwedCallerStep ==
    ASSUME TypeOK, RunInv, InProgressIsOwed, NEW c \in Callers, CallerStep(c)
    PROVE  InProgressIsOwed'
<1> USE ProcOfAssumption, KindAssumption
<1> USE DEF procVars, dbVars, Goto, Return, SetStatus, Status
<1>t. /\ ProcOf[c] \in Procs /\ Status(c) \in StatusType
      /\ pc \in [Callers -> Pcs] /\ res \in [Callers -> Outcomes]
      /\ status \in [Procs -> StatusType]
      /\ pc[c] \notin {"release", "returned"} => res[c] = "none"
  BY DEF TypeOK, RunInv
<1>1. CASE BeginCron(c) \/ BeginSync(c) \/ BeginStream(c)
  <2>1. ~Owes(c) BY <1>1 DEF BeginCron, BeginSync, BeginStream, Owes, Holding
  <2>2. QED
    BY <1>1, <1>t, <2>1, OwedKept DEF BeginCron, BeginSync, BeginStream
<1>2. CASE StartGeneration(c)
  <2>1. ~Owes(c) BY <1>2 DEF StartGeneration, Owes, Holding
  <2>2. CASE Status(c).inProgress
    BY <1>2, <1>t, <2>1, <2>2, OwedKept DEF StartGeneration
  <2>3. CASE ~Status(c).inProgress
    <3>1. Owes(c)'
      BY <1>2, <1>t, <2>3 DEF StartGeneration, Owes, Holding
    <3>2. QED
      BY <1>2, <1>t, <2>3, <3>1, OwedKept DEF StartGeneration
  <2>4. QED BY <2>2, <2>3
<1>3. CASE Connect(c) \/ ConnectRaises(c)
  <2>1. CASE Kind[c] = "sync"
    <3>1. ~Owes(c) BY <1>3, <2>1 DEF Connect, ConnectRaises, Owes, Holding
    <3>2. QED BY <1>3, <1>t, <2>1, <3>1, OwedKept DEF Connect, ConnectRaises
  <2>2. CASE Kind[c] # "sync"
    <3>1. Owes(c)'
      BY <1>3, <1>t, <2>2 DEF Connect, ConnectRaises, Owes, Holding
    <3>2. QED BY <1>3, <1>t, <2>2, <3>1, OwedKept DEF Connect, ConnectRaises
  <2>3. QED BY <2>1, <2>2
<1>4. CASE Acquire(c) \/ CheckFlag(c)
  <2>1. Owes(c)'
    BY <1>4, <1>t DEF Acquire, CheckFlag, Owes, Holding
  <2>2. QED BY <1>4, <1>t, <2>1, OwedKept DEF Acquire, CheckFlag
<1>5. CASE Claim(c) \/ ClaimRejected(c) \/ ClaimFails(c) \/ OpenRaises(c)
  <2>1. Owes(c)'
    BY <1>5, <1>t
       DEF Claim, ClaimRejected, ClaimFails, OpenRaises, Owes, Holding
  <2>2. QED
    BY <1>5, <1>t, <2>1, OwedKept
       DEF Claim, ClaimRejected, ClaimFails, OpenRaises
<1>6. CASE Checkpoint(c)
  <2>1. CASE Status(c).cancel
    <3>1. ~status'[ProcOf[c]].inProgress
      BY <1>6, <1>t, <2>1 DEF Checkpoint, Cancelled, Ended
    <3>2. QED BY <1>6, <1>t, <2>1, <3>1, OwedKept DEF Checkpoint
  <2>2. CASE ~Status(c).cancel
    <3>1. Owes(c)'
      BY <1>6, <1>t, <2>2 DEF Checkpoint, Owes, Holding
    <3>2. QED BY <1>6, <1>t, <2>2, <3>1, OwedKept DEF Checkpoint
  <2>3. QED BY <2>1, <2>2
<1>7. CASE ReportPhase(c) \/ PhaseRaises(c) \/ FinalizeRun(c) \/ Finish(c)
  <2>1. Owes(c)'
    BY <1>7, <1>t
       DEF ReportPhase, PhaseRaises, FinalizeRun, Finish, Working, Owes, Holding
  <2>2. QED
    BY <1>7, <1>t, <2>1, OwedKept
       DEF ReportPhase, PhaseRaises, FinalizeRun, Finish
<1>8. CASE SaveEnd(c) \/ Release(c)
  <2>1. Owes(c) => Owes(c)'
    BY <1>8, <1>t DEF SaveEnd, Release, Owes, Holding
  <2>2. QED BY <1>8, <1>t, <2>1, OwedKept DEF SaveEnd, Release
<1>9. CASE MarkResult(c)
  <2>1. PICK s \in Marks(c, Status(c)) : SetStatus(c, s)
    BY <1>9 DEF MarkResult
  <2>2. \/ ~s.inProgress \/ s.left
        \/ Kind[c] = "stream" /\ res[c] = "cancelled" /\ s = Status(c)
    BY <2>1 DEF Marks, Completed, Failed, Ended, Left
  <2>3. status'[ProcOf[c]] = s
    BY <2>1, <1>t
  <2>4. Kind[c] = "stream" /\ res[c] = "cancelled" => ~Owes(c)
    BY DEF Owes
  <2>5. QED
    BY <1>9, <1>t, <2>1, <2>2, <2>3, <2>4, OwedKept DEF MarkResult
<1>10. QED
  BY <1>1, <1>2, <1>3, <1>4, <1>5, <1>6, <1>7, <1>8, <1>9
     DEF CallerStep, Advance

\* So do the steps of the users, of the table and of the processes.
LEMMA OwedStep ==
    ASSUME TypeOK, RunInv, InProgressIsOwed, [Next]_vars
    PROVE  InProgressIsOwed'
<1> USE DEF procVars, dbVars, callerVars
<1>1. CASE UNCHANGED vars
  BY <1>1 DEF vars, InProgressIsOwed, Owes
<1>2. ASSUME NEW c \in Callers, CallerStep(c)
      PROVE  InProgressIsOwed'
  BY <1>2, OwedCallerStep
<1>3. ASSUME NEW p \in Procs, RequestCancellation(p)
      PROVE  InProgressIsOwed'
  <2>1. \A q \in Procs : /\ status'[q].inProgress = status[q].inProgress
                         /\ status'[q].left = status[q].left
    BY <1>3 DEF RequestCancellation, Requested, TypeOK
  <2>2. \A c \in Callers : Owes(c)' <=> Owes(c)
    BY <1>3 DEF RequestCancellation, Owes
  <2>3. QED BY <2>1, <2>2 DEF InProgressIsOwed
<1>4. ASSUME NEW p \in Procs, Crash(p)
      PROVE  InProgressIsOwed'
  <2>1. \A q \in Procs : status'[q].inProgress =>
                             q # p /\ status'[q] = status[q]
    BY <1>4 DEF Crash, IdleStatus, TypeOK
  <2>2. \A c \in Callers : ProcOf[c] # p => (Owes(c)' <=> Owes(c))
    BY <1>4 DEF Crash, Owes
  <2>3. QED BY <2>1, <2>2 DEF InProgressIsOwed
<1>5. ASSUME NEW p \in Procs, Startup(p)
      PROVE  InProgressIsOwed'
  BY <1>5 DEF Startup, InProgressIsOwed, Owes
<1>6. CASE (\E r \in Runs : RowAges(r) \/ PruneRow(r)) \/ ClearAllRuns
  BY <1>6 DEF RowAges, PruneRow, ClearAllRuns, InProgressIsOwed, Owes
<1>7. QED
  BY <1>1, <1>2, <1>3, <1>4, <1>5, <1>6 DEF Next

\* in_progress is never left behind but by a cron task that raised: however
\* many callers write their starts and ends over each other, and whatever
\* fails or crashes, somebody is still to end it.
THEOREM InProgressIsOwedHolds == Spec => []InProgressIsOwed
<1>1. Init => InProgressIsOwed
  BY DEF Init, InProgressIsOwed, IdleStatus
<1>2. TypeOK /\ RunInv /\ InProgressIsOwed /\ [Next]_vars => InProgressIsOwed'
  BY OwedStep
<1>3. QED
  BY <1>1, <1>2, RowsAreKnown, PTL DEF Spec

-----------------------------------------------------------------------------
(* No row is left running *)

\* When saves succeed, a run about to give back the lock has settled its row.
SettledInv ==
    \A c \in Callers :
        pc[c] \in {"last", "release"} => rows[run[c]] # "running"

\* Every step keeps the owner of a running row, if no closing save fails.
LEMMA OwnerStep ==
    ASSUME TypeOK, RunInv, RowInv, SettledInv, RunningRowIsOwned,
           "save" \notin Faults, [Next]_vars
    PROVE  SettledInv' /\ RunningRowIsOwned'
<1> USE SentinelAssumption
<1> USE DEF procVars, dbVars, callerVars, TypeOK, RunInv, Goto, Return,
            HasRow, Early, SettledInv, RunningRowIsOwned, Holding
<1>1. CASE UNCHANGED vars
  BY <1>1 DEF vars
<1>2. ASSUME NEW c \in Callers, Claim(c)
      PROVE  SettledInv' /\ RunningRowIsOwned'
  BY <1>2 DEF Claim, NewRow
<1>3. ASSUME NEW c \in Callers, MarkResult(c)
      PROVE  SettledInv' /\ RunningRowIsOwned'
  BY <1>3 DEF MarkResult
<1>4. ASSUME NEW c \in Callers,
             BeginCron(c) \/ BeginSync(c) \/ BeginStream(c)
                \/ StartGeneration(c) \/ Connect(c) \/ ConnectRaises(c)
                \/ Acquire(c) \/ CheckFlag(c) \/ ClaimRejected(c)
                \/ ClaimFails(c) \/ OpenRaises(c)
      PROVE  SettledInv' /\ RunningRowIsOwned'
  <2>1. rows' = rows /\ run' = run /\ up' = up /\ run[c] = NoRun
    BY <1>4 DEF BeginCron, BeginSync, BeginStream, StartGeneration, Connect,
       ConnectRaises, Acquire, CheckFlag, ClaimRejected, ClaimFails, OpenRaises
  <2>2. \E l : Goto(c, l) /\ l \notin {"last", "release"}
    BY <1>4 DEF BeginCron, BeginSync, BeginStream, StartGeneration, Connect,
       ConnectRaises, Acquire, CheckFlag, ClaimRejected, ClaimFails, OpenRaises
  <2>3. QED
    BY <2>1, <2>2
<1>5. ASSUME NEW c \in Callers,
             Checkpoint(c) \/ ReportPhase(c) \/ PhaseRaises(c) \/ Finish(c)
      PROVE  SettledInv' /\ RunningRowIsOwned'
  BY <1>5 DEF Checkpoint, ReportPhase, PhaseRaises, Finish, Working
<1>6. ASSUME NEW c \in Callers, Release(c)
      PROVE  SettledInv' /\ RunningRowIsOwned'
  BY <1>6 DEF Release
<1>7. ASSUME NEW c \in Callers, FinalizeRun(c) \/ SaveEnd(c)
      PROVE  SettledInv' /\ RunningRowIsOwned'
  <2>1. rows' \in [Runs -> RowStates] /\ run[c] \in Runs
    BY <1>7 DEF FinalizeRun, SaveEnd, Saved, RowStates
  <2>2. rows'[run[c]] # "running"
    BY <1>7, <2>1 DEF FinalizeRun, SaveEnd, Saved
  <2>3. \A r \in Runs : r # run[c] => rows'[r] = rows[r]
    BY <1>7 DEF FinalizeRun, SaveEnd, Saved
  <2>4. run' = run /\ up' = up /\ pc' \in [Callers -> Pcs]
        /\ pc'[c] \in {"last", "release"}
        /\ \A d \in Callers : d # c => pc'[d] = pc[d]
    BY <1>7 DEF FinalizeRun, SaveEnd, Pcs
  <2>5. QED
    BY <2>2, <2>3, <2>4
<1>8. ASSUME NEW p \in Procs,
             RequestCancellation(p) \/ Crash(p) \/ Startup(p)
      PROVE  SettledInv' /\ RunningRowIsOwned'
  BY <1>8 DEF RequestCancellation, Crash, Startup
<1>9. CASE (\E r \in Runs : RowAges(r) \/ PruneRow(r)) \/ ClearAllRuns
  BY <1>9 DEF RowAges, PruneRow, ClearAllRuns
<1>10. QED
  BY <1>1, <1>2, <1>3, <1>4, <1>5, <1>6, <1>7, <1>8, <1>9
     DEF Next, CallerStep, Advance

\* cleanup_stuck_runs and the saves in the exception handlers suffice: unless a
\* save itself is lost, no row says "running" once its caller has left and all
\* processes are up, so the five-minute guard blocks nobody for nothing.
THEOREM RunningRowIsOwnedHolds ==
    ASSUME "save" \notin Faults
    PROVE  Spec => []RunningRowIsOwned
<1>1. Init => SettledInv /\ RunningRowIsOwned
  BY DEF Init, SettledInv, RunningRowIsOwned
<1>2. TypeOK /\ RunInv /\ RowInv /\ SettledInv /\ RunningRowIsOwned /\ [Next]_vars
        => (SettledInv /\ RunningRowIsOwned)'
  BY OwnerStep
<1>3. QED
  BY <1>1, <1>2, RowsAreKnown, PTL DEF Spec

-----------------------------------------------------------------------------
(* The ledger of one process *)

\* A process that is down runs no caller.
DownInv == \A c \in Callers : ~up[ProcOf[c]] => pc[c] = "idle"

\* Every step keeps DownInv.
LEMMA DownStep ==
    ASSUME TypeOK, DownInv, [Next]_vars
    PROVE  DownInv'
<1> USE ProcOfAssumption
<1> USE DEF procVars, dbVars, callerVars, TypeOK, DownInv, Goto
<1>1. CASE UNCHANGED vars
  BY <1>1 DEF vars
<1>2. ASSUME NEW c \in Callers, CallerStep(c)
      PROVE  DownInv'
  <2>1. up' = up
    BY <1>2 DEF CallerStep, Advance, BeginCron, BeginSync, BeginStream,
       StartGeneration, Connect, ConnectRaises, Acquire, CheckFlag, Claim,
       ClaimRejected, ClaimFails, OpenRaises, Checkpoint, ReportPhase,
       PhaseRaises, FinalizeRun, Finish, SaveEnd, Release, MarkResult
  <2>2. up[ProcOf[c]] \/ pc[c] # "idle"
    BY <1>2 DEF CallerStep, Advance, BeginCron, BeginSync, BeginStream,
       StartGeneration, Connect, ConnectRaises, Acquire, CheckFlag, Claim,
       ClaimRejected, ClaimFails, OpenRaises, Checkpoint, ReportPhase,
       PhaseRaises, FinalizeRun, Finish, SaveEnd, Release, MarkResult, Working
  <2>3. \A d \in Callers : d # c => pc'[d] = pc[d]
    BY <1>2 DEF CallerStep, Advance, BeginCron, BeginSync, BeginStream,
       StartGeneration, Connect, ConnectRaises, Acquire, CheckFlag, Claim,
       ClaimRejected, ClaimFails, OpenRaises, Checkpoint, ReportPhase,
       PhaseRaises, FinalizeRun, Finish, SaveEnd, Release, MarkResult
  <2>4. QED
    BY <2>1, <2>2, <2>3
<1>3. ASSUME NEW p \in Procs,
             RequestCancellation(p) \/ Crash(p) \/ Startup(p)
      PROVE  DownInv'
  BY <1>3 DEF RequestCancellation, Crash, Startup
<1>4. CASE (\E r \in Runs : RowAges(r) \/ PruneRow(r)) \/ ClearAllRuns
  BY <1>4 DEF RowAges, PruneRow, ClearAllRuns
<1>5. QED
  BY <1>1, <1>2, <1>3, <1>4 DEF Next

\* While the workflow runs, its row is running or has been cleared; a run that
\* fails may have been finalized already.
StageInv ==
    \A c \in Callers :
        /\ pc[c] \in {"check", "report", "saveCancelled"}
              => rows[run[c]] \in {"running", "none"}
        /\ pc[c] = "saveFailed"
              => rows[run[c]] \in {"running", "completed", "none"}

\* Every step of a single process keeps StageInv: only a restart of the process
\* itself could mark the row of a run that is under way.
LEMMA StageStep ==
    ASSUME TypeOK, RunInv, RowInv, DownInv, StageInv, NEW p, Procs = {p},
           [Next]_vars
    PROVE  StageInv'
<1> USE SentinelAssumption, ProcOfAssumption
<1> USE DEF procVars, dbVars, callerVars, TypeOK, StageInv, RunInv, Goto, HasRow
<1>1. CASE UNCHANGED vars
  BY <1>1 DEF vars
<1>2. ASSUME NEW c \in Callers, Claim(c)
      PROVE  StageInv'
  BY <1>2 DEF Claim, NewRow
<1>3. ASSUME NEW c \in Callers, FinalizeRun(c) \/ SaveEnd(c)
      PROVE  StageInv'
  BY <1>3 DEF FinalizeRun, SaveEnd, Saved
<1>4. ASSUME NEW c \in Callers, CallerStep(c), ~Claim(c), ~PhaseRaises(c),
             ~(FinalizeRun(c) \/ SaveEnd(c))
      PROVE  StageInv'
  <2>1. rows' = rows /\ \A d \in Callers : d # c => pc'[d] = pc[d] /\ run'[d] = run[d]
    BY <1>4 DEF CallerStep, Advance, BeginCron, BeginSync, BeginStream,
       StartGeneration, Connect, ConnectRaises, Acquire, CheckFlag,
       ClaimRejected, ClaimFails, OpenRaises, Checkpoint, ReportPhase,
       Finish, Release, MarkResult
  <2>2. /\ pc'[c] \in {"check", "report", "saveCancelled"}
              => run'[c] = run[c] /\ pc[c] \in {"check", "report", "saveCancelled"}
        /\ pc'[c] # "saveFailed"
    BY <1>4 DEF CallerStep, Advance, BeginCron, BeginSync, BeginStream,
       StartGeneration, Connect, ConnectRaises, Acquire, CheckFlag,
       ClaimRejected, ClaimFails, OpenRaises, Checkpoint, ReportPhase,
       Finish, Release, MarkResult
  <2>3. QED
    BY <2>1, <2>2
<1>5. ASSUME NEW q \in Procs, RequestCancellation(q) \/ Crash(q)
      PROVE  StageInv'
  BY <1>5 DEF RequestCancellation, Crash
<1>6. ASSUME NEW q \in Procs, Startup(q)
      PROVE  StageInv'
  <2>1. \A c \in Callers : pc[c] = "idle"
    BY <1>6 DEF Startup, DownInv
  <2>2. QED
    BY <1>6, <2>1 DEF Startup
<1>7. CASE (\E r \in Runs : RowAges(r) \/ PruneRow(r)) \/ ClearAllRuns
  BY <1>7 DEF RowAges, PruneRow, ClearAllRuns
<1>8. ASSUME NEW c \in Callers, PhaseRaises(c)
      PROVE  StageInv'
  BY <1>8 DEF PhaseRaises, Working, RowInv
<1>9. QED
  BY <1>1, <1>2, <1>3, <1>4, <1>5, <1>6, <1>7, <1>8 DEF Next

\* The run that is under way is the one of the only caller inside.
LEMMA CurrentIs ==
    ASSUME NEW c \in Callers, InRun(c), \A d \in Callers : InRun(d) => d = c
    PROVE  Current = run[c]
<1>1. (CHOOSE d \in Callers : InRun(d)) = c
  OBVIOUS
<1>2. QED
  BY <1>1 DEF Current

\* The same of the next state.
LEMMA CurrentBecomes ==
    ASSUME NEW c \in Callers, InRun(c)', \A d \in Callers : InRun(d)' => d = c
    PROVE  Current' = run'[c]
<1>1. (CHOOSE d \in Callers : InRun(d)') = c
  OBVIOUS
<1>2. QED
  BY <1>1 DEF Current

\* What the ledger rests on: the invariants of the lock, the runs and the rows.
LedgerInv == TypeOK /\ LockInv /\ RunInv /\ RowInv /\ DownInv /\ StageInv

\* In a single process only one caller is inside its run.
LEMMA OneInRun ==
    ASSUME LedgerInv, NEW p, Procs = {p}, NEW c \in Callers, NEW d \in Callers,
           InRun(c), InRun(d)
    PROVE  c = d
BY ProcOfAssumption DEF LedgerInv, LockInv, InRun, Holding, Working

\* A step that neither enters nor leaves a run does not change which one it is.
LEMMA CurrentStays ==
    ASSUME LedgerInv, NEW p, Procs = {p},
           \A c \in Callers : InRun(c)' <=> InRun(c),
           \A c \in Callers : InRun(c) => run'[c] = run[c]
    PROVE  Current' = Current
<1>1. CASE \E c \in Callers : InRun(c)
  <2>1. PICK c \in Callers : InRun(c)
    BY <1>1
  <2>2. \A d \in Callers : InRun(d) => d = c
    BY <2>1, OneInRun
  <2>3. Current = run[c] /\ Current' = run'[c]
    BY <2>1, <2>2, CurrentIs, CurrentBecomes
  <2>4. QED
    BY <2>1, <2>3
<1>2. CASE ~ \E c \in Callers : InRun(c)
  BY <1>2 DEF Current
<1>3. QED
  BY <1>1, <1>2

\* Every step of a single process is a step of the ledger, or does not show.
LEMMA LedgerStep ==
    ASSUME LedgerInv, LedgerInv', NEW p, Procs = {p}, Next
    PROVE  [Ledger!Next]_(Ledger!ledger)
<1> USE SentinelAssumption, ProcOfAssumption
<1> USE DEF procVars, dbVars, callerVars, LedgerInv, TypeOK, Goto, InRun, Working
<1> SUFFICES ASSUME ~(rows' = rows /\ Current' = Current)
             PROVE  Ledger!Next
  BY DEF Ledger!ledger
<1>0. \A c, d \in Callers : InRun(c)' /\ InRun(d)' => c = d
  BY DEF LockInv, Holding
<1>1. ASSUME NEW c \in Callers, Claim(c)
      PROVE  Ledger!Next
  <2>1. PICK r \in Runs : /\ NewRow(r)
                          /\ rows' = [rows EXCEPT ![r] = "running"]
                          /\ run' = [run EXCEPT ![c] = r]
    BY <1>1 DEF Claim
  <2>2. \A d \in Callers : ~InRun(d)
    BY <1>1 DEF Claim, LockInv, Holding
  <2>3. Current = NoRun
    BY <2>2 DEF Current
  <2>4. InRun(c)'
    BY <1>1 DEF Claim
  <2>5. Current' = r
    BY <2>1, <2>4, <1>0, CurrentBecomes
  <2>6. Ledger!Begin(r)
    BY <2>1, <2>3, <2>5 DEF NewRow, Ledger!Begin
  <2>7. QED
    BY <2>6 DEF Ledger!Next
<1>2. ASSUME NEW c \in Callers, FinalizeRun(c) \/ SaveEnd(c)
      PROVE  Ledger!Next
  <2>1. InRun(c) /\ run[c] \in Runs
    BY <1>2 DEF FinalizeRun, SaveEnd, RunInv, HasRow
  <2>2. Current = run[c]
    BY <2>1, OneInRun, CurrentIs
  <2>3. \A d \in Callers : InRun(d)' <=> InRun(d)
    BY <1>2 DEF FinalizeRun, SaveEnd
  <2>4. run' = run
    BY <1>2 DEF FinalizeRun, SaveEnd
  <2>5. Current' = Current
    BY <2>3, <2>4, CurrentStays
  <2>6. rows[run[c]] # "none"
    BY <1>2, <2>5 DEF FinalizeRun, SaveEnd, Saved
  <2>7. CASE FinalizeRun(c)
    <3>1. rows' = [rows EXCEPT ![Current] = "completed"] /\ rows[Current] = "running"
      BY <2>7, <2>2, <2>6 DEF FinalizeRun, Saved, StageInv
    <3>2. Ledger!Record("completed")
      BY <3>1, <2>1, <2>2, <2>5 DEF Ledger!Record
    <3>3. QED
      BY <3>2 DEF Ledger!Next
  <2>8. CASE SaveEnd(c) /\ pc[c] = "saveCancelled"
    <3>1. rows' = [rows EXCEPT ![Current] = "cancelled"] /\ rows[Current] = "running"
      BY <2>8, <2>2, <2>5, <2>6 DEF SaveEnd, Saved, StageInv
    <3>2. Ledger!Record("cancelled")
      BY <3>1, <2>1, <2>2, <2>5 DEF Ledger!Record
    <3>3. QED
      BY <3>2 DEF Ledger!Next
  <2>9. CASE SaveEnd(c) /\ pc[c] = "saveFailed"
    <3>1. rows' = [rows EXCEPT ![Current] = "failed"]
      BY <2>9, <2>2, <2>5, <2>6 DEF SaveEnd, Saved
    <3>2. rows[Current] \in {"running", "completed"}
      BY <2>9, <2>2, <2>6 DEF StageInv
    <3>3. Ledger!Record("failed")
      BY <3>1, <3>2, <2>1, <2>2, <2>5 DEF Ledger!Record
    <3>4. QED
      BY <3>3 DEF Ledger!Next
  <2>10. QED
    BY <1>2, <2>7, <2>8, <2>9 DEF SaveEnd
<1>3. ASSUME NEW c \in Callers, Release(c)
      PROVE  Ledger!Next
  <2>1. InRun(c) /\ run[c] \in Runs
    BY <1>3 DEF Release, RunInv, HasRow
  <2>2. Current = run[c]
    BY <2>1, OneInRun, CurrentIs
  <2>3. \A d \in Callers : ~InRun(d)'
    BY <1>3, <2>1, OneInRun DEF Release
  <2>4. Current' = NoRun
    BY <2>3 DEF Current
  <2>5. Ledger!End
    BY <1>3, <2>1, <2>2, <2>4 DEF Release, Ledger!End
  <2>6. QED
    BY <2>5 DEF Ledger!Next
<1>4. ASSUME NEW c \in Callers, CallerStep(c), ~Claim(c), ~Release(c),
             ~(FinalizeRun(c) \/ SaveEnd(c))
      PROVE  FALSE
  <2>1. rows' = rows
    BY <1>4 DEF CallerStep, Advance, BeginCron, BeginSync, BeginStream,
       StartGeneration, Connect, ConnectRaises, Acquire, CheckFlag,
       ClaimRejected, ClaimFails, OpenRaises, Checkpoint, ReportPhase,
       PhaseRaises, Finish, MarkResult
  <2>2. \A d \in Callers : d # c => pc'[d] = pc[d] /\ run'[d] = run[d]
    BY <1>4 DEF CallerStep, Advance, BeginCron, BeginSync, BeginStream,
       StartGeneration, Connect, ConnectRaises, Acquire, CheckFlag,
       ClaimRejected, ClaimFails, OpenRaises, Checkpoint, ReportPhase,
       PhaseRaises, Finish, MarkResult
  <2>3. (InRun(c)' <=> InRun(c)) /\ (InRun(c) => run'[c] = run[c])
    BY <1>4 DEF CallerStep, Advance, BeginCron, BeginSync, BeginStream,
       StartGeneration, Connect, ConnectRaises, Acquire, CheckFlag,
       ClaimRejected, ClaimFails, OpenRaises, Checkpoint, ReportPhase,
       PhaseRaises, Finish, MarkResult
  <2>4. Current' = Current
    BY <2>2, <2>3, CurrentStays
  <2>5. QED
    BY <2>1, <2>4
<1>5. ASSUME NEW q \in Procs, Crash(q)
      PROVE  Ledger!Next
  <2>1. \A d \in Callers : ~InRun(d)'
    BY <1>5 DEF Crash
  <2>2. Current' = NoRun /\ rows' = rows
    BY <1>5, <2>1 DEF Current, Crash
  <2>3. Ledger!End
    BY <2>2 DEF Ledger!End
  <2>4. QED
    BY <2>3 DEF Ledger!Next
<1>6. ASSUME NEW q \in Procs, Startup(q)
      PROVE  Ledger!Next
  <2>1. \A d \in Callers : ~InRun(d) /\ ~InRun(d)'
    BY <1>6 DEF Startup, DownInv
  <2>2. Current = NoRun /\ Current' = NoRun
    BY <2>1 DEF Current
  <2>3. Ledger!Recover
    BY <1>6, <2>2 DEF Startup, Ledger!Recover
  <2>4. QED
    BY <2>3 DEF Ledger!Next
<1>7. ASSUME pc' = pc, run' = run
      PROVE  Current' = Current
  BY <1>7, CurrentStays
<1>8. ASSUME NEW r \in Runs, PruneRow(r)
      PROVE  Ledger!Next
  <2>1. Current' = Current
    BY <1>7, <1>8 DEF PruneRow
  <2>2. Current \notin {r}
    BY <1>8 DEF PruneRow, Current
  <2>3. rows' = [s \in Runs |-> IF s \in {r} THEN "none" ELSE rows[s]]
    BY <1>8 DEF PruneRow
  <2>4. Ledger!Discard({r})
    BY <2>1, <2>2, <2>3 DEF Ledger!Discard
  <2>5. QED
    BY <2>4 DEF Ledger!Next
<1>9. CASE ClearAllRuns
  <2>1. Current' = Current
    BY <1>7, <1>9 DEF ClearAllRuns
  <2>2. Ledger!Discard(Runs)
    BY <1>9, <2>1 DEF ClearAllRuns, Ledger!Discard
  <2>3. QED
    BY <2>2 DEF Ledger!Next
<1>10. CASE \/ \E q \in Procs : RequestCancellation(q)
            \/ \E r \in Runs : RowAges(r)
  BY <1>7, <1>10 DEF RequestCancellation, RowAges
<1>11. QED
  BY <1>1, <1>2, <1>3, <1>4, <1>5, <1>6, <1>8, <1>9, <1>10 DEF Next

\* One process: however entry points, phases, saves, cancellations, crashes and
\* clears interleave, the table shows runs that follow one another, each with
\* an outcome that it has recorded itself, or the restart for it.
THEOREM KeepsTheLedgerHolds ==
    ASSUME NEW p, Procs = {p}
    PROVE  Spec => KeepsTheLedger
<1>1. Init => LockInv /\ DownInv /\ StageInv /\ Ledger!Init
  BY DEF Init, LockInv, Holding, DownInv, StageInv, Ledger!Init, Current, InRun,
     Working
<1>2. TypeOK /\ LockInv /\ [Next]_vars => LockInv'
  BY LockStep
<1>3. TypeOK /\ DownInv /\ [Next]_vars => DownInv'
  BY DownStep
<1>4. TypeOK /\ RunInv /\ RowInv /\ DownInv /\ StageInv /\ [Next]_vars => StageInv'
  BY StageStep
<1>5. LedgerInv /\ LedgerInv' /\ [Next]_vars => [Ledger!Next]_(Ledger!ledger)
  <2>1. ASSUME LedgerInv, UNCHANGED vars
        PROVE  UNCHANGED Ledger!ledger
    BY <2>1 DEF vars, Ledger!ledger, Current, InRun
  <2>2. QED
    BY <2>1, LedgerStep
<1>6. QED
  BY <1>1, <1>2, <1>3, <1>4, <1>5, RowsAreKnown, PTL
     DEF Spec, LedgerInv, KeepsTheLedger, Ledger!Spec

=============================================================================
