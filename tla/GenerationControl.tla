-------------------------- MODULE GenerationControl --------------------------
(***************************************************************************)
(* Who may run a full EPG generation, and what the rest of the program is  *)
(* told about it.                                                          *)
(*                                                                         *)
(* A caller is one activation of the three places that start a generation: *)
(* the cron task (consumers/scheduler.py), POST /epg/generate and          *)
(* GET /epg/generate/stream (api/routes/epg.py).  Callers live in server   *)
(* processes; each process has its own module globals (_generation_lock,   *)
(* _generation_running, the GenerationStatus object) and all processes     *)
(* share the table processing_runs.                                        *)
(*                                                                         *)
(* One action is one atomic piece of the code: a critical section of       *)
(* _status_lock, a lock operation, one database transaction.  What a phase *)
(* of the workflow does is left to other modules; here a phase checks for  *)
(* cancellation, reports its percentage, and may raise.                    *)
(***************************************************************************)
EXTENDS Naturals, FiniteSets

CONSTANTS
    Procs,          \* server processes sharing one database
    Callers,        \* activations that start a generation
    ProcOf,         \* ProcOf[c]: the process of caller c
    Kind,           \* Kind[c]: which entry point c is
    Runs,           \* ids of rows of processing_runs (run_type 'full_epg')
    NPhases,        \* checkpoints of the workflow that are kept
    PhasePercent,   \* PhasePercent[k]: the percentage phase k reports
    Faults,         \* what may go wrong: a subset of FaultKinds
    NoCaller, NoRun

Kinds      == {"cron", "sync", "stream"}
FaultKinds == {"open", "claim", "connect", "phase", "save", "stats", "crash",
               "clear"}
States     == {"idle", "starting", "progress", "complete", "error", "cancelled"}
RowStates  == {"none", "running", "completed", "failed", "cancelled"}
Outcomes   == {"none", "ok", "busy", "cancelled", "error", "raised"}

ASSUME ProcOfAssumption == ProcOf \in [Callers -> Procs]
ASSUME KindAssumption   == Kind \in [Callers -> Kinds]
ASSUME PhaseAssumption  == /\ NPhases \in Nat
                           /\ PhasePercent \in [1..NPhases -> 0..100]
ASSUME FaultAssumption  == Faults \subseteq FaultKinds
ASSUME SentinelAssumption == NoCaller \notin Callers /\ NoRun \notin Runs

VARIABLES
    up,        \* up[p]: process p is running
    lock,      \* lock[p]: holder of _generation_lock
    running,   \* running[p]: _generation_running
    status,    \* status[p]: the GenerationStatus object of p, and in "left"
               \* whether the caller it was started by raised out of its task
    rows,      \* rows[r]: status column of row r ("none": no such row)
    fresh,     \* rows whose started_at is less than five minutes old
    pc,        \* pc[c]: where caller c is
    run,       \* run[c]: the row c created
    phase,     \* phase[c]: phases c has begun
    res        \* res[c]: the GenerationResult c got, or that it raised

procVars   == <<up, lock, running>>
callerVars == <<pc, run, phase, res>>
dbVars     == <<rows, fresh>>
vars       == <<up, lock, running, status, rows, fresh, pc, run, phase, res>>

Pcs == {"idle", "start", "connect", "acquire", "flag", "claim", "check",
        "report", "last", "saveCancelled", "saveFailed", "release", "returned"}

\* The pcs at which a caller is inside run_full_generation with the lock.
Holding == {"flag", "claim", "check", "report", "last", "saveCancelled",
            "saveFailed", "release"}

\* The pcs at which the workflow itself is executing.
Working == {"check", "report", "last"}

IdleStatus == [inProgress |-> FALSE, state |-> "idle", percent |-> 0,
               cancel |-> FALSE, left |-> FALSE]

Init ==
    /\ up      = [p \in Procs |-> TRUE]
    /\ lock    = [p \in Procs |-> NoCaller]
    /\ running = [p \in Procs |-> FALSE]
    /\ status  = [p \in Procs |-> IdleStatus]
    /\ rows    = [r \in Runs |-> "none"]
    /\ fresh   = {}
    /\ pc      = [c \in Callers |-> "idle"]
    /\ run     = [c \in Callers |-> NoRun]
    /\ phase   = [c \in Callers |-> 0]
    /\ res     = [c \in Callers |-> "none"]

Goto(c, l)  == pc' = [pc EXCEPT ![c] = l]
Return(c, o) == res' = [res EXCEPT ![c] = o]
Status(c)   == status[ProcOf[c]]
SetStatus(c, s) == status' = [status EXCEPT ![ProcOf[c]] = s]

-----------------------------------------------------------------------------
(* consumers/generation_status.py                                           *)

Started == [inProgress |-> TRUE, state |-> "starting", percent |-> 0,
            cancel |-> FALSE, left |-> FALSE]

\* Mutant: the percentages of the phases are added up.
ProgressedBySum(s, k) ==
    [inProgress |-> s.inProgress, state |-> "progress",
     percent |-> s.percent + k, cancel |-> s.cancel, left |-> s.left]

\* The percentage never goes backwards within one start.
Progressed(s, k) ==
    [inProgress |-> s.inProgress, state |-> "progress",
     percent |-> IF k > s.percent THEN k ELSE s.percent, cancel |-> s.cancel,
     left |-> s.left]

Completed(s) == [inProgress |-> FALSE, state |-> "complete", percent |-> 100,
                 cancel |-> s.cancel, left |-> s.left]

Ended(s, state) == [inProgress |-> FALSE, state |-> state,
                    percent |-> s.percent, cancel |-> s.cancel,
                    left |-> s.left]
Failed(s)    == Ended(s, "error")
Cancelled(s) == Ended(s, "cancelled")
Requested(s) == [inProgress |-> s.inProgress, state |-> s.state,
                 percent |-> s.percent, cancel |-> TRUE, left |-> s.left]
\* Nothing is written: the exception goes past the caller of the task.
Left(s)      == [inProgress |-> s.inProgress, state |-> s.state,
                 percent |-> s.percent, cancel |-> s.cancel, left |-> TRUE]

\* POST /epg/generate/cancel: acknowledged only while in_progress.
RequestCancellation(p) ==
    /\ up[p]
    /\ status[p].inProgress
    /\ status' = [status EXCEPT ![p] = Requested(@)]
    /\ UNCHANGED <<procVars, dbVars, callerVars>>

-----------------------------------------------------------------------------
(* The callers, before run_full_generation                                  *)

\* The cron task marks the generation started before it connects.
BeginCron(c) ==
    /\ Kind[c] = "cron"
    /\ pc[c] = "idle"
    /\ up[ProcOf[c]]
    /\ Goto(c, "start")
    /\ UNCHANGED <<procVars, status, dbVars, run, phase, res>>

\* The blocking endpoint connects first.
BeginSync(c) ==
    /\ Kind[c] = "sync"
    /\ pc[c] = "idle"
    /\ up[ProcOf[c]]
    /\ Goto(c, "connect")
    /\ UNCHANGED <<procVars, status, dbVars, run, phase, res>>

\* The streaming endpoint answers at once when a generation is in progress.
BeginStream(c) ==
    /\ Kind[c] = "stream"
    /\ pc[c] = "idle"
    /\ up[ProcOf[c]]
    /\ ~Status(c).inProgress
    /\ Goto(c, "start")
    /\ UNCHANGED <<procVars, status, dbVars, run, phase, res>>

StartGeneration(c) ==
    /\ pc[c] = "start"
    /\ IF Status(c).inProgress
       THEN /\ Goto(c, "idle")
            /\ UNCHANGED status
       ELSE /\ Goto(c, IF Kind[c] = "sync" THEN "acquire" ELSE "connect")
            /\ SetStatus(c, Started)
    /\ UNCHANGED <<procVars, dbVars, run, phase, res>>

Connect(c) ==
    /\ pc[c] = "connect"
    /\ Goto(c, IF Kind[c] = "sync" THEN "start" ELSE "acquire")
    /\ UNCHANGED <<procVars, status, dbVars, run, phase, res>>

\* get_dispatcharr_connection raises.  The blocking endpoint has not started
\* anything yet, the streaming thread is inside its try, the cron task is
\* not: the exception leaves _task_generate_epg.
ConnectRaises(c) ==
    /\ "connect" \in Faults
    /\ pc[c] = "connect"
    /\ Goto(c, IF Kind[c] = "sync" THEN "idle" ELSE "returned")
    /\ IF Kind[c] = "sync" THEN UNCHANGED res ELSE Return(c, "raised")
    /\ UNCHANGED <<procVars, status, dbVars, run, phase>>

-----------------------------------------------------------------------------
(* run_full_generation: admission                                           *)

\* Mutant: the result of acquire() is not looked at.
AcquireUnchecked(c) ==
    /\ pc[c] = "acquire"
    /\ lock' = [lock EXCEPT ![ProcOf[c]] = c]
    /\ Goto(c, "flag")
    /\ UNCHANGED <<up, running, status, dbVars, run, phase, res>>

\* _generation_lock.acquire(blocking=False)
Acquire(c) ==
    /\ pc[c] = "acquire"
    /\ IF lock[ProcOf[c]] = NoCaller
       THEN /\ lock' = [lock EXCEPT ![ProcOf[c]] = c]
            /\ Goto(c, "flag")
            /\ UNCHANGED res
       ELSE /\ Goto(c, "returned")
            /\ Return(c, "busy")
            /\ UNCHANGED lock
    /\ UNCHANGED <<up, running, status, dbVars, run, phase>>

CheckFlag(c) ==
    /\ pc[c] = "flag"
    /\ IF running[ProcOf[c]]
       THEN /\ lock' = [lock EXCEPT ![ProcOf[c]] = NoCaller]
            /\ Goto(c, "returned")
            /\ Return(c, "busy")
            /\ UNCHANGED running
       ELSE /\ running' = [running EXCEPT ![ProcOf[c]] = TRUE]
            /\ Goto(c, "claim")
            /\ UNCHANGED <<lock, res>>
    /\ UNCHANGED <<up, status, dbVars, run, phase>>

\* Mutant: the flag is cleared and the lock is not released.
UnlockFlagOnly(c) == /\ running' = [running EXCEPT ![ProcOf[c]] = FALSE]
                     /\ UNCHANGED lock

Unlock(c) == /\ lock'    = [lock EXCEPT ![ProcOf[c]] = NoCaller]
             /\ running' = [running EXCEPT ![ProcOf[c]] = FALSE]

FreshRunning == {r \in fresh : rows[r] = "running"}

\* A row id that AUTOINCREMENT may hand out.  The ids are finitely many, so the
\* id of a finished row that no caller remembers stands for a new one again.
NewRow(r) == rows[r] # "running" /\ \A d \in Callers : run[d] # r

\* Mutant: the insert does not look for a recent running row.
ClaimUnguarded(c) ==
    /\ pc[c] = "claim"
    /\ \E r \in Runs :
         /\ NewRow(r)
         /\ rows'  = [rows EXCEPT ![r] = "running"]
         /\ fresh' = fresh \cup {r}
         /\ run'   = [run EXCEPT ![c] = r]
    /\ phase' = [phase EXCEPT ![c] = 0]
    /\ Goto(c, "check")
    /\ UNCHANGED <<procVars, status, res>>

\* BEGIN IMMEDIATE; a recent running row rejects the caller, otherwise
\* create_run inserts and commits: one write transaction.
Claim(c) ==
    /\ pc[c] = "claim"
    /\ FreshRunning = {}
    /\ \E r \in Runs :
         /\ NewRow(r)
         /\ rows'  = [rows EXCEPT ![r] = "running"]
         /\ fresh' = fresh \cup {r}
         /\ run'   = [run EXCEPT ![c] = r]
    /\ phase' = [phase EXCEPT ![c] = 0]
    /\ Goto(c, "check")
    /\ UNCHANGED <<procVars, status, res>>

ClaimRejected(c) ==
    /\ pc[c] = "claim"
    /\ FreshRunning # {}
    /\ Unlock(c)
    /\ Goto(c, "returned")
    /\ Return(c, "busy")
    /\ UNCHANGED <<up, status, dbVars, run, phase>>

\* An exception inside the transaction: rolled back, lock released.
ClaimFails(c) ==
    /\ "claim" \in Faults
    /\ pc[c] = "claim"
    /\ Unlock(c)
    /\ Goto(c, "returned")
    /\ Return(c, "error")
    /\ UNCHANGED <<up, status, dbVars, run, phase>>

\* The connection cannot be opened: "with db_factory()" raises outside every
\* try, so neither the flag nor the lock is given back.
OpenRaises(c) ==
    /\ "open" \in Faults
    /\ pc[c] = "claim"
    /\ Goto(c, "returned")
    /\ Return(c, "raised")
    /\ UNCHANGED <<procVars, status, dbVars, run, phase>>

-----------------------------------------------------------------------------
(* run_full_generation: the workflow                                        *)

\* check_cancelled() between two phases.  A pending request raises
\* GenerationCancelled, whose handler first calls cancel_generation().
Checkpoint(c) ==
    /\ pc[c] = "check"
    /\ phase[c] < NPhases
    /\ IF Status(c).cancel
       THEN /\ SetStatus(c, Cancelled(Status(c)))
            /\ Goto(c, "saveCancelled")
            /\ UNCHANGED phase
       ELSE /\ phase' = [phase EXCEPT ![c] = @ + 1]
            /\ Goto(c, "report")
            /\ UNCHANGED status
    /\ UNCHANGED <<procVars, dbVars, run, res>>

\* update_progress(...), through the caller's progress callback.
ReportPhase(c) ==
    /\ pc[c] = "report"
    /\ SetStatus(c, Progressed(Status(c), PhasePercent[phase[c]]))
    /\ Goto(c, "check")
    /\ UNCHANGED <<procVars, dbVars, run, phase, res>>

PhaseRaises(c) ==
    /\ "phase" \in Faults
    /\ pc[c] \in Working
    /\ Goto(c, "saveFailed")
    /\ UNCHANGED <<procVars, status, dbVars, run, phase, res>>

\* Mutant: the UPDATE has lost its WHERE id.
SavedEverywhere(c, s) ==
    [r \in Runs |-> IF rows[r] = "running" THEN s ELSE rows[r]]

\* save_run is an UPDATE by id: it does nothing to a row that is gone.
Saved(c, s) == IF rows[run[c]] = "none" THEN rows
                                       ELSE [rows EXCEPT ![run[c]] = s]

\* Mutant: the run is finalized in memory and not saved.
FinalizeUnsaved(c) ==
    /\ pc[c] = "check"
    /\ phase[c] = NPhases
    /\ Goto(c, "last")
    /\ UNCHANGED <<procVars, status, dbVars, run, phase, res>>

\* _finalize_stats_run after the last phase.
FinalizeRun(c) ==
    /\ pc[c] = "check"
    /\ phase[c] = NPhases
    /\ rows' = Saved(c, "completed")
    /\ Goto(c, "last")
    /\ UNCHANGED <<procVars, status, fresh, run, phase, res>>

\* result.success = True; update_progress("complete", 100); flush the cache.
\* (An exception here is PhaseRaises.)
Finish(c) ==
    /\ pc[c] = "last"
    /\ SetStatus(c, Progressed(Status(c), 100))
    /\ Return(c, "ok")
    /\ Goto(c, "release")
    /\ UNCHANGED <<procVars, dbVars, run, phase>>

\* Mutant: stats_run.complete() is called with its default status.
SaveEndDefault(c) ==
    /\ pc[c] \in {"saveCancelled", "saveFailed"}
    /\ rows' = Saved(c, "completed")
    /\ Return(c, IF pc[c] = "saveCancelled" THEN "cancelled" ELSE "error")
    /\ Goto(c, "release")
    /\ UNCHANGED <<procVars, status, fresh, run, phase>>

\* The save that ends a cancelled or a failed run; an error is swallowed.
SaveEnd(c) ==
    /\ pc[c] \in {"saveCancelled", "saveFailed"}
    /\ \/ rows' = Saved(c, IF pc[c] = "saveCancelled" THEN "cancelled"
                                                     ELSE "failed")
       \/ "save" \in Faults /\ UNCHANGED rows
    /\ Return(c, IF pc[c] = "saveCancelled" THEN "cancelled" ELSE "error")
    /\ Goto(c, "release")
    /\ UNCHANGED <<procVars, status, fresh, run, phase>>

\* finally: the flag, then the lock.  Only a lock holder reads the flag.
Release(c) ==
    /\ pc[c] = "release"
    /\ Unlock(c)
    /\ Goto(c, "returned")
    /\ UNCHANGED <<up, status, dbVars, run, phase, res>>

-----------------------------------------------------------------------------
(* The callers, after run_full_generation                                   *)

\* Mutant: the connection is opened before the try of the streaming thread, as
\* it is in the cron task.
MarksOutsideTry(c, s) ==
    CASE res[c] = "ok"                               -> {Completed(s)}
      [] res[c] = "cancelled" /\ Kind[c] = "stream"  -> {s}
      [] res[c] = "raised" /\ Kind[c] = "cron"       -> {Left(s)}
      [] res[c] = "raised" /\ Kind[c] = "stream"     -> {s}
      [] OTHER                                       -> {Failed(s)}

\* What each entry point writes into the status for each outcome.  The
\* streaming thread knows that a cancelled run is already marked, and fails if
\* it cannot read the match statistics of a good one; an exception escapes the
\* cron task without a mark.
Marks(c, s) ==
    CASE res[c] = "ok" /\ Kind[c] = "stream" /\ "stats" \in Faults
                                            -> {Completed(s), Failed(s)}
      [] res[c] = "ok"                               -> {Completed(s)}
      [] res[c] = "cancelled" /\ Kind[c] = "stream"  -> {s}
      [] res[c] = "raised" /\ Kind[c] = "cron"       -> {Left(s)}
      [] OTHER                                       -> {Failed(s)}

MarkResult(c) ==
    /\ pc[c] = "returned"
    /\ \E s \in Marks(c, Status(c)) : SetStatus(c, s)
    /\ run'   = [run EXCEPT ![c] = NoRun]
    /\ phase' = [phase EXCEPT ![c] = 0]
    /\ Return(c, "none")
    /\ Goto(c, "idle")
    /\ UNCHANGED <<procVars, dbVars>>

-----------------------------------------------------------------------------
(* The database and the processes                                           *)

\* Five minutes pass since row r was started.
RowAges(r) ==
    /\ r \in fresh
    /\ fresh' = fresh \ {r}
    /\ UNCHANGED <<procVars, status, rows, callerVars>>

\* cleanup_old_runs (a row of thirty days ago), run by every generation.
PruneRow(r) ==
    /\ r \notin fresh
    /\ rows[r] # "none"
    /\ \A c \in Callers : run[c] # r
    /\ rows' = [rows EXCEPT ![r] = "none"]
    /\ UNCHANGED <<procVars, status, fresh, callerVars>>

\* DELETE /stats/runs
ClearAllRuns ==
    /\ "clear" \in Faults
    /\ rows'  = [r \in Runs |-> "none"]
    /\ fresh' = {}
    /\ UNCHANGED <<procVars, status, callerVars>>

Crash(p) ==
    /\ "crash" \in Faults
    /\ up[p]
    /\ LET dead(c) == ProcOf[c] = p
       IN  /\ pc'    = [c \in Callers |-> IF dead(c) THEN "idle" ELSE pc[c]]
           /\ run'   = [c \in Callers |-> IF dead(c) THEN NoRun ELSE run[c]]
           /\ phase' = [c \in Callers |-> IF dead(c) THEN 0 ELSE phase[c]]
           /\ res'   = [c \in Callers |-> IF dead(c) THEN "none" ELSE res[c]]
    /\ up'      = [up EXCEPT ![p] = FALSE]
    /\ lock'    = [lock EXCEPT ![p] = NoCaller]
    /\ running' = [running EXCEPT ![p] = FALSE]
    /\ status'  = [status EXCEPT ![p] = IdleStatus]
    /\ UNCHANGED dbVars

\* Mutant: startup without cleanup_stuck_runs.
StartupNoCleanup(p) ==
    /\ ~up[p]
    /\ up' = [up EXCEPT ![p] = TRUE]
    /\ UNCHANGED <<lock, running, status, dbVars, callerVars>>

\* lifespan(): cleanup_stuck_runs before anything is served.
Startup(p) ==
    /\ ~up[p]
    /\ up' = [up EXCEPT ![p] = TRUE]
    /\ rows' = [r \in Runs |-> IF rows[r] = "running" THEN "failed"
                                                      ELSE rows[r]]
    /\ UNCHANGED <<lock, running, status, fresh, callerVars>>

-----------------------------------------------------------------------------
\* The steps a caller takes when nothing goes wrong around it.
Advance(c) ==
    \/ StartGeneration(c) \/ Connect(c) \/ Acquire(c) \/ CheckFlag(c)
    \/ Claim(c) \/ ClaimRejected(c) \/ Checkpoint(c) \/ ReportPhase(c)
    \/ FinalizeRun(c) \/ Finish(c) \/ SaveEnd(c) \/ Release(c)
    \/ MarkResult(c)

CallerStep(c) ==
    \/ BeginCron(c) \/ BeginSync(c) \/ BeginStream(c)
    \/ Advance(c)
    \/ ConnectRaises(c) \/ ClaimFails(c) \/ OpenRaises(c) \/ PhaseRaises(c)

Next ==
    \/ \E c \in Callers : CallerStep(c)
    \/ \E p \in Procs : RequestCancellation(p) \/ Crash(p) \/ Startup(p)
    \/ \E r \in Runs : RowAges(r) \/ PruneRow(r)
    \/ ClearAllRuns

Spec == Init /\ [][Next]_vars

\* A thread that is inside a call goes on: every network call of the
\* workflow has a timeout and every wait polls.
FairSpec == Spec /\ \A c \in Callers : WF_vars(Advance(c))

-----------------------------------------------------------------------------
(* What must hold                                                           *)

StatusType == [inProgress : BOOLEAN, state : States, percent : 0..100,
               cancel : BOOLEAN, left : BOOLEAN]

TypeOK ==
    /\ up      \in [Procs -> BOOLEAN]
    /\ lock    \in [Procs -> Callers \cup {NoCaller}]
    /\ running \in [Procs -> BOOLEAN]
    /\ status  \in [Procs -> StatusType]
    /\ rows    \in [Runs -> RowStates]
    /\ fresh   \subseteq Runs
    /\ pc      \in [Callers -> Pcs]
    /\ run     \in [Callers -> Runs \cup {NoRun}]
    /\ phase   \in [Callers -> 0..NPhases]
    /\ res     \in [Callers -> Outcomes]

\* Two callers of one process are never both inside the guarded part of
\* run_full_generation, whatever raises and whoever crashes.
MutualExclusion ==
    \A c, d \in Callers :
        (ProcOf[c] = ProcOf[d] /\ pc[c] \in Holding /\ pc[d] \in Holding)
            => c = d

\* The database guard: over all processes at most one row started in the last
\* five minutes is running, however the claims, saves and restarts interleave.
OneFreshRunningRow == Cardinality(FreshRunning) <= 1

\* A row that says "running" belongs to a caller that is still inside its run,
\* or to a process that is down and will clean it up when it starts.
RunningRowIsOwned ==
    \A r \in Runs : rows[r] = "running" =>
        \/ \E c \in Callers : run[c] = r /\ pc[c] \in Holding
        \/ \E p \in Procs : ~up[p]

\* A caller is told "ok" only for a run whose row was saved as completed, and
\* no later save, claim, restart or other caller takes that back.
SuccessIsRecorded ==
    \A c \in Callers : res[c] = "ok" => rows[run[c]] \in {"completed", "none"}

\* A run that the user cancelled is not recorded as completed: once the
\* handler of GenerationCancelled has run, the row never becomes "completed"
\* while the caller remembers it.
CancelledRunNotCompleted ==
    \A c \in Callers :
        (pc[c] = "saveCancelled" \/ res[c] = "cancelled")
            => rows[run[c]] # "completed"

\* A caller between the mark that it started and the one that it ended.  The
\* streaming thread writes no end when its run was cancelled.
Owes(c) ==
    /\ pc[c] \in Holding \cup {"acquire", "returned"}
         \/ (pc[c] = "connect" /\ Kind[c] # "sync")
    /\ ~(Kind[c] = "stream" /\ (pc[c] = "saveCancelled" \/ res[c] = "cancelled"))

\* While the status says in_progress, somebody is still to end it: no caller
\* leaves it behind, although any may write its end over another one's start (a
\* cancelled caller that ends late, one turned away by the lock) and although
\* connecting, opening, phases, saves and statistics may fail.  There is one
\* exception, a cron task that raised after its mark (scheduler.py 568).
InProgressIsOwed ==
    \A p \in Procs : status[p].inProgress =>
        status[p].left \/ \E c \in Callers : ProcOf[c] = p /\ Owes(c)

\* The run that is under way, from its row to the release of the lock.
InRun(c) == pc[c] \in Working \cup {"saveCancelled", "saveFailed", "release"}

Current == IF \E c \in Callers : InRun(c)
           THEN run[CHOOSE c \in Callers : InRun(c)] ELSE NoRun

Ledger == INSTANCE RunLedger WITH current <- Current

\* One process: however its entry points, phases, saves, cancellations and
\* crashes interleave, the table shows runs that follow one another, each with
\* an outcome that only itself, or the recovery after a crash, has recorded.
KeepsTheLedger == Ledger!Spec

\* The lock and the flag are given back: every admitted caller leaves the
\* guarded part, and its process can generate again ("Always release the
\* lock", generation.py).
LockIsReleased ==
    \A c \in Callers : (lock[ProcOf[c]] = c) ~> (lock[ProcOf[c]] # c)
=============================================================================
