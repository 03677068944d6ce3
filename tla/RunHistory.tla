----------------------------- MODULE RunHistory -----------------------------
(***************************************************************************)
(* The totals on the dashboard: rows of processing_runs, and lifetime_stats *)
(* into which the totals of a row are folded before it is deleted.  A      *)
(* generation deletes rows after 30 days, DELETE /runs deletes all of them *)
(* at any time.                                                            *)
(*                                                                         *)
(* The two SELECTs of a fold run outside the transaction that its first    *)
(* write opens; that transaction holds the write lock until the commit, so *)
(* that the rest of a clear is one step.  What is added up is how often    *)
(* the totals of each run are in lifetime_stats.                           *)
(***************************************************************************)
EXTENDS Naturals

CONSTANTS
    Runs,       \* bound: the runs that ever start
    Groups,     \* those of type event_group, the others are full_epg
    Clearers    \* threads that may delete rows at the same time

ASSUME RunsAssumption == Groups \subseteq Runs

VARIABLES
    row,        \* the row of a run
    active,     \* the runs that a thread is working on
    old,        \* the runs whose row is older than 30 days
    sums,       \* how often lifetime_stats counts the totals of a run
    pc,         \* where each clear is
    scope,      \* the runs its WHERE selects
    read,       \* the saved ones among them that its SELECTs added up
    done,       \* history: the runs that reported their totals
    late,       \* history: those saved behind a clear: after its SELECT and
                \* before its commit, or when their row was gone
    shared      \* history: those that two clears at once have looked for

vars == <<row, active, old, sums, pc, scope, read, done, late, shared>>

Init ==
    /\ row = [r \in Runs |-> "none"]
    /\ active = {} /\ old = {}
    /\ sums = [r \in Runs |-> 0]
    /\ pc = [c \in Clearers |-> "idle"]
    /\ scope = [c \in Clearers |-> {}]
    /\ read = [c \in Clearers |-> {}]
    /\ done = {} /\ late = {} /\ shared = {}

-----------------------------------------------------------------------------
Saved == {r \in Runs : row[r] = "saved"}

\* The runs that the SELECTs of c have looked for.
Passed(c) ==
    {r \in scope[c] : pc[c] = "read" \/ (pc[c] = "half" /\ r \notin Groups)}

AllPassed == UNION {Passed(c) : c \in Clearers}

\* create_run
Create(r) ==
    /\ row[r] = "none"
    /\ row' = [row EXCEPT ![r] = "running"]
    /\ active' = active \cup {r}
    /\ UNCHANGED <<old, sums, pc, scope, read, done, late, shared>>

\* Mutant: the totals are saved before the run has ended.
SaveEarly(r) ==
    /\ r \in active
    /\ row' = [row EXCEPT ![r] = IF @ = "running" THEN "saved" ELSE @]
    /\ done' = done \cup {r}
    /\ late' = IF row[r] = "deleted" \/ r \in AllPassed THEN late \cup {r}
                                                      ELSE late
    /\ UNCHANGED <<active, old, sums, pc, scope, read, shared>>

\* save_run: an UPDATE, of nothing when the row is gone.
Save(r) ==
    /\ r \in active
    /\ row' = [row EXCEPT ![r] = IF @ = "running" THEN "saved" ELSE @]
    /\ active' = active \ {r}
    /\ done' = done \cup {r}
    /\ late' = IF row[r] = "deleted" \/ r \in AllPassed THEN late \cup {r}
                                                      ELSE late
    /\ UNCHANGED <<old, sums, pc, scope, read, shared>>

\* Thirty days go by; no run takes that long.
Age(r) ==
    /\ row[r] # "none" /\ r \notin old \cup active
    /\ old' = old \cup {r}
    /\ UNCHANGED <<row, active, sums, pc, scope, read, done, late, shared>>

\* Mutant: the cache hits of event_group runs are not folded.
ReadFullOnly(c, S) ==
    /\ pc[c] = "idle"
    /\ pc' = [pc EXCEPT ![c] = "read"]
    /\ scope' = [scope EXCEPT ![c] = S]
    /\ read' = [read EXCEPT ![c] = Saved \cap (S \ Groups)]
    /\ shared' = shared \cup (AllPassed \cap S)
    /\ UNCHANGED <<row, active, old, sums, done, late>>

\* The first SELECT of _fold_runs_into_lifetime, for the runs S.
ReadFull(c, S) ==
    /\ pc[c] = "idle"
    /\ pc' = [pc EXCEPT ![c] = "half"]
    /\ scope' = [scope EXCEPT ![c] = S]
    /\ read' = [read EXCEPT ![c] = Saved \cap (S \ Groups)]
    /\ shared' = shared \cup (AllPassed \cap (S \ Groups))
    /\ UNCHANGED <<row, active, old, sums, done, late>>

\* The second one.
ReadGroups(c) ==
    /\ pc[c] = "half"
    /\ pc' = [pc EXCEPT ![c] = "read"]
    /\ read' = [read EXCEPT ![c] = @ \cup (Saved \cap scope[c] \cap Groups)]
    /\ shared' = shared \cup
           (scope[c] \cap Groups
              \cap UNION {Passed(d) : d \in Clearers \ {c}})
    /\ UNCHANGED <<row, active, old, sums, scope, done, late>>

Rest(c) ==
    /\ pc' = [pc EXCEPT ![c] = "idle"]
    /\ scope' = [scope EXCEPT ![c] = {}]
    /\ read' = [read EXCEPT ![c] = {}]

\* Mutant: the DELETE has lost its WHERE.
ClearAll(c) ==
    /\ pc[c] = "read"
    /\ sums' = [r \in Runs |-> IF r \in read[c] THEN sums[r] + 1 ELSE sums[r]]
    /\ row' = [r \in Runs |-> IF row[r] # "none" THEN "deleted" ELSE "none"]
    /\ Rest(c)
    /\ UNCHANGED <<active, old, done, late, shared>>

\* UPDATE lifetime_stats, DELETE and commit.
Clear(c) ==
    /\ pc[c] = "read"
    /\ sums' = [r \in Runs |-> IF r \in read[c] THEN sums[r] + 1 ELSE sums[r]]
    /\ row' = [r \in Runs |-> IF r \in scope[c] /\ row[r] # "none"
                              THEN "deleted" ELSE row[r]]
    /\ Rest(c)
    /\ UNCHANGED <<active, old, done, late, shared>>

\* cleanup_old_runs selects the runs before a cutoff, clear_all_runs all.
Begin(c) == ReadFull(c, old) \/ ReadFull(c, Runs)

\* An exception, for instance a lock that is not released in time: the
\* transaction is rolled back.
Fail(c) ==
    /\ pc[c] # "idle"
    /\ Rest(c)
    /\ UNCHANGED <<row, active, old, sums, done, late, shared>>

Crash ==
    /\ active' = {}
    /\ pc' = [c \in Clearers |-> "idle"]
    /\ scope' = [c \in Clearers |-> {}]
    /\ read' = [c \in Clearers |-> {}]
    /\ UNCHANGED <<row, old, sums, done, late, shared>>

Next ==
    \/ \E r \in Runs : Create(r) \/ Save(r) \/ Age(r)
    \/ \E c \in Clearers : Begin(c) \/ ReadGroups(c) \/ Clear(c) \/ Fail(c)
    \/ Crash

Spec == Init /\ [][Next]_vars

-----------------------------------------------------------------------------
(* What must hold                                                           *)

TypeOK ==
    /\ row \in [Runs -> {"none", "running", "saved", "deleted"}]
    /\ old \subseteq Runs /\ done \subseteq Runs
    /\ active \subseteq Runs \ (old \cup done)
    /\ sums \in [Runs -> Nat]
    /\ pc \in [Clearers -> {"idle", "half", "read"}]
    /\ scope \in [Clearers -> SUBSET Runs]
    /\ read \in [Clearers -> SUBSET Runs]
    /\ late \subseteq Runs /\ shared \subseteq Runs

\* What get_current_stats adds up for a run: its row and its folded totals.
Shown(r) == sums[r] + IF row[r] = "saved" THEN 1 ELSE 0

\* "All-time totals survive": the totals of a run that has ended are counted
\* once, in its row or in lifetime_stats, whatever clears, failures and
\* crashes come after.  Each way in which the code fails at this is named, and
\* there is no other: totals are lost only if the run was saved between the
\* SELECT of a clear and its commit or when its row was gone, and counted
\* again only if two clears overlapped on the run.
CountedOnce ==
    \A r \in Runs : IF r \in done
                    THEN /\ Shown(r) >= 1 \/ r \in late
                         /\ Shown(r) <= 1 \/ r \in shared
                    ELSE Shown(r) = 0

-----------------------------------------------------------------------------
(* The inductive invariant: TypeOK and CountedOnce with three more facts.   *)

\* The rows of runs that have not started, and that have ended.
RowsKnown ==
    \A r \in Runs : /\ row[r] = "none" => r \notin active \cup old \cup done
                    /\ row[r] = "saved" => r \in done

\* What a clear has added up still has its totals in the row, or another clear
\* has looked for it too; and it has left out none but late ones.
ReadsExact ==
    \A c \in Clearers :
        /\ read[c] \subseteq Passed(c) \cap done
        /\ \A r \in Passed(c) \ late : row[r] = "saved" => r \in read[c]
        /\ \A r \in read[c] \ shared : row[r] = "saved"

\* Only shared runs are between SELECT and commit of two clears.
ClearsApart ==
    \A c, d \in Clearers : c # d => Passed(c) \cap Passed(d) \subseteq shared

IInv == TypeOK /\ CountedOnce /\ RowsKnown /\ ReadsExact /\ ClearsApart
=============================================================================
