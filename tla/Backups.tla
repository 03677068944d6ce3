-------------------------------- MODULE Backups --------------------------------
(* The backups of the database: files that are named by their type and the    *)
(* local second of their making, with a marker beside those that the user     *)
(* protects.  The cron task makes one and rotates; requests make, delete,     *)
(* protect, unprotect and restore.  Nothing keeps them apart, and every file  *)
(* operation is a step of its own.                                            *)
(*                                                                            *)
(* A content is None (no file), Empty (a database without tables, which is    *)
(* what sqlite makes of a path that is opened, and which its integrity check  *)
(* accepts) or a version of the database.                                     *)
EXTENDS Integers, FiniteSets

CONSTANTS
    MaxCount,     \* settings.max_count
    MaxTime,      \* bound on the seconds
    MaxVersion,   \* bound on the contents
    MaxRequests,  \* bound on what the user asks for
    MaxFaults     \* bound on failures, crashes and clocks set back

None  == 0
Empty == 1
Contents == None..MaxVersion

Actors == {"cron", "request"}
TypeOf == [cron |-> "scheduled", request |-> "manual"]
Files  == {"scheduled", "manual"} \X (1..MaxTime)
At(f)  == f[2]

VARIABLES
    file,     \* the content of every file
    marked,   \* the files with a .protected marker
    db,       \* the content of the active database
    newest,   \* the last version that was committed
    clock,    \* the local time
    job,      \* what every actor is doing, to which files
    late,     \* files protected after the check of the one who removes them
    hollow,   \* empty files that a restore, a crash or the backup of an empty
              \* database has left, and no failed backup
    meddled,  \* one of the files that the rotation has listed went otherwise
    requests, faults

disk    == <<file, marked, db, newest>>
history == <<late, hollow, meddled>>
vars    == <<disk, clock, job, history, requests, faults>>

Pcs  == {"idle", "copy", "list", "rotate", "unlink", "unmark", "touch",
         "verify", "keep", "replace"}
NoFile == <<"manual", 1>>
Idle == [pc |-> "idle", name |-> NoFile, todo |-> {}]

Init ==
    /\ file = [f \in Files |-> None] /\ marked = {}
    /\ db = 2 /\ newest = 2
    /\ clock = 1
    /\ job = [a \in Actors |-> Idle]
    /\ late = {} /\ hollow = {} /\ meddled = FALSE
    /\ requests = 0 /\ faults = 0

Filling(f)    == \E a \in Actors : job[a].pc = "copy" /\ job[a].name = f
Exists(f)     == file[f] # None
Unprotected   == {f \in Files : Exists(f) /\ f \notin marked}
Goto(a, pc)   == job' = [job EXCEPT ![a].pc = pc]
Asked         == requests < MaxRequests /\ requests' = requests + 1
Fault         == faults < MaxFaults /\ faults' = faults + 1

-----------------------------------------------------------------------------
(* create_backup                                                            *)

\* The file is there from the moment that sqlite opens it.
Open(a) ==
    LET name == <<TypeOf[a], clock>>
    IN  /\ job[a].pc = "idle" /\ Asked
        /\ job' = [job EXCEPT ![a] = [Idle EXCEPT !.pc = "copy", !.name = name]]
        /\ file' = [file EXCEPT ![name] = IF @ = None THEN Empty ELSE @]
        /\ UNCHANGED <<marked, db, newest, clock, history, faults>>

Copy(a) ==
    /\ job[a].pc = "copy" /\ Exists(job[a].name)
    /\ file' = [file EXCEPT ![job[a].name] = db]
    /\ hollow' = IF db = Empty THEN hollow \cup {job[a].name}
                 ELSE hollow \ {job[a].name}
    /\ Goto(a, IF a = "cron" THEN "list" ELSE "idle")
    /\ UNCHANGED <<marked, db, newest, clock, late, meddled, requests, faults>>

\* Mutant: the partial file stays.
CopyFailsPartly(a) ==
    /\ job[a].pc = "copy"
    /\ Fault
    /\ Goto(a, "idle")
    /\ UNCHANGED <<disk, clock, history, requests>>

\* An error, or the file was removed meanwhile: whatever has the name is
\* cleaned up.
CopyFails(a) ==
    /\ job[a].pc = "copy"
    /\ IF Exists(job[a].name) THEN Fault ELSE UNCHANGED faults
    /\ file' = [file EXCEPT ![job[a].name] = None]
    /\ meddled' = TRUE
    /\ Goto(a, "idle")
    /\ UNCHANGED <<marked, db, newest, clock, late, hollow, requests>>

-----------------------------------------------------------------------------
(* rotate_backups                                                           *)

\* Mutant: protected backups count, too.
SurplusOfAll ==
    LET all == {f \in Files : Exists(f)}
    IN  {d \in SUBSET all :
            /\ Cardinality(all \ d) <= MaxCount
            /\ d # {} => Cardinality(all \ d) = MaxCount
            /\ \A f \in d, k \in all \ d : At(f) <= At(k)}

\* What a rotation may drop: the oldest; two of one second in any order.
Surplus ==
    {d \in SUBSET Unprotected :
        /\ Cardinality(Unprotected \ d) <= MaxCount
        /\ d # {} => Cardinality(Unprotected \ d) = MaxCount
        /\ \A f \in d, k \in Unprotected \ d : At(f) <= At(k)}

List ==
    /\ job["cron"].pc = "list"
    /\ \E d \in Surplus :
         job' = [job EXCEPT !["cron"].pc = "rotate", !["cron"].todo = d]
    /\ meddled' = FALSE
    /\ UNCHANGED <<disk, clock, late, hollow, requests, faults>>

\* Mutant: the list says what is protected.
PassesListed(f) == Exists(f)

\* delete_backup looks again.
Passes(f) == Exists(f) /\ f \notin marked

Check ==
    /\ job["cron"].pc = "rotate"
    /\ \E f \in job["cron"].todo :
         /\ \A g \in job["cron"].todo : At(g) <= At(f)
         /\ job' = [job EXCEPT !["cron"].todo = @ \ {f}, !["cron"].name = f,
                    !["cron"].pc = IF Passes(f) THEN "unlink" ELSE @]
    /\ UNCHANGED <<disk, clock, history, requests, faults>>

EndRotation ==
    /\ job["cron"].pc = "rotate" /\ job["cron"].todo = {}
    /\ Goto("cron", "idle")
    /\ UNCHANGED <<disk, clock, history, requests, faults>>

After(a) == IF a = "cron" THEN "rotate" ELSE "idle"

\* A file that is gone already is an error, which ends this deletion.
Unlink(a) ==
    LET f == job[a].name
    IN  /\ job[a].pc = "unlink"
        /\ file' = [file EXCEPT ![f] = None]
        /\ late' = late \ {f}
        /\ meddled' = (meddled \/ a = "request")
        /\ Goto(a, IF Exists(f) THEN "unmark" ELSE After(a))
        /\ UNCHANGED <<marked, db, newest, clock, hollow, requests, faults>>

Unmark(a) ==
    /\ job[a].pc = "unmark"
    /\ marked' = marked \ {job[a].name}
    /\ Goto(a, After(a))
    /\ UNCHANGED <<file, db, newest, clock, history, requests, faults>>

-----------------------------------------------------------------------------
(* The other requests.  Each names a file that the list has shown.          *)

Request(f, pc) ==
    /\ job["request"].pc = "idle" /\ Asked /\ Exists(f)
    /\ job' = [job EXCEPT !["request"] = [Idle EXCEPT !.pc = pc, !.name = f]]
    /\ UNCHANGED <<disk, clock, history, faults>>

Delete  == \E f \in Files : f \notin marked /\ Request(f, "unlink")
Protect == \E f \in Files : Request(f, "touch")
Restore == \E f \in Files : Request(f, "verify")

Touch ==
    LET f == job["request"].name
    IN  /\ job["request"].pc = "touch"
        /\ marked' = marked \cup {f}
        /\ late' = IF job["cron"].pc = "unlink" /\ job["cron"].name = f
                   THEN late \cup {f} ELSE late
        /\ meddled' = TRUE
        /\ Goto("request", "idle")
        /\ UNCHANGED <<file, db, newest, clock, hollow, requests, faults>>

Unprotect ==
    /\ job["request"].pc = "idle" /\ Asked
    /\ \E f \in marked : Exists(f) /\ marked' = marked \ {f}
    /\ UNCHANGED <<file, db, newest, clock, job, history, faults>>

\* sqlite makes a file anew that was removed since it was looked at; and what
\* is still being written reads as empty.
OpenToRead(f) ==
    /\ file' = [file EXCEPT ![f] = IF @ = None THEN Empty ELSE @]
    /\ hollow' = IF ~Exists(f) \/ Filling(f) THEN hollow \cup {f} ELSE hollow

\* The integrity check, which an empty file passes.
Verify ==
    LET f == job["request"].name
    IN  /\ job["request"].pc = "verify"
        /\ OpenToRead(f)
        /\ Goto("request", "keep")
        /\ UNCHANGED <<marked, db, newest, clock, late, meddled, requests,
                       faults>>

\* The copy before the restore, which no list shows; without it, no restore.
Keep ==
    /\ job["request"].pc = "keep"
    /\ \/ Goto("request", "replace") /\ UNCHANGED faults
       \/ Goto("request", "idle") /\ Fault
    /\ UNCHANGED <<disk, clock, history, requests>>

Replace ==
    LET f == job["request"].name
    IN  /\ job["request"].pc = "replace"
        /\ OpenToRead(f)
        /\ db' = file'[f]
        /\ Goto("request", "idle")
        /\ UNCHANGED <<marked, newest, clock, late, meddled, requests, faults>>

-----------------------------------------------------------------------------
(* The program, the clock and the machine                                   *)

Commit ==
    /\ db # Empty /\ newest < MaxVersion
    /\ newest' = newest + 1 /\ db' = newest + 1
    /\ UNCHANGED <<file, marked, clock, job, history, requests, faults>>

Tick ==
    /\ clock < MaxTime /\ clock' = clock + 1
    /\ UNCHANGED <<disk, job, history, requests, faults>>

\* An hour comes twice when summer time ends.
TurnBack ==
    /\ Fault
    /\ clock' \in 1..(clock - 1)
    /\ UNCHANGED <<disk, job, history, requests>>

\* sqlite rolls back what it was writing, also in the active database.
Crash ==
    /\ Fault
    /\ \E a \in Actors : job[a].pc # "idle"
    /\ hollow' = hollow \cup {job[a].name : a \in {b \in Actors :
                                                    job[b].pc = "copy"}}
    /\ job' = [a \in Actors |-> Idle]
    /\ UNCHANGED <<disk, clock, late, meddled, requests>>

Next ==
    \/ \E a \in Actors :
         Open(a) \/ Copy(a) \/ CopyFails(a) \/ Unlink(a) \/ Unmark(a)
    \/ List \/ Check \/ EndRotation
    \/ Delete \/ Protect \/ Unprotect \/ Restore
    \/ Touch \/ Verify \/ Keep \/ Replace
    \/ Commit \/ Tick \/ TurnBack \/ Crash

Spec == Init /\ [][Next]_vars

-----------------------------------------------------------------------------
TypeOK ==
    /\ file \in [Files -> Contents] /\ marked \subseteq Files
    /\ db \in Contents \ {None} /\ newest \in Contents
    /\ clock \in 1..MaxTime
    /\ \A a \in Actors : job[a].pc \in Pcs /\ job[a].todo \subseteq Files
    /\ late \subseteq Files /\ hollow \subseteq Files

Removed == {f \in Files : Exists(f) /\ file'[f] = None}
\* api/routes/backup.py: a protected backup is not deleted, although the files
\* are listed, looked at and removed in steps of their own: only protection
\* that comes between the last look and the removal is too late.  (A backup
\* that fails removes whatever has its name.)
ProtectedStay ==
    [][\A f \in Removed \cap marked : f \in late \/ Filling(f)]_vars

\* max_count: a rotation leaves that many unprotected backups that are younger,
\* by their names, unless the user deletes or protects one of those it listed
\* meanwhile, or one that was being made fails.
Younger(f) == {k \in Unprotected \ {f} : At(k) >= At(f)}
EnoughStay ==
    [][job["cron"].pc = "unlink" /\ job'["cron"].pc = "unmark" =>
          meddled \/ Cardinality(Younger(job["cron"].name)) >= MaxCount]_vars

\* A restore puts a version of the database in place, never one without
\* tables: unless the chosen file was removed or still being written when it
\* was looked at, or is what a crash or an empty database has left.
RestoresHaveData ==
    [][db' = Empty => db = Empty \/ job["request"].name \in hollow']_vars

BackupsHold == ProtectedStay /\ EnoughStay /\ RestoresHaveData
===============================================================================
