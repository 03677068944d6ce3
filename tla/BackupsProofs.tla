----------------------------- MODULE BackupsProofs -----------------------------
(* Proofs, for any number of backups to keep, seconds, requests, failures and *)
(* crashes, that the rotation spares what is protected, that it leaves enough *)
(* of the others, and that a restore brings back a version of the database.   *)
EXTENDS Backups, FiniteSetTheorems, TLAPS

\* Counts and times are whole, the clock shows a time at first, and there is a
\* first version of the database.
Parameters ==
    /\ MaxCount \in Nat /\ MaxFaults \in Nat /\ MaxRequests \in Nat
    /\ MaxTime \in Nat \ {0} /\ MaxVersion \in Nat \ {0, 1}

-----------------------------------------------------------------------------
(* Types *)

JobType == [pc : Pcs, name : Files, todo : SUBSET Files]

Types == TypeOK /\ job \in [Actors -> JobType] /\ newest \in 2..MaxVersion

LEMMA InitTypes == ASSUME Parameters, Init PROVE Types
<1>1. NoFile \in Files /\ 1 \in 1..MaxTime
  BY DEF Parameters, NoFile, Files
<1>2. Idle \in JobType
  BY <1>1 DEF Idle, JobType, Pcs
<1>3. job \in [Actors -> JobType]
  BY <1>2 DEF Init
<1>4. file \in [Files -> Contents]
  BY DEF Parameters, Init, Contents, None
<1>5. /\ db \in Contents \ {None} /\ newest \in Contents
      /\ newest \in 2..MaxVersion
  BY DEF Parameters, Init, Contents, None
<1>6. \A a \in Actors : job[a].pc \in Pcs /\ job[a].todo \subseteq Files
  BY <1>3 DEF JobType
<1>7. QED
  BY <1>1, <1>3, <1>4, <1>5, <1>6 DEF Init, Types, TypeOK

\* The types of the files and of what is known of them, and those of the jobs.
Stored ==
    /\ file \in [Files -> Contents] /\ marked \subseteq Files
    /\ db \in Contents \ {None} /\ newest \in 2..MaxVersion
    /\ clock \in 1..MaxTime /\ late \subseteq Files /\ hollow \subseteq Files

LEMMA TypesAre ==
    ASSUME Parameters
    PROVE  Types <=> Stored /\ job \in [Actors -> JobType]
<1>1. \A a \in Actors : job \in [Actors -> JobType]
         => job[a].pc \in Pcs /\ job[a].todo \subseteq Files
  BY DEF JobType
<1>2. 2..MaxVersion \subseteq Contents
  BY DEF Parameters, Contents, None
<1>3. QED
  BY <1>1, <1>2 DEF Types, TypeOK, Stored

LEMMA JobsAre ==
    ASSUME Types, NEW a \in Actors
    PROVE  job[a] \in JobType /\ job[a].name \in Files
BY DEF Types, JobType

\* What an actor goes on to do is a job.
LEMMA GotoType ==
    ASSUME Types, NEW a \in Actors, NEW pc \in Pcs, Goto(a, pc)
    PROVE  job' \in [Actors -> JobType]
BY DEF Types, JobType, Goto

LEMMA RequestType ==
    ASSUME Types, NEW f \in Files, NEW pc \in Pcs, Request(f, pc)
    PROVE  Stored' /\ job' \in [Actors -> JobType]
<1>1. Stored'
  BY DEF Types, TypeOK, Stored, Request, disk, history
<1>2. [Idle EXCEPT !.pc = pc, !.name = f] \in JobType
  BY DEF Idle, JobType
<1>3. QED
  BY <1>1, <1>2 DEF Types, Request

LEMMA OpenToReadType ==
    ASSUME Parameters, Types, NEW f \in Files, OpenToRead(f)
    PROVE  /\ file' \in [Files -> Contents] /\ hollow' \subseteq Files
           /\ file'[f] \in Contents \ {None}
           /\ \A g \in Files : file[g] # None => file'[g] = file[g]
           /\ \A g \in Files : file'[g] = file[g] \/ (file'[g] = Empty /\ g = f)
           /\ hollow \subseteq hollow'
<1>1. file \in [Files -> Contents] /\ hollow \subseteq Files
  BY DEF Types, TypeOK
<1>2. {None, Empty} \subseteq Contents /\ None # Empty
  BY DEF Parameters, Contents, None, Empty
<1>3. file' = [file EXCEPT ![f] = IF file[f] = None THEN Empty ELSE file[f]]
  BY DEF OpenToRead
<1>4. hollow \subseteq hollow' /\ hollow' \subseteq Files
  BY <1>1 DEF OpenToRead
<1>5. QED
  BY <1>1, <1>2, <1>3, <1>4

LEMMA StepTypes == ASSUME Parameters, Types, Next PROVE Types'
<1> SUFFICES Stored' /\ job' \in [Actors -> JobType]
  <2>1. Parameters
    OBVIOUS
  <2>2. (Types <=> Stored /\ job \in [Actors -> JobType])'
    BY TypesAre, PTL
  <2>3. QED
    BY <2>2
<1>0. Stored
  BY TypesAre
<1> USE <1>0
<1>1. ASSUME NEW a \in Actors, Open(a)
      PROVE  Stored' /\ job' \in [Actors -> JobType]
  <2>1. <<TypeOf[a], clock>> \in Files
    BY DEF Types, TypeOK, Files, Actors, TypeOf
  <2>2. [Idle EXCEPT !.pc = "copy", !.name = <<TypeOf[a], clock>>] \in JobType
    BY <2>1 DEF Idle, JobType, Pcs
  <2>3. job' \in [Actors -> JobType]
    BY <1>1, <2>2 DEF Open, Types
  <2>4. file' \in [Files -> Contents]
    BY <1>1, <2>1 DEF Open, Stored, Parameters, Contents, None, Empty
  <2>5. QED
    BY <1>1, <2>3, <2>4 DEF Open, Stored, history
<1>2. ASSUME NEW a \in Actors, Copy(a)
      PROVE  Stored' /\ job' \in [Actors -> JobType]
  <2>1. job' \in [Actors -> JobType]
    BY <1>2, GotoType DEF Copy, Pcs
  <2>2. QED
    BY <1>2, <2>1, JobsAre DEF Copy, Stored
<1>3. ASSUME NEW a \in Actors, CopyFails(a)
      PROVE  Stored' /\ job' \in [Actors -> JobType]
  <2>1. job' \in [Actors -> JobType]
    BY <1>3, GotoType DEF CopyFails, Pcs
  <2>2. None \in Contents
    BY DEF Parameters, Contents, None
  <2>3. QED
    BY <1>3, <2>1, <2>2, JobsAre DEF CopyFails, Stored
<1>4. ASSUME NEW a \in Actors, Unlink(a)
      PROVE  Stored' /\ job' \in [Actors -> JobType]
  <2>1. job' \in [Actors -> JobType]
    BY <1>4, GotoType DEF Unlink, Pcs, After
  <2>2. None \in Contents
    BY DEF Parameters, Contents, None
  <2>3. QED
    BY <1>4, <2>1, <2>2, JobsAre DEF Unlink, Stored
<1>5. ASSUME NEW a \in Actors, Unmark(a)
      PROVE  Stored' /\ job' \in [Actors -> JobType]
  <2>1. job' \in [Actors -> JobType]
    BY <1>5, GotoType DEF Unmark, Pcs, After
  <2>2. QED
    BY <1>5, <2>1 DEF Unmark, Stored, history
<1>6. ASSUME List
      PROVE  Stored' /\ job' \in [Actors -> JobType]
  <2>1. PICK d \in Surplus :
           job' = [job EXCEPT !["cron"].pc = "rotate", !["cron"].todo = d]
    BY <1>6 DEF List
  <2>2. d \subseteq Files
    BY DEF Surplus, Unprotected
  <2>3. job["cron"] \in JobType
    BY JobsAre DEF Actors
  <2>4. [job["cron"] EXCEPT !.pc = "rotate", !.todo = d] \in JobType
    BY <2>2, <2>3 DEF JobType, Pcs
  <2>5. job' = [job EXCEPT !["cron"] = [job["cron"] EXCEPT !.pc = "rotate",
                                                          !.todo = d]]
    BY <2>1 DEF Types, Actors, JobType
  <2>6. job' \in [Actors -> JobType]
    BY <2>4, <2>5 DEF Types
  <2>7. QED
    BY <1>6, <2>6 DEF List, Stored, disk
<1>7. ASSUME Check
      PROVE  Stored' /\ job' \in [Actors -> JobType]
  <2>1. PICK f \in job["cron"].todo :
           job' = [job EXCEPT !["cron"].todo = @ \ {f}, !["cron"].name = f,
                     !["cron"].pc = IF Passes(f) THEN "unlink" ELSE @]
    BY <1>7 DEF Check
  <2>2. job["cron"] \in JobType /\ f \in Files
    BY JobsAre DEF Actors, JobType
  <2>3. job' \in [Actors -> JobType]
    BY <2>1, <2>2 DEF Types, JobType, Pcs
  <2>4. QED
    BY <1>7, <2>3 DEF Check, Stored, disk, history
<1>8. ASSUME EndRotation
      PROVE  Stored' /\ job' \in [Actors -> JobType]
  <2>1. job' \in [Actors -> JobType]
    BY <1>8, GotoType DEF EndRotation, Actors, Pcs
  <2>2. QED
    BY <1>8, <2>1 DEF EndRotation, Stored, disk, history
<1>9. ASSUME Delete \/ Protect \/ Restore
      PROVE  Stored' /\ job' \in [Actors -> JobType]
  BY <1>9, RequestType DEF Delete, Protect, Restore, Pcs
<1>10. ASSUME Unprotect
       PROVE  Stored' /\ job' \in [Actors -> JobType]
  BY <1>10 DEF Unprotect, Stored, Types, history
<1>11. ASSUME Touch
       PROVE  Stored' /\ job' \in [Actors -> JobType]
  <2>1. job' \in [Actors -> JobType]
    BY <1>11, GotoType DEF Touch, Actors, Pcs
  <2>2. job["request"].name \in Files
    BY JobsAre DEF Actors
  <2>3. QED
    BY <1>11, <2>1, <2>2 DEF Touch, Stored
<1>12. ASSUME Verify
       PROVE  Stored' /\ job' \in [Actors -> JobType]
  <2>1. job' \in [Actors -> JobType]
    BY <1>12, GotoType DEF Verify, Actors, Pcs
  <2>2. file' \in [Files -> Contents] /\ hollow' \subseteq Files
    BY <1>12, JobsAre, OpenToReadType DEF Verify, Actors
  <2>3. QED
    BY <1>12, <2>1, <2>2 DEF Verify, Stored
<1>13. ASSUME Keep
       PROVE  Stored' /\ job' \in [Actors -> JobType]
  <2>1. job' \in [Actors -> JobType]
    BY <1>13, GotoType DEF Keep, Actors, Pcs
  <2>2. QED
    BY <1>13, <2>1 DEF Keep, Stored, disk, history
<1>14. ASSUME Replace
       PROVE  Stored' /\ job' \in [Actors -> JobType]
  <2>1. job' \in [Actors -> JobType]
    BY <1>14, GotoType DEF Replace, Actors, Pcs
  <2>2. /\ file' \in [Files -> Contents] /\ hollow' \subseteq Files
        /\ db' \in Contents \ {None}
    BY <1>14, JobsAre, OpenToReadType DEF Replace, Actors
  <2>3. QED
    BY <1>14, <2>1, <2>2 DEF Replace, Stored
<1>15. ASSUME Commit
       PROVE  Stored' /\ job' \in [Actors -> JobType]
  BY <1>15 DEF Commit, Stored, Types, history, Parameters, Contents, None
<1>16. ASSUME Tick \/ TurnBack
       PROVE  Stored' /\ job' \in [Actors -> JobType]
  BY <1>16 DEF Tick, TurnBack, Stored, Types, disk, history, Parameters
<1>17. ASSUME Crash
       PROVE  Stored' /\ job' \in [Actors -> JobType]
  <2>1. NoFile \in Files
    BY DEF Parameters, NoFile, Files
  <2>2. job' \in [Actors -> JobType]
    BY <1>17, <2>1 DEF Crash, Idle, JobType, Pcs
  <2>3. hollow' \subseteq Files
    BY <1>17, JobsAre DEF Crash, Stored
  <2>4. QED
    BY <1>17, <2>2, <2>3 DEF Crash, Stored, disk
<1>18. QED
  BY <1>1, <1>2, <1>3, <1>4, <1>5, <1>6, <1>7, <1>8, <1>9, <1>10, <1>11, <1>12,
     <1>13, <1>14, <1>15, <1>16, <1>17 DEF Next

\* The files, their contents and the jobs are what the comments of the module
\* say, for any number of files.
THEOREM TypeCorrect == ASSUME Parameters PROVE Spec => []TypeOK
<1>1. Init => Types
  BY InitTypes
<1>2. Types /\ [Next]_vars => Types'
  <2>1. CASE UNCHANGED vars
    BY <2>1 DEF Types, TypeOK, vars, disk, history, Exists
  <2>2. QED
    BY <2>1, StepTypes
<1>3. Types => TypeOK
  BY DEF Types
<1>4. QED
  BY <1>1, <1>2, <1>3, PTL DEF Spec

-----------------------------------------------------------------------------
(* Protection                                                                  *)

\* A request removes only what is not protected; the rotation may meet a file
\* that was protected since it looked.
MarksInv ==
    /\ job["request"].pc = "unlink" => job["request"].name \notin marked
    /\ job["cron"].pc = "unlink" /\ job["cron"].name \in marked
          => job["cron"].name \in late

\* The steps that mark no file, forget no late one and bring nobody to a removal.
LEMMA MarksKept ==
    ASSUME MarksInv, marked' \subseteq marked, late \subseteq late',
           \A a \in Actors : job'[a].pc = "unlink" => job'[a] = job[a]
    PROVE  MarksInv'
BY DEF MarksInv, Actors

LEMMA OthersStay ==
    ASSUME Types, NEW a \in Actors, NEW pc \in Pcs, Goto(a, pc)
    PROVE  /\ job'[a].pc = pc /\ job'[a].name = job[a].name
           /\ job'[a].todo = job[a].todo
           /\ \A b \in Actors \ {a} : job'[b] = job[b]
BY DEF Types, JobType, Goto

LEMMA MarksStep == ASSUME Types, MarksInv, Next PROVE MarksInv'
<1>1. ASSUME NEW a \in Actors, Open(a) PROVE MarksInv'
  <2>1. \A b \in Actors : job'[b].pc = "unlink" => job'[b] = job[b]
    BY <1>1 DEF Open, Types, Idle
  <2>2. QED
    BY <1>1, <2>1, MarksKept DEF Open, history
<1>2. ASSUME NEW a \in Actors, Copy(a) \/ CopyFails(a) PROVE MarksInv'
  <2>1. PICK pc \in {"list", "idle"} : Goto(a, pc)
    BY <1>2 DEF Copy, CopyFails
  <2>2. \A b \in Actors : job'[b].pc = "unlink" => job'[b] = job[b]
    BY <2>1, OthersStay DEF Pcs
  <2>3. QED
    BY <1>2, <2>2, MarksKept DEF Copy, CopyFails
<1>3. ASSUME Unlink("cron") PROVE MarksInv'
  <2>1. PICK pc \in {"unmark", "rotate"} : Goto("cron", pc)
    BY <1>3 DEF Unlink, After
  <2>2. job'["cron"].pc # "unlink" /\ job'["request"] = job["request"]
    BY <2>1, OthersStay DEF Actors, Pcs
  <2>3. QED
    BY <1>3, <2>2 DEF Unlink, MarksInv
<1>4. ASSUME Unlink("request") PROVE MarksInv'
  <2>1. PICK pc \in {"unmark", "idle"} : Goto("request", pc)
    BY <1>4 DEF Unlink, After
  <2>2. job'["request"].pc # "unlink" /\ job'["cron"] = job["cron"]
    BY <2>1, OthersStay DEF Actors, Pcs
  <2>3. marked' = marked /\ late' = late \ {job["request"].name}
    BY <1>4 DEF Unlink
  <2>4. job["request"].name \notin marked
    BY <1>4 DEF MarksInv, Unlink
  <2>5. QED
    BY <2>2, <2>3, <2>4 DEF MarksInv
<1>5. ASSUME NEW a \in Actors, Unmark(a) PROVE MarksInv'
  <2>1. PICK pc \in {"rotate", "idle"} : Goto(a, pc)
    BY <1>5 DEF Unmark, After
  <2>2. \A b \in Actors : job'[b].pc = "unlink" => job'[b] = job[b]
    BY <2>1, OthersStay DEF Pcs
  <2>3. QED
    BY <1>5, <2>2, MarksKept DEF Unmark, history
<1>6. ASSUME List PROVE MarksInv'
  <2>1. \A b \in Actors : job'[b].pc = "unlink" => job'[b] = job[b]
    BY <1>6 DEF List, Types, JobType, Actors
  <2>2. QED
    BY <1>6, <2>1, MarksKept DEF List, disk
<1>7. ASSUME Check PROVE MarksInv'
  <2>1. PICK f \in job["cron"].todo :
           job' = [job EXCEPT !["cron"].todo = @ \ {f}, !["cron"].name = f,
                     !["cron"].pc = IF Passes(f) THEN "unlink" ELSE @]
    BY <1>7 DEF Check
  <2>2. /\ job'["request"] = job["request"] /\ job'["cron"].name = f
        /\ job'["cron"].pc = "unlink" => f \notin marked
    BY <1>7, <2>1 DEF Types, JobType, Actors, Passes, Check
  <2>3. QED
    BY <1>7, <2>2 DEF Check, disk, history, MarksInv
<1>8. ASSUME EndRotation PROVE MarksInv'
  <2>1. \A b \in Actors : job'[b].pc = "unlink" => job'[b] = job[b]
    BY <1>8, OthersStay DEF EndRotation, Actors, Pcs
  <2>2. QED
    BY <1>8, <2>1, MarksKept DEF EndRotation, disk, history
<1>9. ASSUME Delete PROVE MarksInv'
  <2>1. PICK f \in Files : f \notin marked /\ Request(f, "unlink")
    BY <1>9 DEF Delete
  <2>2. job'["request"].name = f /\ job'["cron"] = job["cron"]
    BY <2>1 DEF Request, Types, Actors, Idle
  <2>3. QED
    BY <2>1, <2>2 DEF Request, disk, history, MarksInv
<1>10. ASSUME Protect \/ Restore PROVE MarksInv'
  <2>1. PICK f \in Files, pc \in {"touch", "verify"} : Request(f, pc)
    BY <1>10 DEF Protect, Restore
  <2>2. \A b \in Actors : job'[b].pc = "unlink" => job'[b] = job[b]
    BY <2>1 DEF Request, Types, Actors, Idle
  <2>3. QED
    BY <2>1, <2>2, MarksKept DEF Request, disk, history
<1>11. ASSUME Unprotect \/ Commit \/ Tick \/ TurnBack PROVE MarksInv'
  BY <1>11 DEF Unprotect, Commit, Tick, TurnBack, disk, history, MarksInv
<1>12. ASSUME Touch PROVE MarksInv'
  <2>1. job'["request"].pc = "idle" /\ job'["cron"] = job["cron"]
    BY <1>12, OthersStay DEF Touch, Actors, Pcs
  <2>2. QED
    BY <1>12, <2>1 DEF Touch, MarksInv
<1>13. ASSUME Verify \/ Keep \/ Replace PROVE MarksInv'
  <2>1. PICK pc \in {"keep", "replace", "idle"} : Goto("request", pc)
    BY <1>13 DEF Verify, Keep, Replace
  <2>2. \A b \in Actors : job'[b].pc = "unlink" => job'[b] = job[b]
    BY <2>1, OthersStay DEF Actors, Pcs
  <2>3. QED
    BY <1>13, <2>2, MarksKept DEF Verify, Keep, Replace, disk, history
<1>14. ASSUME Crash PROVE MarksInv'
  BY <1>14 DEF Crash, Idle, Actors, MarksInv
<1>15. QED
  BY <1>1, <1>2, <1>3, <1>4, <1>5, <1>6, <1>7, <1>8, <1>9, <1>10, <1>11, <1>12,
     <1>13, <1>14 DEF Next, Actors

\* Who removes a file: a backup that fails, and who is at the removal of it.
LEMMA Removers ==
    ASSUME Types, Next, NEW f \in Removed
    PROVE  \/ Filling(f)
           \/ \E a \in Actors : job[a].pc = "unlink" /\ job[a].name = f
<1>0. /\ f \in Files /\ file[f] # None /\ file'[f] = None
      /\ file \in [Files -> Contents]
  BY DEF Removed, Exists, Types, TypeOK
<1>1. ASSUME NEW a \in Actors, Open(a) PROVE FALSE
  BY <1>0, <1>1 DEF Open, None, Empty
<1>2. ASSUME NEW a \in Actors, Copy(a) PROVE FALSE
  BY <1>0, <1>2 DEF Copy, Types, TypeOK
<1>3. ASSUME NEW a \in Actors, CopyFails(a) PROVE Filling(f)
  BY <1>0, <1>3 DEF CopyFails, Filling
<1>4. ASSUME NEW a \in Actors, Unlink(a)
      PROVE  job[a].pc = "unlink" /\ job[a].name = f
  BY <1>0, <1>4 DEF Unlink
<1>5. ASSUME Verify \/ Replace PROVE FALSE
  BY <1>0, <1>5 DEF Verify, Replace, OpenToRead, None, Empty
<1>6. ASSUME NEW a \in Actors, Unmark(a) PROVE FALSE
  BY <1>0, <1>6 DEF Unmark
<1>7. ASSUME List \/ Check \/ EndRotation \/ Keep \/ Tick \/ TurnBack \/ Crash
      PROVE  FALSE
  BY <1>0, <1>7 DEF List, Check, EndRotation, Keep, Tick, TurnBack, Crash, disk
<1>8. ASSUME Delete \/ Protect \/ Restore PROVE FALSE
  BY <1>0, <1>8 DEF Delete, Protect, Restore, Request, disk
<1>9. ASSUME Unprotect \/ Touch \/ Commit PROVE FALSE
  BY <1>0, <1>9 DEF Unprotect, Touch, Commit
<1>10. QED
  BY <1>1, <1>2, <1>3, <1>4, <1>5, <1>6, <1>7, <1>8, <1>9 DEF Next

\* For any number of files and requests, and in any order of their steps: a
\* protected backup is removed only if it was protected between the last look
\* of the rotation and the removal, or by a failing backup of its name.
THEOREM ProtectedStayHolds == ASSUME Parameters PROVE Spec => ProtectedStay
<1>1. Init => Types /\ MarksInv
  BY InitTypes DEF Init, Idle, Actors, MarksInv
<1>2. Types /\ MarksInv /\ [Next]_vars => (Types /\ MarksInv)'
  <2>1. CASE UNCHANGED vars
    BY <2>1 DEF Types, TypeOK, MarksInv, vars, disk, history
  <2>2. QED
    BY <2>1, StepTypes, MarksStep
<1>3. Types /\ MarksInv /\ [Next]_vars
        => [\A f \in Removed \cap marked : f \in late \/ Filling(f)]_vars
  BY Removers DEF MarksInv, Actors
<1>4. QED
  BY <1>1, <1>2, <1>3, PTL DEF Spec, ProtectedStay

-----------------------------------------------------------------------------
(* Rotation                                                                    *)

LEMMA FilesAreFinite == ASSUME Parameters PROVE IsFiniteSet(Files)
<1>1. IsFiniteSet({"scheduled"} \cup {"manual"})
  BY FS_Singleton, FS_AddElement
<1>2. {"scheduled"} \cup {"manual"} = {"scheduled", "manual"}
  OBVIOUS
<1>3. IsFiniteSet(1..MaxTime)
  BY FS_Interval DEF Parameters
<1>4. QED
  BY <1>1, <1>2, <1>3, FS_Product DEF Files

\* What the rotation is about to remove, and who stays because of it.
Rotating == job["cron"].pc \in {"rotate", "unlink", "unmark"}
Doomed == job["cron"].todo \cup
          IF job["cron"].pc = "unlink" THEN {job["cron"].name} ELSE {}
Kept(f) == {k \in Unprotected \ Doomed : At(k) >= At(f)}

KeptInv ==
    Rotating /\ ~meddled =>
        \A f \in Doomed : Cardinality(Kept(f)) >= MaxCount

\* More may stay and fewer be removed.
LEMMA KeptGrows ==
    ASSUME Parameters, Types, KeptInv,
           (Rotating /\ ~meddled)' =>
              /\ Rotating /\ ~meddled
              /\ Doomed' \subseteq Doomed
              /\ Unprotected \ Doomed \subseteq Unprotected'
    PROVE  KeptInv'
<1> SUFFICES ASSUME (Rotating /\ ~meddled)', NEW f \in Doomed'
             PROVE  Cardinality(Kept(f)') >= MaxCount
  BY DEF KeptInv
<1>1. f \in Doomed /\ Cardinality(Kept(f)) >= MaxCount
  BY DEF KeptInv
<1>2. Kept(f) \subseteq Kept(f)' /\ Kept(f)' \subseteq Files
  BY DEF Kept, Unprotected
<1>3. IsFiniteSet(Kept(f)')
  BY <1>2, FilesAreFinite, FS_Subset
<1>4. /\ Cardinality(Kept(f)) <= Cardinality(Kept(f)')
      /\ Cardinality(Kept(f)) \in Int /\ Cardinality(Kept(f)') \in Int
  BY <1>2, <1>3, FS_Subset, FS_CardinalityType
<1>5. QED
  BY <1>1, <1>4 DEF Parameters

\* What is listed leaves max_count others, none of them older.
LEMMA SurplusLeaves ==
    ASSUME Parameters, NEW d \in Surplus, NEW f \in d
    PROVE  Cardinality({k \in Unprotected \ d : At(k) >= At(f)}) >= MaxCount
<1>1. d \subseteq Files /\ Unprotected \subseteq Files
  BY DEF Surplus, Unprotected
<1>2. \A k \in Unprotected \ d : At(k) >= At(f)
  <2>1. ASSUME NEW k \in Unprotected \ d PROVE At(k) >= At(f)
    <3>1. At(f) <= At(k)
      BY DEF Surplus
    <3>2. At(f) \in Int /\ At(k) \in Int
      BY <1>1 DEF Files, At, Parameters
    <3>3. QED
      BY <3>1, <3>2
  <2>2. QED
    BY <2>1
<1>3. {k \in Unprotected \ d : At(k) >= At(f)} = Unprotected \ d
  BY <1>2
<1>4. Cardinality(Unprotected \ d) = MaxCount
  BY DEF Surplus
<1>5. QED
  BY <1>3, <1>4 DEF Parameters

LEMMA KeptStep == ASSUME Parameters, Types, KeptInv, Next PROVE KeptInv'
<1>0. /\ job \in [Actors -> JobType]
      /\ file \in [Files -> Contents] /\ db # None
  BY DEF Types, TypeOK
<1> DEFINE Grows == (Rotating /\ ~meddled)' =>
                       /\ Rotating /\ ~meddled
                       /\ Doomed' \subseteq Doomed
                       /\ Unprotected \ Doomed \subseteq Unprotected'
<1>1. ASSUME NEW a \in Actors, Open(a) PROVE Grows
  <2>1. Unprotected \subseteq Unprotected'
    BY <1>0, <1>1 DEF Open, Unprotected, Exists
  <2>2. CASE a = "cron"
    BY <1>0, <1>1, <2>2 DEF Open, Rotating, Idle
  <2>3. CASE a # "cron"
    BY <1>0, <1>1, <2>1, <2>3 DEF Open, Rotating, Doomed, history, Actors
  <2>4. QED
    BY <2>2, <2>3
<1>2. ASSUME NEW a \in Actors, Copy(a) PROVE Grows
  <2>1. Unprotected \subseteq Unprotected'
    BY <1>0, <1>2 DEF Copy, Unprotected, Exists
  <2>2. CASE a = "cron"
    BY <1>2, <2>2, OthersStay DEF Copy, Rotating, Pcs
  <2>3. CASE a # "cron"
    <3>1. job'["cron"] = job["cron"]
      BY <1>2, <2>3, OthersStay DEF Copy, Actors, Pcs
    <3>2. QED
      BY <1>2, <2>1, <3>1 DEF Copy, Rotating, Doomed
  <2>4. QED
    BY <2>2, <2>3
<1>3. ASSUME NEW a \in Actors, CopyFails(a) PROVE Grows
  BY <1>3 DEF CopyFails
<1>4. ASSUME Unlink("cron") PROVE Grows
  <2>1. PICK pc \in {"unmark", "rotate"} : Goto("cron", pc)
    BY <1>4 DEF Unlink, After
  <2>2. Rotating /\ Doomed' \subseteq Doomed /\ job["cron"].name \in Doomed
    BY <1>4, <2>1, OthersStay DEF Unlink, Rotating, Doomed, Actors, Pcs
  <2>3. Unprotected \ {job["cron"].name} \subseteq Unprotected'
    BY <1>0, <1>4 DEF Unlink, Unprotected, Exists
  <2>4. ~meddled' => ~meddled
    BY <1>4 DEF Unlink
  <2>5. QED
    BY <2>2, <2>3, <2>4
<1>5. ASSUME Unlink("request") PROVE Grows
  BY <1>5 DEF Unlink
<1>6. ASSUME NEW a \in Actors, Unmark(a) PROVE Grows
  <2>1. Unprotected \subseteq Unprotected' /\ meddled' = meddled
    BY <1>6 DEF Unmark, Unprotected, Exists, history
  <2>2. PICK pc \in {"rotate", "idle"} :
           Goto(a, pc) /\ (a = "cron" => pc = "rotate")
    BY <1>6 DEF Unmark, After
  <2>3. CASE a = "cron"
    BY <1>6, <2>1, <2>2, <2>3, OthersStay DEF Unmark, Rotating, Doomed, Pcs
  <2>4. CASE a # "cron"
    <3>1. job'["cron"] = job["cron"]
      BY <2>2, <2>4, OthersStay DEF Actors, Pcs
    <3>2. QED
      BY <2>1, <3>1 DEF Rotating, Doomed
  <2>5. QED
    BY <2>3, <2>4
<1>7. ASSUME List PROVE KeptInv'
  <2>1. PICK d \in Surplus :
           job' = [job EXCEPT !["cron"].pc = "rotate", !["cron"].todo = d]
    BY <1>7 DEF List
  <2>2. job'["cron"].pc = "rotate" /\ job'["cron"].todo = d
    BY <1>0, <2>1 DEF JobType, Actors
  <2>3. Doomed' = d
    BY <2>2 DEF Doomed
  <2>4. Unprotected' = Unprotected
    BY <1>7 DEF List, disk, Unprotected, Exists
  <2>5. \A f \in d : Kept(f)' = {k \in Unprotected \ d : At(k) >= At(f)}
    BY <2>3, <2>4 DEF Kept
  <2>6. QED
    BY <2>3, <2>5, SurplusLeaves DEF KeptInv
<1>8. ASSUME Check PROVE Grows
  <2>1. PICK f \in job["cron"].todo :
           job' = [job EXCEPT !["cron"].todo = @ \ {f}, !["cron"].name = f,
                     !["cron"].pc = IF Passes(f) THEN "unlink" ELSE @]
    BY <1>8 DEF Check
  <2>2. /\ job["cron"].pc = "rotate"
        /\ job'["cron"].todo = job["cron"].todo \ {f} /\ job'["cron"].name = f
    BY <1>0, <1>8, <2>1 DEF Check, JobType, Actors
  <2>3. Unprotected' = Unprotected /\ meddled' = meddled
    BY <1>8 DEF Check, disk, history, Unprotected, Exists
  <2>4. QED
    BY <2>2, <2>3 DEF Rotating, Doomed
<1>9. ASSUME EndRotation PROVE Grows
  BY <1>9, OthersStay DEF EndRotation, Rotating, Actors, Pcs
<1>10. ASSUME Delete \/ Protect \/ Restore PROVE Grows
  BY <1>0, <1>10 DEF Delete, Protect, Restore, Request, Rotating, Doomed, disk,
         history, Unprotected, Exists, Actors
<1>11. ASSUME Unprotect \/ Commit \/ Tick \/ TurnBack PROVE Grows
  BY <1>11 DEF Unprotect, Commit, Tick, TurnBack, Rotating, Doomed, disk,
         history, Unprotected, Exists
<1>12. ASSUME Touch PROVE Grows
  BY <1>12 DEF Touch
<1>13. ASSUME Verify \/ Keep \/ Replace PROVE Grows
  <2>1. PICK pc \in {"keep", "replace", "idle"} : Goto("request", pc)
    BY <1>13 DEF Verify, Keep, Replace
  <2>2. job'["cron"] = job["cron"]
    BY <2>1, OthersStay DEF Actors, Pcs
  <2>3. Unprotected \subseteq Unprotected'
    BY <1>0, <1>13 DEF Verify, Keep, Replace, OpenToRead, disk, Unprotected,
         Exists, None, Empty
  <2>4. meddled' = meddled
    BY <1>13 DEF Verify, Keep, Replace, history
  <2>5. QED
    BY <2>2, <2>3, <2>4 DEF Rotating, Doomed
<1>14. ASSUME Crash PROVE Grows
  BY <1>14 DEF Crash, Rotating, Idle, Actors
<1>15. Grows \/ KeptInv'
  <2> HIDE DEF Grows
  <2> QED
    BY <1>1, <1>2, <1>3, <1>4, <1>5, <1>6, <1>7, <1>8, <1>9, <1>10, <1>11,
       <1>12, <1>13, <1>14 DEF Next, Actors
<1>16. QED
  BY <1>15, KeptGrows

\* For any number of files, and with deletions, protections, backups and
\* restores between the steps of the rotation: it removes a file only while
\* max_count unprotected ones that are younger by their names stay, unless a
\* deletion, a protection or a failing backup came in between.
THEOREM EnoughStayHolds == ASSUME Parameters PROVE Spec => EnoughStay
<1>1. Init => Types /\ KeptInv
  <2>1. Init => Types
    BY InitTypes
  <2>2. Init => KeptInv
    BY DEF Init, Idle, Actors, KeptInv, Rotating
  <2>3. QED
    BY <2>1, <2>2
<1>2. Types /\ KeptInv /\ [Next]_vars => (Types /\ KeptInv)'
  <2>1. CASE UNCHANGED vars
    BY <2>1 DEF Types, TypeOK, KeptInv, Rotating, Doomed, Kept, Unprotected,
         Exists, vars, disk, history
  <2>2. QED
    BY <2>1, StepTypes, KeptStep
<1> DEFINE A == job["cron"].pc = "unlink" /\ job'["cron"].pc = "unmark" =>
          meddled \/ Cardinality(Younger(job["cron"].name)) >= MaxCount
<1>3. Types /\ KeptInv => A
  <2> SUFFICES ASSUME Types, KeptInv, job["cron"].pc = "unlink", ~meddled
               PROVE  Cardinality(Younger(job["cron"].name)) >= MaxCount
    OBVIOUS
  <2> DEFINE f == job["cron"].name
  <2>1. f \in Doomed /\ Rotating
    BY DEF Doomed, Rotating
  <2>2. Cardinality(Kept(f)) >= MaxCount
    BY <2>1 DEF KeptInv
  <2>3. Kept(f) \subseteq Younger(f) /\ Younger(f) \subseteq Files
    BY <2>1 DEF Kept, Younger, Unprotected
  <2>4. IsFiniteSet(Younger(f))
    BY <2>3, FilesAreFinite, FS_Subset
  <2>5. /\ Cardinality(Kept(f)) <= Cardinality(Younger(f))
        /\ Cardinality(Kept(f)) \in Int /\ Cardinality(Younger(f)) \in Int
    BY <2>3, <2>4, FS_Subset, FS_CardinalityType
  <2>6. QED
    BY <2>2, <2>5 DEF Parameters
<1>4. Types /\ KeptInv /\ [Next]_vars => [A]_vars
  BY <1>3
<1>5. QED
  BY <1>1, <1>2, <1>4, PTL DEF Spec, EnoughStay

-----------------------------------------------------------------------------
(* Restores                                                                    *)

\* A file without tables is one that is being filled, or known to be left so.
HollowInv == \A f \in Files : file[f] = Empty => f \in hollow \/ Filling(f)

\* The steps that empty no file, fill none and know what was left.
LEMMA HollowKept ==
    ASSUME HollowInv, hollow \subseteq hollow',
           \A f \in Files : file'[f] = Empty => f \in hollow' \/ file[f] = Empty,
           \A a \in Actors : job[a].pc = "copy" => job'[a] = job[a]
    PROVE  HollowInv'
BY DEF HollowInv, Filling

LEMMA HollowStep == ASSUME Parameters, Types, HollowInv, Next PROVE HollowInv'
<1>0. /\ job \in [Actors -> JobType]
      /\ file \in [Files -> Contents] /\ db # None
  BY DEF Types, TypeOK
<1>1. ASSUME NEW a \in Actors, Open(a) PROVE HollowInv'
  <2> DEFINE name == <<TypeOf[a], clock>>
  <2>1. /\ \A f \in Files \ {name} : file'[f] = file[f]
        /\ hollow' = hollow
    BY <1>0, <1>1 DEF Open, history
  <2>2. job'[a].pc = "copy" /\ job'[a].name = name
    BY <1>0, <1>1 DEF Open, Idle
  <2>3. \A b \in Actors : job[b].pc = "copy" => job'[b] = job[b]
    BY <1>0, <1>1 DEF Open
  <2>4. QED
    BY <2>1, <2>2, <2>3 DEF HollowInv, Filling
<1>2. ASSUME NEW a \in Actors, Copy(a) PROVE HollowInv'
  <2> DEFINE name == job[a].name
  <2>1. name \in Files
    BY JobsAre
  <2>2. /\ file'[name] = db /\ \A f \in Files \ {name} : file'[f] = file[f]
        /\ hollow \ {name} \subseteq hollow'
        /\ db = Empty => name \in hollow'
    BY <1>0, <1>2, <2>1 DEF Copy
  <2>3. \A b \in Actors \ {a} : job'[b] = job[b]
    BY <1>2, OthersStay DEF Copy, Pcs
  <2>4. \A f \in Files \ {name} : Filling(f) => Filling(f)'
    BY <2>3 DEF Filling
  <2>5. QED
    BY <2>2, <2>4 DEF HollowInv
<1>3. ASSUME NEW a \in Actors, CopyFails(a) PROVE HollowInv'
  <2> DEFINE name == job[a].name
  <2>1. name \in Files
    BY JobsAre
  <2>2. /\ file'[name] = None /\ \A f \in Files \ {name} : file'[f] = file[f]
        /\ hollow' = hollow
    BY <1>0, <1>3, <2>1 DEF CopyFails
  <2>3. \A b \in Actors \ {a} : job'[b] = job[b]
    BY <1>3, OthersStay DEF CopyFails, Pcs
  <2>4. \A f \in Files \ {name} : Filling(f) => Filling(f)'
    BY <2>3 DEF Filling
  <2>5. QED
    BY <2>2, <2>4 DEF HollowInv, None, Empty
<1>4. ASSUME NEW a \in Actors, Unlink(a) \/ Unmark(a) PROVE HollowInv'
  <2>1. /\ \A f \in Files : file'[f] = Empty => file[f] = Empty
        /\ hollow' = hollow
    BY <1>0, <1>4 DEF Unlink, Unmark, history, None, Empty
  <2>2. PICK pc \in {"unmark", "rotate", "idle"} : Goto(a, pc)
    BY <1>4 DEF Unlink, Unmark, After
  <2>3. \A b \in Actors : job[b].pc = "copy" => job'[b] = job[b]
    BY <1>4, <2>2, OthersStay DEF Unlink, Unmark, Pcs
  <2>4. QED
    BY <2>1, <2>3, HollowKept
<1>5. ASSUME List \/ Check \/ EndRotation PROVE HollowInv'
  <2>1. file' = file /\ hollow' = hollow
    BY <1>5 DEF List, Check, EndRotation, disk, history
  <2>2. job["cron"].pc # "copy" /\ job'["request"] = job["request"]
    BY <1>0, <1>5 DEF List, Check, EndRotation, Goto, Actors
  <2>3. QED
    BY <2>1, <2>2, HollowKept DEF Actors
<1>6. ASSUME Delete \/ Protect \/ Restore PROVE HollowInv'
  <2>1. file' = file /\ hollow' = hollow
    BY <1>6 DEF Delete, Protect, Restore, Request, disk, history
  <2>2. job["request"].pc # "copy" /\ job'["cron"] = job["cron"]
    BY <1>0, <1>6 DEF Delete, Protect, Restore, Request, Actors
  <2>3. QED
    BY <2>1, <2>2, HollowKept DEF Actors
<1>7. ASSUME Unprotect \/ Commit \/ Tick \/ TurnBack PROVE HollowInv'
  BY <1>7 DEF Unprotect, Commit, Tick, TurnBack, disk, history, HollowInv, Filling
<1>8. ASSUME Touch \/ Keep PROVE HollowInv'
  <2>1. file' = file /\ hollow' = hollow
    BY <1>8 DEF Touch, Keep, disk, history
  <2>2. job["request"].pc # "copy" /\ job'["cron"] = job["cron"]
    BY <1>0, <1>8 DEF Touch, Keep, Goto, Actors
  <2>3. QED
    BY <2>1, <2>2, HollowKept DEF Actors
<1>9. ASSUME Verify \/ Replace PROVE HollowInv'
  <2> DEFINE f == job["request"].name
  <2>1. f \in Files /\ OpenToRead(f)
    BY <1>9, JobsAre DEF Verify, Replace, Actors
  <2>2. /\ hollow \subseteq hollow'
        /\ \A g \in Files : file'[g] = Empty => g \in hollow' \/ file[g] = Empty
    BY <1>0, <2>1 DEF OpenToRead, Exists
  <2>3. job["request"].pc # "copy" /\ job'["cron"] = job["cron"]
    BY <1>0, <1>9 DEF Verify, Replace, Goto, Actors
  <2>4. QED
    BY <2>2, <2>3, HollowKept DEF Actors
<1>10. ASSUME Crash PROVE HollowInv'
  <2>1. \A f \in Files : Filling(f) => f \in hollow'
    BY <1>10 DEF Crash, Filling
  <2>2. file' = file /\ hollow \subseteq hollow'
    BY <1>10 DEF Crash, disk
  <2>3. QED
    BY <2>1, <2>2 DEF HollowInv
<1>11. QED
  BY <1>1, <1>2, <1>3, <1>4, <1>5, <1>6, <1>7, <1>8, <1>9, <1>10 DEF Next

\* For any number of requests, failures and crashes: a restore never puts a
\* database without tables in place of one with tables, unless the file was
\* removed, was being written, or is what a crash, a restore or the backup of
\* such a database has left.
THEOREM RestoresHaveDataHolds == ASSUME Parameters PROVE Spec => RestoresHaveData
<1>1. Init => Types /\ HollowInv
  <2>1. Init => Types
    BY InitTypes
  <2>2. Init => HollowInv
    BY DEF Init, HollowInv, None, Empty
  <2>3. QED
    BY <2>1, <2>2
<1>2. Types /\ HollowInv /\ [Next]_vars => (Types /\ HollowInv)'
  <2>1. CASE UNCHANGED vars
    BY <2>1 DEF Types, TypeOK, HollowInv, Filling, vars, disk, history
  <2>2. QED
    BY <2>1, StepTypes, HollowStep
<1> DEFINE A == db' = Empty => db = Empty \/ job["request"].name \in hollow'
<1>3. ASSUME Types, HollowInv, Next PROVE A
  <2>1. CASE Replace
    <3> DEFINE f == job["request"].name
    <3>1. f \in Files /\ OpenToRead(f) /\ db' = file'[f]
      BY <1>3, <2>1, JobsAre DEF Replace, Actors
    <3>2. file'[f] = Empty => f \in hollow'
      BY <1>3, <3>1 DEF OpenToRead, HollowInv, Types, TypeOK, Exists
    <3>3. QED
      BY <3>1, <3>2
  <2>2. CASE Commit
    BY <1>3, <2>2 DEF Commit, Types, Empty, Parameters
  <2>3. CASE ~Replace /\ ~Commit
    <3>1. db' = db
      BY <1>3, <2>3 DEF Next, Open, Copy, CopyFails, Unlink, Unmark, List, Check,
           EndRotation, Delete, Protect, Unprotect, Restore, Request, Touch,
           Verify, Keep, Tick, TurnBack, Crash, disk
    <3>2. QED
      BY <3>1
  <2>4. QED
    BY <2>1, <2>2, <2>3
<1>4. Types /\ HollowInv /\ [Next]_vars => [A]_vars
  BY <1>3
<1>5. QED
  BY <1>1, <1>2, <1>4, PTL DEF Spec, RestoresHaveData

\* All that the runs check of the backups holds for every number of them.
THEOREM BackupsHoldHolds == ASSUME Parameters PROVE Spec => BackupsHold
BY ProtectedStayHolds, EnoughStayHolds, RestoresHaveDataHolds DEF BackupsHold

=============================================================================
