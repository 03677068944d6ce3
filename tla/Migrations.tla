----------------------------- MODULE Migrations -----------------------------
(* How init_db brings an old database to the current schema: structural     *)
(* pre-migrations that drop tables, the schema script that recreates them,  *)
(* versioned data migrations, and the restore of what was dropped.  What    *)
(* survives a crash is decided by sqlite: a statement that writes rows      *)
(* opens a transaction, one that changes the schema is part of an open      *)
(* transaction or else committed at once, a script commits first, and       *)
(* PRAGMA foreign_keys does nothing inside a transaction.                   *)
EXTENDS Naturals, FiniteSets

CONSTANTS From,         \* versions of the databases to be upgraded
          Rebuilt,      \* detection_keywords, stream_match_cache
          MaxStops      \* bound: crashes, restarts and restores that fail

Latest == 84
\* The versions with a data migration; the others only advance the number.
Data == {50, 53, 58, 59, 61, 62, 63, 64, 66, 67, 69}
            \cup (72..76) \cup (78..84)
Targets == Data \cup {43, 49, 51, 52, 57, 60, 65, 68, 71, 77}

VARIABLES db,       \* the database as the connection sees it
          disk,     \* the database as last committed
          open,     \* a transaction is open
          fk,       \* foreign keys are enforced
          at,       \* where init_db is; "down" and "up" outside of it
          cur,      \* current_version
          left,     \* tables _migrate_..._check has yet to look at
          mem,      \* the exception keywords read before the drop
          stops

vars == <<db, disk, open, fk, at, cur, left, mem, stops>>

Missing == [there |-> FALSE]
Fresh == [there |-> TRUE, own |-> FALSE, api |-> 30, mode |-> "auto",
          version |-> Latest]
Gone == [there |-> FALSE, new |-> FALSE, rows |-> FALSE]
Empty == [there |-> TRUE, new |-> TRUE, rows |-> FALSE]
None == "none"

\* A table has the CHECK it was created with, whatever the version.  What a
\* restore has failed to bring back is in lost, which the code does not keep.
Old(v, manual, stale) ==
  [from |-> v, manual |-> manual,
   settings |-> [there |-> TRUE, own |-> TRUE,
                 api |-> IF v < 53 THEN 10 ELSE 30,
                 mode |-> IF v < 59 THEN "absent"
                          ELSE IF manual THEN "manual" ELSE "auto",
                 version |-> v],
   backup |-> Missing,
   words |-> [there |-> TRUE, new |-> v >= 35, rows |-> TRUE],
   table |-> [t \in Rebuilt |->
                 [there |-> TRUE, new |-> t \notin stale, rows |-> TRUE]],
   saved |-> [t \in Rebuilt |-> None],
   check |-> v < 43,
   channels |-> [rows |-> TRUE, streams |-> TRUE, cascade |-> v < 63,
                 full |-> v = Latest],
   done |-> [m \in Data |-> IF m <= v THEN 1 ELSE 0],
   lost |-> {}]

TypeOK ==
    /\ {db.from, disk.from} \subseteq From /\ open \in BOOLEAN
    /\ fk \in BOOLEAN /\ mem \in BOOLEAN /\ left \subseteq Rebuilt
    /\ cur \in 0..Latest /\ stops \in 0..MaxStops
    /\ \A t \in Rebuilt : db.saved[t] \in {None, "rows", "empty"}
    /\ db.lost \subseteq {"settings"} \cup Rebuilt
    /\ ~open => db = disk
    /\ at \in {"down", "up"} => ~open

Init == /\ \E v \in From, manual \in BOOLEAN, stale \in SUBSET Rebuilt :
              db = Old(v, manual, stale)
        /\ disk = db /\ open = FALSE /\ fk = TRUE /\ at = "down"
        /\ cur = 0 /\ left = {} /\ mem = FALSE /\ stops = 0

-----------------------------------------------------------------------------
(* What a statement does to the database.                                  *)

Ddl(new) == /\ db' = new
            /\ disk' = IF open THEN disk ELSE new
            /\ UNCHANGED open
Dml(new) == db' = new /\ open' = TRUE /\ UNCHANGED disk
Commit == disk' = db /\ open' = FALSE /\ UNCHANGED db
Nothing == UNCHANGED <<db, disk, open>>
Goto(from, to) == at = from /\ at' = to

-----------------------------------------------------------------------------
(* get_connection and run_pre_migrations.                                  *)

Boot == /\ Goto("down", "words") /\ Nothing
        /\ fk' = TRUE /\ cur' = 0 /\ left' = Rebuilt /\ mem' = FALSE
        /\ UNCHANGED stops

Rest == UNCHANGED <<fk, cur, stops>>

\* The rows of the keywords table are read and the table is dropped.
ReadWords == /\ at = "words"
             /\ IF db.words.there /\ ~db.words.new
                THEN /\ mem' = db.words.rows /\ at' = "create_words"
                     /\ Ddl([db EXCEPT !.words = Gone])
                ELSE at' = "settings" /\ Nothing /\ UNCHANGED mem
             /\ UNCHANGED left /\ Rest

CreateWords == /\ Goto("create_words", "fill_words")
               /\ Ddl([db EXCEPT !.words = Empty])
               /\ UNCHANGED <<left, mem>> /\ Rest

FillWords == /\ Goto("fill_words", "settings")
             /\ IF mem THEN Dml([db EXCEPT !.words.rows = TRUE])
                       ELSE Nothing
             /\ UNCHANGED <<left, mem>> /\ Rest

\* v65: the settings are copied to _settings_v65_backup and dropped.
DropBackup == /\ at = "settings"
              /\ IF db.settings.there /\ db.settings.version < 65
                 THEN /\ at' = "copy_settings"
                      /\ Ddl([db EXCEPT !.backup = Missing])
                 ELSE at' = "check" /\ Nothing
              /\ UNCHANGED <<left, mem>> /\ Rest

CopySettings == /\ Goto("copy_settings", "drop_settings")
                /\ Ddl([db EXCEPT !.backup = db.settings])
                /\ UNCHANGED <<left, mem>> /\ Rest

DropSettings == /\ Goto("drop_settings", "check")
                /\ Ddl([db EXCEPT !.settings = Missing])
                /\ UNCHANGED <<left, mem>> /\ Rest

\* A table with a stale CHECK is copied and dropped; of the match cache the
\* corrections of the user are copied, which is what rows stands for.
Table == CHOOSE t \in left : TRUE
CheckTable == /\ at = "check" /\ left # {}
              /\ IF db.table[Table].there /\ ~db.table[Table].new
                 THEN /\ at' = "copy_table" /\ UNCHANGED left
                      /\ Ddl([db EXCEPT !.saved[Table] = None])
                 ELSE /\ left' = left \ {Table}
                      /\ Nothing /\ UNCHANGED at
              /\ UNCHANGED mem /\ Rest

CopyTable == /\ Goto("copy_table", "drop_table")
             /\ Ddl([db EXCEPT !.saved[Table] =
                     IF db.table[Table].rows THEN "rows" ELSE "empty"])
             /\ UNCHANGED <<left, mem>> /\ Rest

DropTable == /\ Goto("drop_table", "check")
             /\ Ddl([db EXCEPT !.table[Table] = Gone])
             /\ left' = left \ {Table}
             /\ UNCHANGED mem /\ Rest

-----------------------------------------------------------------------------
(* reconcile_schema, then the script: every missing table is created.      *)

Reconcile == /\ at = "check" /\ left = {} /\ at' = "script"
             /\ Ddl([db EXCEPT !.channels.full = TRUE])
             /\ UNCHANGED <<left, mem>> /\ Rest

Script == /\ Goto("script", "create") /\ Commit
          /\ UNCHANGED <<left, mem>> /\ Rest

NoneMissing == /\ db.settings.there /\ db.words.there
               /\ \A t \in Rebuilt : db.table[t].there

Create == /\ at = "create" /\ UNCHANGED at
          /\ \/ ~db.settings.there /\ Ddl([db EXCEPT !.settings = Fresh])
             \/ ~db.words.there /\ Ddl([db EXCEPT !.words = Empty])
             \/ \E t \in Rebuilt : /\ ~db.table[t].there
                                   /\ Ddl([db EXCEPT !.table[t] = Empty])
          /\ UNCHANGED <<left, mem>> /\ Rest

-----------------------------------------------------------------------------
(* _run_migrations.                                                        *)

\* Mutant: the version that was recovered is committed at once.
RecoverNow ==
    /\ at = "create" /\ NoneMissing /\ at' = "upgrade"
    /\ IF db.backup.there
       THEN /\ Ddl([db EXCEPT !.settings.version = db.backup.version])
            /\ cur' = db.backup.version
       ELSE Nothing /\ cur' = db.settings.version
    /\ UNCHANGED <<left, mem, fk, stops>>

\* The new settings say Latest: the version before is in the backup.
Recover ==
    /\ at = "create" /\ NoneMissing /\ at' = "upgrade"
    /\ IF db.backup.there
       THEN /\ Dml([db EXCEPT !.settings.version = db.backup.version])
            /\ cur' = db.backup.version
       ELSE Nothing /\ cur' = db.settings.version
    /\ UNCHANGED <<left, mem, fk, stops>>

\* The block of version m is the next: up to v64 before the restore.
Block(m) == /\ m > cur /\ \A k \in Targets : k > cur => m <= k
            /\ at = IF m < 65 THEN "upgrade" ELSE "late"
\* An UPDATE of settings without a row changes nothing.
Bump(d, m) == [d EXCEPT !.settings = IF @.there THEN [@ EXCEPT !.version = m]
                                                 ELSE @,
                        !.done = [k \in Data |-> IF k = m THEN d.done[k] + 1
                                                 ELSE d.done[k]]]
Upgraded(m) == cur' = m /\ UNCHANGED <<left, mem, fk, stops>>

\* The checkpoint turns the foreign keys off, if no transaction is open, and
\* rebuilds the groups table to lose a CHECK.  Dropping it deletes its rows,
\* and what refers to them.
RebuildGroups ==
    /\ Block(43) /\ at' = "checkpoint"
    /\ fk' = (fk /\ open)
    /\ LET lost == db.check /\ fk' /\ db.channels.cascade
           kept == [db.channels EXCEPT
                      !.rows = db.channels.rows /\ ~lost,
                      !.streams = db.channels.streams /\ ~lost]
           new == [db EXCEPT !.channels = kept, !.check = FALSE]
       IN  IF db.check THEN db' = new /\ disk' = new /\ open' = FALSE
                       ELSE Nothing
    /\ UNCHANGED <<cur, left, mem, stops>>

Checkpoint == /\ Goto("checkpoint", "upgrade")
              /\ Dml([db EXCEPT !.settings.version = 43])
              /\ cur' = 43 /\ fk' = (fk \/ ~open)
              /\ UNCHANGED <<left, mem, stops>>

ApiDefaults == /\ Block(53) /\ UNCHANGED at
               /\ Dml(Bump([db EXCEPT !.settings.api = 30], 53))
               /\ Upgraded(53)

\* Mutant: the version is raised before the migration, not after it.
SubscribeLate == /\ Block(58) /\ at' = "subscribe"
                 /\ disk' = [db EXCEPT !.settings.version = 58]
                 /\ db' = disk' /\ open' = FALSE
                 /\ UNCHANGED <<cur, left, mem, fk, stops>>

\* v58 creates its tables with a script, which commits what was done so far.
SubscribeTables == /\ Block(58) /\ at' = "subscribe"
                   /\ Commit
                   /\ UNCHANGED <<cur, left, mem, fk, stops>>
Subscribe == /\ Goto("subscribe", "upgrade")
             /\ Dml(Bump(db, 58)) /\ Upgraded(58)

GlobalMode == /\ Block(59) /\ UNCHANGED at
              /\ Dml(Bump([db EXCEPT !.settings.mode =
                             IF db.manual THEN "manual" ELSE "auto"], 59))
              /\ Upgraded(59)

\* The rebuild has the columns of its day; the rows of the streams and of the
\* history go with the dropped table when foreign keys are enforced.
RebuildChannels ==
    /\ Block(63) /\ UNCHANGED at
    /\ LET on == fk /\ open
           built == [db.channels EXCEPT !.cascade = FALSE, !.full = FALSE,
                       !.streams = db.channels.streams /\ ~on]
       IN  Dml(Bump([db EXCEPT !.channels = built], 63))
    /\ Upgraded(63)

\* Every other block.
Migrate == \E m \in Targets \ {43, 53, 58, 59, 63} :
    /\ Block(m) /\ UNCHANGED at
    /\ Dml(Bump(db, m)) /\ Upgraded(m)

\* A column the backup lacks gets its default.
RestoreSettings ==
    /\ at = "upgrade" /\ \A m \in Targets : m < 65 => m <= cur
    /\ at' = "restore"
    /\ IF db.backup.there
       THEN Dml([db EXCEPT !.backup = Missing,
                   !.settings = [db.backup EXCEPT !.version = 65,
                     !.mode = IF db.backup.mode = "absent" THEN "auto"
                              ELSE db.backup.mode]])
       ELSE Nothing
    /\ UNCHANGED <<cur, left, mem, fk, stops>>

\* An exception is swallowed and the backup is dropped all the same: the
\* settings stay as the script made them, or their row has gone before.
RestoreSettingsFails ==
    /\ at = "upgrade" /\ \A m \in Targets : m < 65 => m <= cur
    /\ db.backup.there /\ stops < MaxStops
    /\ at' = "restore" /\ stops' = stops + 1
    /\ \E kept \in {db.settings, Missing} :
         Dml([db EXCEPT !.backup = Missing, !.settings = kept,
                        !.lost = db.lost \cup {"settings"}])
    /\ UNCHANGED <<cur, left, mem, fk>>

\* The tables back with the rows that were saved, but those of lost: again an
\* exception is swallowed and the copy is dropped.
PutBack(lost) ==
    [db EXCEPT !.saved = [t \in Rebuilt |-> None],
               !.lost = db.lost \cup lost,
               !.table = [t \in Rebuilt |->
                  [db.table[t] EXCEPT !.rows =
                     db.table[t].rows \/ (db.saved[t] = "rows" /\ t \notin lost)]]]

\* Mutant: restored when the version says so, not when there is a backup.
RestoreOnce ==
    /\ Goto("restore", "late")
    /\ IF cur < 77 THEN Dml(PutBack({}))
       ELSE Dml([db EXCEPT !.saved = [t \in Rebuilt |-> None]])
    /\ UNCHANGED <<cur, left, mem, fk, stops>>

RestoreTables ==
    /\ Goto("restore", "late")
    /\ \E lost \in SUBSET {t \in Rebuilt : db.saved[t] # None} :
         /\ stops' = stops + IF lost = {} THEN 0 ELSE 1
         /\ stops' <= MaxStops
         /\ IF \E t \in Rebuilt : db.saved[t] # None
            THEN Dml(PutBack(lost)) ELSE Nothing
    /\ UNCHANGED <<cur, left, mem, fk>>

\* The rows that are seeded, the end of get_db.
Finish == /\ at = "late" /\ cur = Latest /\ at' = "up"
          /\ Commit
          /\ UNCHANGED <<cur, left, mem, fk, stops>>

-----------------------------------------------------------------------------
\* The process stops, or a statement raises and get_db rolls back.
Stop == /\ at # "down" /\ stops < MaxStops
        /\ db' = disk /\ open' = FALSE /\ at' = "down"
        /\ stops' = stops + 1
        /\ UNCHANGED <<disk, fk, cur, left, mem>>

Step == \/ Boot \/ ReadWords \/ CreateWords \/ FillWords
        \/ DropBackup \/ CopySettings \/ DropSettings
        \/ CheckTable \/ CopyTable \/ DropTable
        \/ Reconcile \/ Script \/ Create \/ Recover
        \/ RebuildGroups \/ Checkpoint \/ ApiDefaults
        \/ SubscribeTables \/ Subscribe \/ GlobalMode \/ RebuildChannels
        \/ Migrate \/ RestoreSettings \/ RestoreSettingsFails
        \/ RestoreTables \/ Finish
Next == Step \/ Stop

Spec == Init /\ [][Next]_vars
\* init_db goes on; the container is started again after it stopped.
FairSpec == Spec /\ WF_vars(Step)

-----------------------------------------------------------------------------
(* Wherever the upgrade was interrupted, it comes to its end, and then each *)
(* data migration has been applied once: none twice, none skipped.  Only a  *)
(* restore of the settings that failed may leave a database without them.   *)
UpgradeCompletes ==
    <>[](/\ at = "up" /\ \A m \in Data : db.done[m] = 1
         /\ IF db.settings.there THEN db.settings.version = Latest
                                 ELSE "settings" \in db.lost)

(* The keywords and the corrected matches that are taken out for a rebuild  *)
(* come back, wherever the upgrade was interrupted, unless the statements   *)
(* that bring back these rows fail.                                         *)
RebuiltRowsSurvive ==
    at = "up" => \A t \in Rebuilt : db.table[t].rows \/ t \in db.lost

(* From v58 on nothing is committed between the recovery of the version and *)
(* the restore of the settings: an interrupted upgrade keeps them, unless   *)
(* the restore itself fails.                                                *)
Own == db.settings.there /\ db.settings.own
SettingsSurviveFrom58 ==
    at = "up" /\ db.from >= 58 => Own \/ "settings" \in db.lost

(* The settings are backed up and restored, whatever the version before.    *)
SettingsSurvive == at = "up" => Own

(* The manual mode of a group becomes the global mode.                      *)
ManualIsSticky == at = "up" /\ db.from < 59 /\ db.manual /\ stops = 0
                    => db.settings.mode = "manual"

(* The streams of the channels survive the rebuild of the tables.           *)
StreamsSurvive == at = "up" => db.channels.streams

(* After the start the tables have all the columns of the schema.           *)
ColumnsComplete == at = "up" => db.channels.full

(* The user's exception keywords survive the change of their columns.       *)
WordsSurvive == at = "up" => db.words.rows
=============================================================================
