-------------------------- MODULE ChannelLifecycle --------------------------
(***************************************************************************)
(* Which event has a channel: the rows of managed_channels against the     *)
(* channels that exist in Dispatcharr and the cache through which Teamarr  *)
(* sees them.  A generation removes the rows of events that are over,      *)
(* verifies or creates a channel for every matched event, deletes the      *)
(* channels in Dispatcharr that no row tracks, and refreshes the cache     *)
(* when it reconciles.  An API or cron thread resets or deletes channels   *)
(* at the same time.                                                       *)
(*                                                                         *)
(* A row is named by the id of its channel: every row is written with one. *)
(* Deleted rows are never read again, so live is the set of ids with a row *)
(* that is not deleted, as the generation's connection sees it.  Ids that  *)
(* nothing refers to any more are used again.                              *)
(***************************************************************************)
EXTENDS Naturals, FiniteSets

CONSTANTS
    Events,
    Ids,            \* bound: channel ids in use at one time
    NoId,
    NoEvent,
    Reconciles,     \* reconcile_on_epg_generation
    MaxFaults,      \* bound: failures and outside interventions ...
    FaultsEnd       \* ... which are unlimited when this is FALSE

ASSUME NamesAssumption == NoId \notin Ids /\ NoEvent \notin Events
ASSUME FaultAssumption == /\ {Reconciles, FaultsEnd} \subseteq BOOLEAN
                          /\ MaxFaults \in Nat

VARIABLES
    wanted,     \* events whose streams match and that are not over
    disp,       \* channels in Dispatcharr with a teamarr-event tvg_id
    eventOf,    \* the event in that tvg_id, and in the row
    live,       \* rows that are not deleted
    undo,       \* uncommitted: rows the transaction marked deleted
    fresh,      \* uncommitted: rows the transaction inserted
    filled,     \* is the channel cache populated
    cache,      \* the channels in it
    pc,         \* where the generation is
    matched,    \* the events it matched
    rest,       \* those it has not processed yet
    cur,        \* the channel it has just created, or is deleting
    orphans,    \* what the orphan cleanup has still to delete
    apc,        \* where the API or cron thread is
    acur,       \* the channel it is deleting
    atodo,      \* what the reset has still to delete
    left,       \* faults that may still happen
    lost        \* history: channels that a failure or a reset left behind

remote  == <<disp, eventOf>>
rows    == <<live, undo, fresh>>
caching == <<filled, cache>>
genVars == <<pc, matched, rest, cur, orphans>>
apiVars == <<apc, acur, atodo>>
vars    == <<wanted, remote, rows, caching, genVars, apiVars, left, lost>>

Pcs  == {"idle", "cleanup", "cleanupMark", "match", "posted", "orphans",
         "collect", "sweep", "sweepMark", "reconcile"}
Apcs == {"idle", "reset", "delete", "mark"}

Init ==
    /\ wanted \in SUBSET Events
    /\ disp = {} /\ live = {} /\ undo = {} /\ fresh = {}
    /\ eventOf = [i \in Ids |-> NoEvent]
    /\ filled = FALSE /\ cache = {}
    /\ pc = "idle" /\ matched = {} /\ rest = {} /\ cur = NoId /\ orphans = {}
    /\ apc = "idle" /\ acur = NoId /\ atodo = {}
    /\ left = MaxFaults
    /\ lost = {}

-----------------------------------------------------------------------------
(* Failures                                                                 *)

NoFault == left' = left
Fault   == left > 0 /\ left' = IF FaultsEnd THEN left - 1 ELSE left

\* What other connections see, and what is left after a rollback.
Committed == (live \cup undo) \ fresh

\* The event of an id that no channel and no row has any more is forgotten.
Settle ==
    eventOf' = [i \in Ids |-> IF i \in disp' \cup live' \cup undo' \cup {cur'}
                              THEN eventOf[i] ELSE NoEvent]

Free == Ids \ (disp \cup live \cup undo \cup cache \cup orphans \cup atodo
                 \cup {cur, acur})

-----------------------------------------------------------------------------
(* Dispatcharr, as the channel manager sees it                              *)

\* _ensure_cache.  A page that cannot be read ends the list, and the cache
\* counts as populated all the same.
Listed(c) == IF filled THEN c = cache ELSE c \subseteq disp

Listing(c) == Listed(c) /\ IF filled \/ c = disp THEN NoFault ELSE Fault

\* delete_channel: success and "not found" drop the cache entry.  A failure
\* leaves it, whether or not the channel is gone.
Deleted(i) ==
    /\ disp' = disp \ {i}
    /\ cache' = cache \ {i}
    /\ lost' = lost \ {i}

DeleteFails(i) ==
    /\ \/ disp' = disp /\ lost' = lost \cup ({i} \cap disp)
       \/ disp' = disp \ {i} /\ lost' = lost \ {i}
    /\ cache' = cache

DeleteCall(i) ==
    \/ Deleted(i) /\ NoFault
    \/ DeleteFails(i) /\ Fault

\* Mutant: the inserted rows stay pending.
CommitMarks == undo' = {} /\ fresh' = fresh

Commit == undo' = {} /\ fresh' = {}

\* The writer of another connection waits until the generation commits.
Unlocked == undo = {} /\ fresh = {}

-----------------------------------------------------------------------------
(* The generation                                                           *)

RowsOf(e) == {i \in live : eventOf[i] = e}

Begin ==
    /\ pc = "idle"
    /\ pc' = "cleanup"
    /\ matched' = wanted
    /\ rest' = wanted
    /\ UNCHANGED <<wanted, remote, rows, caching, cur, orphans, apiVars, left,
                   lost>>

\* delete_managed_channel: the call first, then the row, whatever came of the
\* call.  E is the set of events that keep their channel.
GenDelete(at, E) ==
    /\ pc = at
    /\ \E i \in live :
         /\ eventOf[i] \notin E
         /\ DeleteCall(i)
         /\ cur' = i
    /\ pc' = IF at = "cleanup" THEN "cleanupMark" ELSE "sweepMark"
    /\ UNCHANGED <<wanted, eventOf, rows, filled, matched, rest, orphans,
                   apiVars>>

GenMark ==
    /\ pc \in {"cleanupMark", "sweepMark"}
    /\ live' = live \ {cur}
    /\ pc' = IF pc = "cleanupMark" THEN "cleanup" ELSE "sweep"
    /\ cur' = NoId
    /\ UNCHANGED <<wanted, disp, undo, fresh, caching, matched, rest, orphans,
                   apiVars, left, lost>>
    /\ Settle

\* process_scheduled_deletions and cleanup_deleted_streams; an exception
\* leaves the remaining rows for the next generation.
EndCleanup ==
    /\ pc = "cleanup"
    /\ IF \A i \in live : eventOf[i] \in matched THEN NoFault ELSE Fault
    /\ pc' = "match"
    /\ UNCHANGED <<wanted, remote, rows, caching, matched, rest, cur, orphans,
                   apiVars, lost>>

\* Mutant: a channel that cannot be verified counts as missing.
VerifyHasty(e) ==
    /\ pc = "match" /\ e \in rest
    /\ \E i \in RowsOf(e), c \in SUBSET Ids :
         /\ Listed(c)
         /\ cache' = c \cup ({i} \cap disp)
         /\ \/ /\ i \in c \cup disp /\ Listing(c)
               /\ rest' = rest \ {e}
               /\ UNCHANGED rows
            \/ /\ i \notin c /\ Fault
               /\ live' = live \ {i}
               /\ undo' = undo \cup ({i} \ fresh)
               /\ fresh' = fresh \ {i}
               /\ rest' = rest
    /\ filled' = TRUE
    /\ UNCHANGED <<wanted, disp, pc, matched, cur, orphans, apiVars, lost>>
    /\ Settle

\* _handle_existing_channel.  The cache is believed; otherwise Dispatcharr is
\* asked, and only a confirmed 404 marks the row deleted, in the transaction
\* that will hold the new row.
Verify(e) ==
    /\ pc = "match" /\ e \in rest
    /\ \E i \in RowsOf(e), c \in SUBSET Ids :
         \/ /\ Listing(c)
            /\ i \in c \cup disp
            /\ cache' = c \cup {i}
            /\ rest' = rest \ {e}
            /\ UNCHANGED rows
         \/ /\ Listing(c)
            /\ i \notin c \cup disp
            /\ cache' = c
            /\ live' = live \ {i}
            /\ undo' = undo \cup ({i} \ fresh)
            /\ fresh' = fresh \ {i}
            /\ rest' = rest
         \/ /\ Listed(c) /\ i \notin c /\ Fault
            /\ cache' = c
            /\ rest' = rest \ {e}
            /\ UNCHANGED rows
    /\ filled' = TRUE
    /\ UNCHANGED <<wanted, disp, pc, matched, cur, orphans, apiVars, lost>>
    /\ Settle

\* The POST of create_channel.  It is repeated when no answer comes, so that
\* it may create a channel that nobody hears of.
Post(e) ==
    /\ pc = "match" /\ e \in rest
    /\ RowsOf(e) = {}
    /\ \E i \in Free, extra \in SUBSET Free :
         /\ i \notin extra /\ Cardinality(extra) <= 1
         /\ IF extra = {} THEN NoFault ELSE Fault
         /\ disp' = disp \cup {i} \cup extra
         /\ eventOf' = [j \in Ids |-> IF j \in {i} \cup extra THEN e
                                                            ELSE eventOf[j]]
         /\ cache' = IF filled THEN cache \cup {i} ELSE cache
         /\ cur' = i
         /\ lost' = lost \cup extra
    /\ pc' = "posted"
    /\ UNCHANGED <<wanted, rows, filled, matched, rest, orphans, apiVars>>

\* No number is left, or the creation fails: the event waits for the next
\* generation, perhaps with a channel that nobody tracks.
PostFails(e) ==
    /\ pc = "match" /\ e \in rest
    /\ RowsOf(e) = {}
    /\ IF Free = {} THEN NoFault ELSE Fault
    /\ \E extra \in SUBSET Free :
         /\ Cardinality(extra) <= 1
         /\ disp' = disp \cup extra
         /\ eventOf' = [j \in Ids |-> IF j \in extra THEN e ELSE eventOf[j]]
         /\ lost' = lost \cup extra
    /\ rest' = rest \ {e}
    /\ UNCHANGED <<wanted, rows, caching, pc, matched, cur, orphans, apiVars>>

\* Mutant: the row is inserted on a connection of its own, so that the mark
\* on the old row stays uncommitted.
InsertApart ==
    /\ pc = "posted"
    /\ live' = live \cup {cur}
    /\ pc' = "match"
    /\ rest' = rest \ {eventOf[cur]}
    /\ cur' = NoId
    /\ UNCHANGED <<wanted, remote, undo, fresh, caching, matched, orphans,
                   apiVars, left, lost>>

\* The row is inserted and the transaction committed.
Insert ==
    /\ pc = "posted"
    /\ live' = live \cup {cur}
    /\ Commit
    /\ pc' = "match"
    /\ rest' = rest \ {eventOf[cur]}
    /\ cur' = NoId
    /\ UNCHANGED <<wanted, remote, caching, matched, orphans, apiVars, left,
                   lost>>

\* An exception in the insert, in add_stream_to_channel or in the commit: the
\* channel is deleted again, the transaction goes on with what it holds.
InsertFails ==
    /\ pc = "posted"
    /\ Fault
    /\ Deleted(cur) \/ DeleteFails(cur)
    /\ \/ UNCHANGED rows
       \/ live' = live \cup {cur} /\ fresh' = fresh \cup {cur} /\ undo' = undo
    /\ pc' = "match"
    /\ rest' = rest \ {eventOf[cur]}
    /\ cur' = NoId
    /\ UNCHANGED <<wanted, filled, matched, orphans, apiVars>>
    /\ Settle

EndMatch ==
    /\ pc = "match"
    /\ rest = {}
    /\ \/ live' = live /\ NoFault
       \/ live' = Committed /\ Fault      \* the commit raises: rolled back
    /\ Commit
    /\ pc' = "orphans"
    /\ UNCHANGED <<wanted, disp, caching, matched, rest, cur, orphans, apiVars,
                   lost>>
    /\ Settle

\* Mutant: the rows of the events that were matched are taken for all rows.
ListOrphansOfMatched ==
    /\ pc = "orphans"
    /\ \E c \in SUBSET Ids :
         /\ Listing(c)
         /\ cache' = c
         /\ orphans' = {i \in c : i \notin live \/ eventOf[i] \notin wanted}
    /\ filled' = TRUE
    /\ pc' = "collect"
    /\ UNCHANGED <<wanted, remote, rows, matched, rest, cur, apiVars, lost>>

\* cleanup_orphan_dispatcharr_channels
ListOrphans ==
    /\ pc = "orphans"
    /\ \E c \in SUBSET Ids :
         /\ Listing(c)
         /\ cache' = c
         /\ orphans' = c \ live
    /\ filled' = TRUE
    /\ pc' = "collect"
    /\ UNCHANGED <<wanted, remote, rows, matched, rest, cur, apiVars, lost>>

Collect ==
    /\ pc = "collect"
    /\ \E i \in orphans :
         /\ DeleteCall(i)
         /\ orphans' = orphans \ {i}
    /\ UNCHANGED <<wanted, rows, filled, pc, matched, rest, cur, apiVars>>
    /\ Settle

EndCollect ==
    /\ pc = "collect"
    /\ orphans = {}
    /\ pc' = "sweep"
    /\ UNCHANGED <<wanted, remote, rows, caching, matched, rest, cur, orphans,
                   apiVars, left, lost>>

\* Disabled groups, unsubscribed leagues and scheduled deletions come after
\* the orphan cleanup; they see the events of now.
EndSweep ==
    /\ pc = "sweep"
    /\ pc' = IF Reconciles THEN "reconcile" ELSE "idle"
    /\ UNCHANGED <<wanted, remote, rows, caching, matched, rest, cur, orphans,
                   apiVars, left, lost>>

\* Mutant: the reconciler looks at the cache it finds.
ReconcileCached ==
    /\ pc = "reconcile"
    /\ filled' = TRUE
    /\ cache' = cache \cup (live \cap disp)
    /\ pc' = "idle"
    /\ UNCHANGED <<wanted, remote, rows, matched, rest, cur, orphans, apiVars,
                   left, lost>>

\* reconcile(auto_fix=False): the cache is cleared and filled again, and the
\* rows that the listing misses are asked for one by one.  It repairs nothing.
Reconcile ==
    /\ pc = "reconcile"
    /\ \E c \in SUBSET disp :
         /\ IF c = disp THEN NoFault ELSE Fault
         /\ cache' = c
    /\ filled' = TRUE
    /\ pc' = "idle"
    /\ UNCHANGED <<wanted, remote, rows, matched, rest, cur, orphans, apiVars,
                   lost>>

\* A cancellation or an exception ends the generation between two steps.
Abort ==
    /\ pc \in {"cleanup", "orphans", "sweep", "reconcile"}
    /\ Fault
    /\ pc' = "idle"
    /\ UNCHANGED <<wanted, remote, rows, caching, matched, rest, cur, orphans,
                   apiVars, lost>>

-----------------------------------------------------------------------------
(* The API thread, and the channel reset by cron                            *)

\* _task_channel_reset does not look whether a generation runs; the endpoint
\* does, once, before it begins.
BeginReset ==
    /\ apc = "idle"
    /\ \E c \in SUBSET Ids :
         /\ Listed(c)
         /\ cache' = c
         /\ atodo' = c
    /\ Fault
    /\ filled' = TRUE
    /\ apc' = "reset"
    /\ UNCHANGED <<wanted, remote, rows, genVars, acur, lost>>

ResetDelete ==
    /\ apc = "reset"
    /\ \E i \in atodo :
         /\ DeleteCall(i)
         /\ atodo' = atodo \ {i}
    /\ UNCHANGED <<wanted, rows, filled, genVars, apc, acur>>
    /\ Settle

\* Every row is marked (so by mark_all_channels_deleted), also of a channel the
\* generation has created in the meantime.
ResetMark ==
    /\ apc = "reset" /\ atodo = {}
    /\ Unlocked
    /\ live' = {}
    /\ lost' = lost \cup (live \cap disp)
    /\ apc' = "idle"
    /\ UNCHANGED <<wanted, disp, undo, fresh, caching, genVars, acur, atodo,
                   left>>
    /\ Settle

\* DELETE /channels/managed/{id}
BeginDelete ==
    /\ apc = "idle"
    /\ Fault
    /\ \E i \in Committed : acur' = i
    /\ apc' = "delete"
    /\ UNCHANGED <<wanted, remote, rows, caching, genVars, atodo, lost>>

ApiDelete ==
    /\ apc = "delete"
    /\ DeleteCall(acur)
    /\ apc' = "mark"
    /\ UNCHANGED <<wanted, eventOf, rows, filled, genVars, acur, atodo>>

ApiMark ==
    /\ apc = "mark"
    /\ Unlocked
    /\ live' = live \ {acur}
    /\ apc' = "idle"
    /\ acur' = NoId
    /\ UNCHANGED <<wanted, disp, undo, fresh, caching, genVars, atodo, left,
                   lost>>
    /\ Settle

-----------------------------------------------------------------------------
(* The rest of the world                                                    *)

\* A stream appears or vanishes, an event comes near or ends, a group or a
\* league is switched on or off.
Change(e) ==
    /\ Fault
    /\ wanted' = IF e \in wanted THEN wanted \ {e} ELSE wanted \cup {e}
    /\ UNCHANGED <<remote, rows, caching, genVars, apiVars, lost>>

\* Somebody deletes the channel in Dispatcharr.
DeletedOutside(i) ==
    /\ i \in disp
    /\ Fault
    /\ disp' = disp \ {i}
    /\ lost' = lost \ {i}
    /\ UNCHANGED <<wanted, rows, caching, genVars, apiVars>>
    /\ Settle

\* The process dies: the transaction is rolled back, the cache is gone.
Crash ==
    /\ Fault
    /\ live' = Committed
    /\ Commit
    /\ lost' = lost \cup (IF pc = "posted" THEN {cur} \cap disp ELSE {})
    /\ filled' = FALSE /\ cache' = {}
    /\ pc' = "idle" /\ matched' = {} /\ rest' = {} /\ cur' = NoId
    /\ orphans' = {}
    /\ apc' = "idle" /\ acur' = NoId /\ atodo' = {}
    /\ UNCHANGED <<wanted, disp>>
    /\ Settle

-----------------------------------------------------------------------------
GenStep ==
    \/ Begin \/ GenDelete("cleanup", matched) \/ GenMark \/ EndCleanup
    \/ \E e \in Events : Verify(e) \/ Post(e) \/ PostFails(e)
    \/ Insert \/ InsertFails \/ EndMatch
    \/ ListOrphans \/ Collect \/ EndCollect
    \/ GenDelete("sweep", wanted) \/ EndSweep \/ Reconcile

ApiStep == ResetDelete \/ ResetMark \/ ApiDelete \/ ApiMark

Next ==
    \/ GenStep \/ Abort
    \/ ApiStep \/ BeginReset \/ BeginDelete
    \/ Crash
    \/ \E e \in Events : Change(e)
    \/ \E i \in Ids : DeletedOutside(i)

Spec == Init /\ [][Next]_vars

\* The scheduler starts a generation again and again, and every call that a
\* thread makes ends.
FairSpec == Spec /\ WF_vars(GenStep) /\ WF_vars(ApiStep)

-----------------------------------------------------------------------------
(* What must hold                                                           *)

TypeOK ==
    /\ wanted \subseteq Events /\ matched \subseteq Events /\ rest \subseteq Events
    /\ eventOf \in [Ids -> Events \cup {NoEvent}]
    /\ disp \subseteq Ids /\ live \subseteq Ids /\ undo \subseteq Ids \ live
    /\ fresh \subseteq live /\ cache \subseteq Ids /\ orphans \subseteq Ids
    /\ atodo \subseteq Ids /\ lost \subseteq disp
    /\ filled \in BOOLEAN
    /\ pc \in Pcs /\ apc \in Apcs
    /\ {cur, acur} \subseteq Ids \cup {NoId}
    /\ left \in 0..MaxFaults

\* Consolidated channels: an event never has two rows that are not deleted,
\* neither in the transaction nor after a rollback or a crash, however a
\* missing channel is replaced.
OneRowPerEvent ==
    /\ \A i, j \in live : eventOf[i] = eventOf[j] => i = j
    /\ \A i, j \in Committed : eventOf[i] = eventOf[j] => i = j

\* A channel of ours in Dispatcharr is tracked by a row, unless a call for
\* that very channel failed, the process died between creating it and writing
\* its row, or a reset marked its row: no other order of steps abandons one.
OnlyFailuresLeak ==
    disp \ (live \cup lost) \subseteq {i \in {cur} : pc = "posted"}

\* The orphan cleanup never deletes a channel that a row tracks, although it
\* works from a cache and rows read earlier and other threads write rows.
OrphansAreUntracked == orphans \cap Committed = {}

\* What every event should have in the end.
Consistent ==
    /\ disp = live
    /\ {eventOf[i] : i \in live} = wanted

\* cleanup_orphan_dispatcharr_channels and _handle_existing_channel promise
\* that what a failed delete, a crash, a lost answer, a reset or somebody else
\* did is put right by later generations: when faults end, the channels in
\* Dispatcharr are those of the rows and the rows those of the wanted events,
\* and it stays so.
EventuallyConsistent == <>[]Consistent

-----------------------------------------------------------------------------
(* The inductive invariant: the safety properties with five more facts.     *)

\* The transaction is open only while the matched events are processed.
CommittedOutside ==
    pc \notin {"match", "posted"} => undo = {} /\ fresh = {}

\* A channel that was just created belongs to an event without a row.
PostedHasNoRow ==
    pc = "posted" => /\ cur \in Ids \ (live \cup undo)
                     /\ \A i \in live : eventOf[i] # eventOf[cur]

\* A row is marked when its channel is gone, or when the call has failed.
MarkedAfterDelete ==
    /\ pc \in {"cleanupMark", "sweepMark"} => cur \notin disp \ lost
    /\ apc = "mark" => acur \notin disp \ lost

OrphansOnlyCollected == pc # "collect" => orphans = {}

\* A row of a failed insert names no channel that was meant to stay.
FreshIsLost == fresh \cap disp \subseteq lost

IInv ==
    /\ TypeOK /\ OneRowPerEvent /\ OnlyFailuresLeak /\ OrphansAreUntracked
    /\ CommittedOutside /\ PostedHasNoRow /\ MarkedAfterDelete
    /\ OrphansOnlyCollected /\ FreshIsLost
=============================================================================
