----------------------------- MODULE ProfileSync -----------------------------
(***************************************************************************)
(* The channel profiles of one managed channel: the list stored in its     *)
(* row, the profiles that enable it in Dispatcharr, and the sync of every  *)
(* generation.  {All} stands for [0], which Dispatcharr expands on a write *)
(* and reports as the ids it expanded to; {} is "no profiles".             *)
(***************************************************************************)
EXTENDS Naturals, FiniteSets

CONSTANTS
    Profiles,       \* ids of channel profiles
    All,            \* the sentinel 0
    MaxChanges,     \* bound of changes of the settings and the catalog
    MaxFaults       \* bound of failing calls and outside edits

Selections == {{All}} \cup SUBSET Profiles

VARIABLES
    catalog,    \* the profiles that exist in Dispatcharr
    setting,    \* what the settings resolve to for the event of the channel
    exists,     \* the channel exists
    stored,     \* channel_profile_ids of its row
    shown,      \* the profiles that enable it in Dispatcharr
    queue,      \* [add, remove]: the pending bulk changes
    pc,         \* "idle", "sync" or "flush"
    changes, faults,
    drifted     \* history: since all profiles of the channel were written
                \* at once, somebody edited them, a bulk change failed, the
                \* catalog changed or a list followed the sentinel

vars == <<catalog, setting, exists, stored, shown, queue, pc, changes, faults,
          drifted>>

NoChange == [add |-> {}, remove |-> {}]
Expand(sel) == IF sel = {All} THEN catalog ELSE sel \cap catalog

\* What a listing of the profiles returns: the catalog, or nothing usable.
Listings == IF faults < MaxFaults THEN {TRUE, FALSE} ELSE {TRUE}

Init ==
    /\ catalog \in SUBSET Profiles /\ setting \in Selections
    /\ exists = FALSE /\ stored = {} /\ shown = {}
    /\ queue = NoChange /\ pc = "idle"
    /\ changes = 0 /\ faults = 0 /\ drifted = FALSE

-----------------------------------------------------------------------------
\* _validate_profile_ids, for a creation only: stale ids are dropped, and a
\* selection of nothing but stale ids becomes all profiles.
Validated(sel, listed) ==
    IF sel \in {{}, {All}} \/ ~listed \/ catalog = {} THEN sel
    ELSE IF sel \cap catalog = {} THEN {All} ELSE sel \cap catalog

StartRun ==
    /\ pc = "idle"
    /\ pc' = "sync"
    /\ UNCHANGED <<catalog, setting, exists, stored, shown, queue, changes,
                   faults, drifted>>

\* Dispatcharr refuses a channel with a profile that it does not have.
Create ==
    /\ pc = "sync" /\ ~exists
    /\ pc' = "flush"
    /\ \E listed \in Listings :
         LET sel == Validated(setting, listed)
         IN  /\ faults' = faults + (IF listed THEN 0 ELSE 1)
             /\ IF sel = {All} \/ sel \subseteq catalog
                THEN /\ exists' = TRUE /\ stored' = sel /\ shown' = Expand(sel)
                     /\ drifted' = FALSE
                ELSE UNCHANGED <<exists, stored, shown, drifted>>
    /\ UNCHANGED <<catalog, setting, queue, changes>>

\* The sentinel is in sync if every profile enables the channel; without a
\* catalog it cannot be told, except that an empty list is drift.
InSync(listed) ==
    IF setting = {All}
    THEN shown = {All} \/ (shown # {} /\ (~listed \/ catalog = {}
                                          \/ catalog \subseteq shown))
    ELSE setting = shown

\* Mutant: the row is written although the sentinel was refused.
SyncOpenLoop ==
    /\ pc = "sync" /\ exists
    /\ pc' = "flush"
    /\ stored' = setting
    /\ \/ shown' = (IF setting \in {{}, {All}} THEN Expand(setting) ELSE shown)
          /\ UNCHANGED faults
       \/ faults < MaxFaults /\ faults' = faults + 1 /\ UNCHANGED shown
    /\ queue' = IF setting \in {{}, {All}} THEN NoChange
                ELSE [add |-> setting \ stored, remove |-> stored \ setting]
    /\ UNCHANGED <<catalog, setting, exists, changes, drifted>>

\* _sync_channel_profiles.  A sentinel is pushed at once and stored only when
\* it was accepted; a concrete selection is stored at once and its difference
\* from the stored list is queued.
Sync ==
    /\ pc = "sync" /\ exists
    /\ pc' = "flush"
    /\ \E listed \in Listings :
         IF setting = stored /\ InSync(listed)
         THEN /\ faults' = faults + (IF listed THEN 0 ELSE 1)
              /\ UNCHANGED <<stored, shown, queue, drifted>>
         ELSE IF setting \in {{}, {All}}
         THEN \/ /\ stored' = setting /\ shown' = Expand(setting)
                 /\ faults' = faults + (IF listed THEN 0 ELSE 1)
                 /\ drifted' = FALSE
                 /\ UNCHANGED queue
              \/ /\ listed /\ faults < MaxFaults
                 /\ faults' = faults + 1
                 /\ UNCHANGED <<stored, shown, queue, drifted>>
         ELSE /\ stored' = setting
              /\ queue' = [add    |-> setting \ stored,
                           remove |-> stored \ setting]
              /\ faults' = faults + (IF listed THEN 0 ELSE 1)
              /\ drifted' = (drifted \/ stored = {All})
              /\ UNCHANGED shown
    /\ UNCHANGED <<catalog, setting, exists, changes>>

\* _apply_pending_profile_changes: one bulk call for each profile; a failing
\* one is logged and forgotten.  The removal of the sentinel itself fails
\* always, and changes nothing.
Flush ==
    /\ pc = "flush"
    /\ pc' = "idle" /\ queue' = NoChange
    /\ \E refused \in SUBSET ((queue.add \cup queue.remove) \cap catalog) :
         /\ Cardinality(refused) <= MaxFaults - faults
         /\ faults' = faults + Cardinality(refused)
         /\ shown' = (shown \ (queue.remove \ refused))
                        \cup ((queue.add \cap catalog) \ refused)
         /\ drifted' = (drifted \/ refused # {})
    /\ UNCHANGED <<catalog, setting, exists, stored, changes>>

\* The user selects other profiles, or a profile is created or deleted.
Change ==
    /\ changes < MaxChanges
    /\ changes' = changes + 1
    /\ \/ /\ setting' \in Selections \ {setting}
          /\ UNCHANGED <<catalog, shown, drifted>>
       \/ \E p \in Profiles \ catalog :
            /\ catalog' = catalog \cup {p} /\ drifted' = exists
            /\ UNCHANGED <<setting, shown>>
       \/ \E p \in catalog :
            /\ catalog' = catalog \ {p} /\ shown' = shown \ {p}
            /\ drifted' = exists
            /\ UNCHANGED setting
    /\ UNCHANGED <<exists, stored, queue, pc, faults>>

\* Somebody edits the profiles of the channel in Dispatcharr.
EditOutside ==
    /\ exists /\ faults < MaxFaults
    /\ faults' = faults + 1
    /\ shown' \in (SUBSET catalog) \ {shown}
    /\ drifted' = TRUE
    /\ UNCHANGED <<catalog, setting, exists, stored, queue, pc, changes>>

Generation == StartRun \/ Create \/ Sync \/ Flush

Next == Generation \/ Change \/ EditOutside

Spec == Init /\ [][Next]_vars

FairSpec == Spec /\ WF_vars(Generation)

-----------------------------------------------------------------------------
(* What must hold                                                           *)

TypeOK ==
    /\ catalog \subseteq Profiles /\ setting \in Selections
    /\ exists \in BOOLEAN /\ drifted \in BOOLEAN
    /\ stored \in Selections /\ shown \subseteq catalog
    /\ queue \in [add : SUBSET (Profiles \cup {All}),
                  remove : SUBSET (Profiles \cup {All})]
    /\ pc \in {"idle", "sync", "flush"}

Agreed == shown = Expand(setting)

\* All profiles, or none, once selected for good, are what Dispatcharr ends up
\* with, whatever calls fail and whoever edits the channel before; any other
\* selection is, unless what was enabled went out of the books.
Converged == exists /\ (setting \in {{}, {All}} \/ ~drifted) => Agreed
ProfilesConverge == <>[]Converged

\* "If the Dispatcharr side drifted from what the DB recorded, the correct
\* profiles are pushed even when the DB appears in sync."
DriftIsRepaired == <>[](exists => Agreed)
=============================================================================
