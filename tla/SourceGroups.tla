----------------------------- MODULE SourceGroups -----------------------------
(***************************************************************************)
(* The event groups: the sources that a generation takes streams from.     *)
(* Requests create, edit, disable, rebind and delete them beside the runs; *)
(* a run renders the guide of each group, merges the guides to a file and  *)
(* at last flags the groups whose M3U group has left Dispatcharr.          *)
(*                                                                         *)
(* All groups want the same name here: only the account tells them apart.  *)
(* A handler that looks before it writes is two steps.                     *)
(***************************************************************************)
EXTENDS Naturals, FiniteSets

CONSTANTS
    Groups,         \* ids of rows of event_epg_groups
    Types,          \* matching types: Stream Name, Team, EPG
    Accounts,       \* M3U accounts
    M3UIds,         \* ids of channel groups in Dispatcharr
    M3UNames,       \* their names
    Requests,       \* requests that may be under way at once
    MaxChanges,     \* bound of requests and of changes of the playlists
    MaxFaults       \* bound of failing calls, runs and crashes

None   == "none"    \* no account, no M3U group, no guide, no request
Absent == [there |-> FALSE]

VARIABLES
    group,      \* rows of event_epg_groups, and event_epg_xmltv
    live,       \* the name of each M3U group in Dispatcharr, or None
    template,   \* a template is assigned
    req,        \* the patch that a request has checked and will write
    pc,         \* "idle", "groups" or "stale"
    listed,     \* the groups that the run has loaded
    todo,       \* those it has not processed
    bare,       \* those it found without a template
    served,     \* history: the age of each guide in the file last written
    raced,      \* history: groups whose types changed under a check
    changes, faults

vars == <<group, live, template, req, pc, listed, todo, bare, served, raced,
          changes, faults>>
runVars == <<pc, listed, todo, bare, served>>

Rows == {g \in Groups : group[g].there}
On   == {g \in Rows : group[g].on}

NewGroup(a, ts, on) ==
    [there |-> TRUE, account |-> a, types |-> ts, on |-> on, bound |-> None,
     name |-> None, pattern |-> FALSE, missing |-> FALSE, guide |-> None]

\* There is no group yet, or one that was set up before.
Init ==
    /\ group = [g \in Groups |-> Absent] \/
          \E a \in Accounts, n \in M3UNames, b \in BOOLEAN :
             group = [g \in Groups |->
                IF g = CHOOSE h \in Groups : TRUE
                THEN [NewGroup(a, Types, TRUE) EXCEPT
                         !.bound = CHOOSE i \in M3UIds : TRUE,
                         !.name = n, !.pattern = b]
                ELSE Absent]
    /\ live \in [M3UIds -> M3UNames \cup {None}]
    /\ template = TRUE
    /\ req = [r \in Requests |-> [kind |-> None]]
    /\ pc = "idle" /\ listed = {} /\ todo = {} /\ bare = {}
    /\ served = [g \in Groups |-> None] /\ raced = {}
    /\ changes = 0 /\ faults = 0

Counted == /\ changes < MaxChanges
           /\ changes' = changes + 1
Fault   == /\ faults < MaxFaults
           /\ faults' = faults + 1

-----------------------------------------------------------------------------
(* Requests                                                                 *)

\* get_group_by_name without an account looks through all of them.
Taken(a) == {g \in Rows : a \in {None, group[g].account}}

\* The unique index on (name, m3u_account_id) takes NULLs for distinct.
Unique(a) == a = None \/ \A h \in Rows : group[h].account # a

CreateLook(r, a, ts) ==
    /\ req[r].kind = None /\ Counted
    /\ ts # {} /\ Taken(a) = {}
    /\ req' = [req EXCEPT ![r] = [kind |-> "create", account |-> a,
                                  types |-> ts]]
    /\ UNCHANGED <<group, live, template, runVars, raced, faults>>

\* The INSERT, or the refusal by the index.  Ids are never used again; here
\* they are, but not while a run remembers them.
CreateWrite(r) ==
    /\ req[r].kind = "create"
    /\ req' = [req EXCEPT ![r] = [kind |-> None]]
    /\ IF Unique(req[r].account)
       THEN \E g \in Groups \ (Rows \cup listed) :
              /\ group' = [group EXCEPT ![g] =
                              NewGroup(req[r].account, req[r].types, TRUE)]
              /\ raced' = raced \ {g}
       ELSE UNCHANGED <<group, raced>>
    /\ UNCHANGED <<live, template, runVars, changes, faults>>

\* create_groups_bulk: each item is looked up after the INSERT of the last.
CreateBulk(as, ts) ==
    LET free == {a \in as : a # None /\ Taken(a) = {}}
    IN  /\ Counted
        /\ ts # {} /\ free # {}
        /\ \E ids \in SUBSET (Groups \ (Rows \cup listed)) :
           \E of \in [ids -> free] :
              /\ {of[g] : g \in ids} = free
              /\ Cardinality(ids) = Cardinality(free)
              /\ group' = [g \in Groups |->
                    IF g \in ids THEN NewGroup(of[g], ts, TRUE) ELSE group[g]]
              /\ raced' = raced \ ids
        /\ UNCHANGED <<live, template, req, runVars, faults>>

\* A patch switches one matching type; the others keep their value.
Patched(ts, p) == IF p.on THEN ts \cup {p.type} ELSE ts \ {p.type}
Patches == [type : Types, on : BOOLEAN]

\* update_group_by_id checks what the row would become.
UpdateLook(r, g, p) ==
    /\ req[r].kind = None /\ g \in Rows /\ Counted
    /\ Patched(group[g].types, p) # {}
    /\ req' = [req EXCEPT ![r] = [kind |-> "update", g |-> g, p |-> p,
                                  seen |-> group[g].types]]
    /\ UNCHANGED <<group, live, template, runVars, raced, faults>>

\* The UPDATE writes the fields that the request gives, and no other.
UpdateWrite(r) ==
    /\ req[r].kind = "update"
    /\ req' = [req EXCEPT ![r] = [kind |-> None]]
    /\ LET g == req[r].g
       IN  IF g \in Rows
           THEN /\ group' = [group EXCEPT ![g].types = Patched(@, req[r].p)]
                /\ raced' = IF group[g].types = req[r].seen
                            THEN raced ELSE raced \cup {g}
           ELSE UNCHANGED <<group, raced>>
    /\ UNCHANGED <<live, template, runVars, changes, faults>>

\* Mutant: the groups are not looked at before they are updated.
UpdateBulkBlindly(gs, p) ==
    /\ Counted /\ gs # {}
    /\ group' = [g \in Groups |->
           IF g \in gs \cap Rows
           THEN [group[g] EXCEPT !.types = Patched(@, p)] ELSE group[g]]
    /\ UNCHANGED <<live, template, req, runVars, raced, faults>>

\* update_groups_bulk leaves out the groups that would match nothing.
UpdateBulk(gs, p) ==
    /\ Counted /\ gs # {}
    /\ group' = [g \in Groups |->
           IF g \in gs \cap Rows /\ Patched(group[g].types, p) # {}
           THEN [group[g] EXCEPT !.types = Patched(@, p)] ELSE group[g]]
    /\ UNCHANGED <<live, template, req, runVars, raced, faults>>

\* PUT with enabled = FALSE deletes the guide, POST /disable does not.
Switch(g, on, put) ==
    /\ g \in Rows /\ group[g].on # on /\ Counted
    /\ group' = [group EXCEPT ![g].on = on,
                              ![g].guide = IF put /\ ~on THEN None ELSE @]
    /\ UNCHANGED <<live, template, req, runVars, raced, faults>>

\* The guide goes with the row.
Delete(g) ==
    /\ g \in Rows /\ Counted
    /\ group' = [group EXCEPT ![g] = Absent]
    /\ UNCHANGED <<live, template, req, runVars, raced, faults>>

\* rebind_group: a source is bound to another M3U group, or by a pattern on
\* names instead, and is no longer taken for missing.
Rebind(g, i, pattern) ==
    /\ g \in Rows /\ live[i] # None /\ Counted
    /\ group' = [group EXCEPT ![g].bound = i, ![g].name = live[i],
                              ![g].pattern = pattern, ![g].missing = FALSE]
    /\ UNCHANGED <<live, template, req, runVars, raced, faults>>

\* The playlists are imported again, or the template is (un)assigned.
Outside ==
    /\ Counted
    /\ \/ /\ \E i \in M3UIds, n \in M3UNames \cup {None} :
               /\ n # live[i] /\ None \in {n, live[i]}
               /\ live' = [live EXCEPT ![i] = n]
          /\ UNCHANGED template
       \/ template' = ~template /\ UNCHANGED live
    /\ UNCHANGED <<group, req, runVars, raced, faults>>

-----------------------------------------------------------------------------
(* A run                                                                    *)

\* What was rendered before is old from now on.
StartRun ==
    /\ pc = "idle"
    /\ pc' = "groups" /\ listed' = On /\ todo' = On /\ bare' = {}
    /\ group' = [g \in Groups |->
           IF g \in Rows /\ group[g].guide = "new"
           THEN [group[g] EXCEPT !.guide = "old"] ELSE group[g]]
    /\ UNCHANGED <<live, template, req, served, raced, changes, faults>>

\* The M3U groups that the streams of g are fetched from.
Fetched(g) == IF group[g].pattern THEN {i \in M3UIds : live[i] # None}
              ELSE {i \in M3UIds : group[g].bound = i /\ live[i] # None}

\* Mutant: a guide is stored when there is one.
ProcessGroupKeeping(g) ==
    /\ pc = "groups" /\ g \in todo /\ g \in Rows
    /\ todo' = todo \ {g}
    /\ bare' = IF template THEN bare ELSE bare \cup {g}
    /\ \E matches \in BOOLEAN :
         group' = [group EXCEPT ![g].guide =
             IF /\ template /\ matches
                /\ Fetched(g) # {} \/ group[g].bound = None
             THEN "new" ELSE @]
    /\ UNCHANGED <<live, template, req, pc, listed, served, raced, changes,
                   faults>>

\* _process_group_internal: the guide is cleared, then rendered if streams
\* are there and match; an exception leaves it cleared.  Without a template
\* nothing is touched.  A group without an M3U group takes all streams.
ProcessGroup(g) ==
    /\ pc = "groups" /\ g \in todo /\ g \in Rows
    /\ todo' = todo \ {g}
    /\ bare' = IF template THEN bare ELSE bare \cup {g}
    /\ \E matches \in BOOLEAN :
         group' = [group EXCEPT ![g].guide =
             IF ~template THEN @
             ELSE IF matches /\ (Fetched(g) # {} \/ group[g].bound = None)
             THEN "new" ELSE None]
    /\ UNCHANGED <<live, template, req, pc, listed, served, raced, changes,
                   faults>>

\* The row of the group's own run refers to the group: when that is gone, the
\* exception ends the generation, as a crash or a cancellation does.
RunFails ==
    /\ pc # "idle"
    /\ \/ pc = "groups" /\ \E g \in todo : g \notin Rows /\ UNCHANGED faults
       \/ Fault
    /\ pc' = "idle" /\ listed' = {} /\ todo' = {} /\ bare' = {}
    /\ UNCHANGED <<group, live, template, req, served, raced, changes>>

\* The guides of all enabled groups make the file; none leaves the old file.
Merge ==
    /\ pc = "groups" /\ todo = {}
    /\ pc' = "stale"
    /\ LET age(g) == IF g \in On THEN group[g].guide ELSE None
       IN  served' = IF \A g \in Groups : age(g) = None THEN served
                     ELSE [g \in Groups |-> age(g)]
    /\ UNCHANGED <<group, live, template, req, listed, todo, bare, raced,
                   changes, faults>>

SameName(g) == {i \in M3UIds : live[i] # None /\ live[i] = group[g].name}

\* A group is present if the pattern finds something, its M3U group exists or
\* another one has its name.
Present(g) == \/ Fetched(g) # {}
              \/ ~group[g].pattern /\ SameName(g) # {}

\* Mutant: the flag of a source that is back stays.
DetectStaleOnce ==
    /\ pc = "stale"
    /\ pc' = "idle" /\ listed' = {} /\ bare' = {}
    /\ group' = [g \in Groups |->
           IF g \in On /\ group[g].bound # None /\ ~Present(g)
           THEN [group[g] EXCEPT !.missing = TRUE] ELSE group[g]]
    /\ UNCHANGED <<live, template, req, todo, served, raced, changes, faults>>

\* detect_stale_groups: a group that came back under a new id is bound to it
\* when there is just one.  An empty listing counts as none.
DetectStale ==
    /\ pc = "stale"
    /\ pc' = "idle" /\ listed' = {} /\ bare' = {}
    /\ \/ /\ \E i \in M3UIds : live[i] # None
          /\ group' = [g \in Groups |->
               IF g \notin On \/ group[g].bound = None THEN group[g]
               ELSE [group[g] EXCEPT
                       !.missing = ~Present(g),
                       !.bound = IF /\ Fetched(g) = {}
                                    /\ \E i \in M3UIds : SameName(g) = {i}
                                 THEN CHOOSE i \in SameName(g) : TRUE
                                 ELSE @]]
          /\ UNCHANGED faults
       \/ /\ \A i \in M3UIds : live[i] = None
          /\ UNCHANGED <<group, faults>>
       \/ Fault /\ UNCHANGED group
    /\ UNCHANGED <<live, template, req, todo, served, raced, changes>>

\* The startup cleanup of the guides of disabled groups.
Boot ==
    /\ pc = "idle" /\ Fault
    /\ group' = [g \in Groups |-> IF g \in Rows \ On
                                  THEN [group[g] EXCEPT !.guide = None]
                                  ELSE group[g]]
    /\ req' = [r \in Requests |-> [kind |-> None]]
    /\ UNCHANGED <<live, template, runVars, raced, changes>>

-----------------------------------------------------------------------------
Generation ==
    \/ StartRun \/ Merge \/ DetectStale
    \/ \E g \in Groups : ProcessGroup(g)

Request ==
    \/ \E r \in Requests :
         \/ \E a \in Accounts \cup {None}, ts \in SUBSET Types :
               CreateLook(r, a, ts)
         \/ \E g \in Groups, p \in Patches : UpdateLook(r, g, p)
         \/ CreateWrite(r) \/ UpdateWrite(r)
    \/ \E ts \in SUBSET Types : CreateBulk(Accounts, ts)
    \/ \E p \in Patches : UpdateBulk(Groups, p)
    \/ \E g \in Groups :
         \/ \E on, put \in BOOLEAN : Switch(g, on, put)
         \/ Delete(g)
         \/ \E i \in M3UIds, pattern \in BOOLEAN : Rebind(g, i, pattern)

Next == Generation \/ RunFails \/ Request \/ Outside \/ Boot

Spec == Init /\ [][Next]_vars

\* Runs follow each other and go on; their calls have timeouts.
FairSpec == Spec /\ WF_vars(Generation)

-----------------------------------------------------------------------------
(* What must hold                                                           *)

TypeOK ==
    /\ \A g \in Groups : group[g] = Absent \/
          group[g] \in [there : {TRUE}, account : Accounts \cup {None},
                        types : SUBSET Types, on : BOOLEAN,
                        bound : M3UIds \cup {None},
                        name : M3UNames \cup {None}, pattern : BOOLEAN,
                        missing : BOOLEAN, guide : {None, "old", "new"}]
    /\ live \in [M3UIds -> M3UNames \cup {None}]
    /\ template \in BOOLEAN
    /\ pc \in {"idle", "groups", "stale"}
    /\ todo \subseteq listed /\ bare \subseteq listed
    /\ listed \subseteq Groups /\ raced \subseteq Groups
    /\ served \in [Groups -> {None, "old", "new"}]

\* "Every source must run at least one of Stream Name / Team / EPG matching":
\* no sequence of patches of single types leaves a source without one, unless
\* two updates of it checked and wrote at the same time.
SourcesMatch == \A g \in Rows \ raced : group[g].types # {}

\* "Stale rendered output is never served in the merged EPG": a file that is
\* written has what this run rendered, except for groups that were enabled
\* after the run had loaded its groups or that it found without a template.
GuideIsFresh ==
    [][pc = "groups" /\ pc' = "stale" /\ served' # served =>
         \A g \in listed \ bare : served'[g] # "old"]_vars

\* Once the playlists settle, an enabled source is flagged exactly when its
\* M3U group is gone, and one that is not flagged has streams to fetch unless
\* several groups have its name.
FlagsSettle ==
    <>[](pc = "groups" /\ todo = listed /\ (\E i \in M3UIds : live[i] # None)
           => \A g \in listed \cap On :
                group[g].bound # None =>
                  /\ group[g].missing <=> ~Present(g)
                  /\ \/ group[g].missing \/ Fetched(g) # {}
                     \/ Cardinality(SameName(g)) > 1)
===============================================================================
