------------------------------- MODULE Services -------------------------------
(* The services around the channels: the history of the runs, the scheduler, *)
(* the cache of stream matches, the migrations and the event groups.  They   *)
(* share no state, so that a behaviour is of one of them and the others rest *)
(* in a state they may begin in.                                             *)
EXTENDS RunHistory

CONSTANTS
    SubTasks, Handlers, MaxLoops, MaxSaves,                    \* scheduler
    Streams, Events, TeamStreams, MatchRuns, Back, Ahead,      \* matches
    PurgeAfter, MaxChanges,
    From, Rebuilt, MaxStops,                                   \* migrations
    Sources, Types, Accounts, M3UIds, M3UNames, Requests,      \* groups
    MaxEdits, MaxFaults

VARIABLES part,  \* the component that the behaviour is of
    scEnabled, scOn, scCurrent, scLoop, scSubs, scReq, scChanges,
    mtWhen, mtListed, mtRow, mtRun, mtPin, mtChanges,
    mgDb, mgDisk, mgOpen, mgFk, mgAt, mgCur, mgLeft, mgMem, mgStops,
    grGroup, grLive, grTemplate, grReq, grPc, grListed, grTodo, grBare,
    grServed, grRaced, grChanges, grFaults

Sc == INSTANCE Scheduler WITH
    Requests <- Handlers, MaxChanges <- MaxSaves, enabled <- scEnabled,
    on <- scOn, current <- scCurrent, loop <- scLoop, subs <- scSubs,
    req <- scReq, changes <- scChanges
ScVars == <<scEnabled, scOn, scCurrent, scLoop, scSubs, scReq, scChanges>>

Mt == INSTANCE MatchCache WITH
    Runs <- MatchRuns, when <- mtWhen, listed <- mtListed, row <- mtRow,
    run <- mtRun, pin <- mtPin, changes <- mtChanges
MtVars == <<mtWhen, mtListed, mtRow, mtRun, mtPin, mtChanges>>

Mg == INSTANCE Migrations WITH
    db <- mgDb, disk <- mgDisk, open <- mgOpen, fk <- mgFk, at <- mgAt,
    cur <- mgCur, left <- mgLeft, mem <- mgMem, stops <- mgStops
MgVars == <<mgDb, mgDisk, mgOpen, mgFk, mgAt, mgCur, mgLeft, mgMem, mgStops>>

Gr == INSTANCE SourceGroups WITH
    Groups <- Sources, MaxChanges <- MaxEdits, group <- grGroup,
    live <- grLive, template <- grTemplate, req <- grReq, pc <- grPc,
    listed <- grListed, todo <- grTodo, bare <- grBare, served <- grServed,
    raced <- grRaced, changes <- grChanges, faults <- grFaults
GrVars ==
    <<grGroup, grLive, grTemplate, grReq, grPc, grListed, grTodo, grBare,
      grServed, grRaced, grChanges, grFaults>>

\* The main loop is no sub-task; the window is of days, and None no event; the
\* versions are of databases; there is a way to match, and an M3U group for a
\* source to be bound to.
ASSUME ServicesAssumption ==
    /\ "main" \notin SubTasks /\ MaxSaves \in Nat
    /\ Back \in Nat /\ Ahead \in Nat /\ PurgeAfter \in Nat
    /\ MaxChanges \in Nat /\ Mt!None \notin Events
    /\ From \subseteq 0..Mg!Latest /\ MaxStops \in Nat
    /\ Types # {} /\ M3UIds # {}

-----------------------------------------------------------------------------
Parts == {"history", "scheduler", "matches", "migrations", "groups"}
all == <<part, vars, ScVars, MtVars, MgVars, GrVars>>

SumInit == part \in Parts /\ Init /\ Sc!Init /\ Mt!Init /\ Mg!Init /\ Gr!Init

SumNext ==
    \/ /\ part = "history" /\ Next
       /\ UNCHANGED <<part, ScVars, MtVars, MgVars, GrVars>>
    \/ /\ part = "scheduler" /\ Sc!Next
       /\ UNCHANGED <<part, vars, MtVars, MgVars, GrVars>>
    \/ /\ part = "matches" /\ Mt!Next
       /\ UNCHANGED <<part, vars, ScVars, MgVars, GrVars>>
    \/ /\ part = "migrations" /\ Mg!Next
       /\ UNCHANGED <<part, vars, ScVars, MtVars, GrVars>>
    \/ /\ part = "groups" /\ Gr!Next
       /\ UNCHANGED <<part, vars, ScVars, MtVars, MgVars>>

\* The fairness of each component; nothing makes anybody clear the history.
Fairness ==
    /\ \A l \in 1..MaxLoops : WF_ScVars(part = "scheduler" /\ Sc!Run(l))
    /\ \A r \in Handlers : WF_ScVars(part = "scheduler" /\ Sc!Serve(r))
    /\ \A r \in MatchRuns :
          /\ WF_MtVars(part = "matches" /\ Mt!Start(r))
          /\ WF_MtVars(part = "matches" /\ Mt!Work(r))
    /\ WF_MgVars(part = "migrations" /\ Mg!Step)
    /\ WF_GrVars(part = "groups" /\ Gr!Generation)

SumSpec == SumInit /\ [][SumNext]_all

-----------------------------------------------------------------------------
\* The types of every component.
TypesOK == TypeOK /\ Sc!TypeOK /\ Mt!TypeOK /\ Mg!TypeOK /\ Gr!TypeOK

\* Scheduler: a task fires once per cron time, and the last saved settings
\* decide which loops there are.
LoopsFollowSettings ==
    [](Sc!OneLoopPerTask) /\ (part = "scheduler" => Sc!SettingsDecide)
\* MatchCache: no match that is found replaces a correction (proved), and a
\* stream that no source lists leaves the cache.
PinsAreKept == Mt!PinsAreNotReplaced
MatchesAreKept ==
    PinsAreKept /\ (part = "matches" => Mt!UnseenLeave)
\* Migrations: the rows of rebuilt tables come back, and from version 58 on
\* the settings, wherever the upgrade crashes.
RebuildsKeepData == Mg!RebuiltRowsSurvive /\ Mg!SettingsSurviveFrom58
\* Migrations: every data migration is applied once, whatever stops it.
UpgradeCompletes == part = "migrations" => Mg!UpgradeCompletes
\* SourceGroups: no patches leave a source that matches nothing, the file that
\* is written has no guide of an earlier run, and at last the flags tell which
\* sources are gone.
SourcesSettle ==
    [](Gr!SourcesMatch) /\ Gr!GuideIsFresh /\ (part = "groups" => Gr!FlagsSettle)
===============================================================================
